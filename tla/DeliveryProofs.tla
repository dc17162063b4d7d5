--------------------------- MODULE DeliveryProofs ---------------------------
(***************************************************************************)
(* The delivery of a link, for any requests, fetchers, files, windows and  *)
(* ranges asked for.                                                       *)
(*                                                                         *)
(* First, nothing is stranded: the shared source is counted, its refresh   *)
(* lock has a holder, fetchers run inside a stream, no connection is       *)
(* closed under a call, a retired generation has a call that will close    *)
(* it, and no request sleeps beside a pool that is there.  What the bytes  *)
(* and ranges are plays no part in it: of the records of requests and      *)
(* fetchers the proof of Inv uses only which fields they have.             *)
(*                                                                         *)
(* Second, the bytes are exact.  The recursive functions of the model are  *)
(* loops over 0..n; that such a loop has a value, and what it computes, is *)
(* shown with a least counterexample (LeastNat, UpTo, LoopRuns), since the *)
(* induction theorems of the library take an operator.  The jobs of a      *)
(* range follow one another (JobsFollow), a slice that is not short has    *)
(* the bytes of its job (SliceIs), merged ranges lie apart and cover what  *)
(* the ranges cover (MergedAre); Exact says of every request, fetcher and  *)
(* of the link where in this they stand.                                   *)
(***************************************************************************)
EXTENDS Delivery, FiniteSetTheorems, WellFoundedInduction, TLAPS

ReqFields == {"at", "kind", "ranges", "k", "size", "ref", "job", "next", "active", "ctx", "chg",
              "pool", "sent", "bad", "stuck"}
FetchFields == {"at", "job", "gen", "ref", "ver", "size", "tries", "data"}
Holders == {<<>>} \cup (Requests \X Fetchers)

(* The records have their fields, and numbers that name pools are numbers. *)
Shape ==
    /\ DOMAIN req = Requests /\ \A r \in Requests : DOMAIN req[r] = ReqFields /\ req[r].pool \in Nat
    /\ DOMAIN fetch = Requests
    /\ \A r \in Requests : DOMAIN fetch[r] = Fetchers
    /\ \A r \in Requests, f \in Fetchers : DOMAIN fetch[r][f] = FetchFields
    /\ DOMAIN source = {"live", "ref", "ver", "refs", "lock"} /\ source.refs \in Nat
    /\ source.live \in BOOLEAN /\ source.lock \in Holders
    /\ DOMAIN pool = {"cur", "changed", "gen"}
    /\ pool.cur \in Nat /\ pool.changed \in Nat /\ pool.gen \in Nat
    /\ DOMAIN conns = {"of", "open", "cur", "retired", "closing"} /\ conns.of \in Nat

(* Every pool that was ever named has a number up to the generation of the *)
(* holder, so that a new pool and a new channel are really new.            *)
Numbered ==
    /\ pool.gen > 0 /\ pool.cur <= pool.gen /\ pool.changed <= pool.gen /\ conns.of <= pool.gen
    /\ \A r \in Requests : req[r].pool <= pool.gen
    /\ \A r \in Requests : req[r].at = "waiting" =>
          req[r].chg \in Nat /\ req[r].chg > 0 /\ req[r].chg <= pool.gen

(* The source counts its streams; without an entry there is none.          *)
Streams == {r \in Requests : req[r].at = "chunks"}
Counted ==
    /\ IsFiniteSet(Streams) /\ source.refs = Cardinality(Streams)
    /\ ~source.live => source.refs = 0

Renewing == {"ask", "store", "load"}
Locked == source.lock # <<>> => fetch[source.lock[1]][source.lock[2]].at \in Renewing

(* Fetchers run in a stream.                                               *)
Inside == \A r \in Requests, f \in Fetchers : fetch[r][f].at # "idle" => req[r].at = "chunks"

(* A call has a generation that is not closed, and a retired generation    *)
(* has a call.                                                             *)
Calling(r, f, g) == fetch[r][f].at = "call" /\ Alive(r) /\ fetch[r][f].gen = g
Kept == \A r \in Requests, f \in Fetchers :
            fetch[r][f].at = "call" /\ Alive(r) => fetch[r][f].gen \in conns.retired \cup {conns.cur}
Closable == \A g \in conns.retired : \E r \in Requests, f \in Fetchers : Calling(r, f, g)

Inv == Shape /\ Numbered /\ Counted /\ Locked /\ Inside /\ Kept /\ Closable /\ NoLostWakeup

-----------------------------------------------------------------------------
(* Lemmas *)

(* The constant records have the fields of their kind.                     *)
LEMMA ConstantShapes ==
    /\ DOMAIN NoReq = ReqFields /\ NoReq.pool = 0 /\ NoReq.at = "idle"
    /\ DOMAIN NoFetch = FetchFields /\ NoFetch.at = "idle"
    /\ \A r : DOMAIN Ended(r) = ReqFields /\ Ended(r).pool = 0 /\ Ended(r).at = "ended"
<1>1. DOMAIN NoReq = ReqFields /\ NoReq.pool = 0 /\ NoReq.at = "idle"
  BY DEF NoReq, ReqFields
<1>2. DOMAIN NoFetch = FetchFields /\ NoFetch.at = "idle"
  BY DEF NoFetch, FetchFields
<1>3. \A r : DOMAIN Ended(r) = ReqFields /\ Ended(r).pool = 0 /\ Ended(r).at = "ended"
  BY <1>1 DEF Ended, ReqFields
<1> QED
  BY <1>1, <1>2, <1>3

(* What Leased means for pairs of a request and a fetcher.                 *)
LEMMA LeasedMeans ==
    ASSUME NEW g
    PROVE  /\ Leased(g, <<>>) <=> \E r \in Requests, f \in Fetchers : Calling(r, f, g)
           /\ \A q, h : Leased(g, <<q, h>>) <=>
                \E r \in Requests, f \in Fetchers : (r # q \/ f # h) /\ Calling(r, f, g)
<1>1. \A but : Leased(g, but) <=>
          \E r \in Requests, f \in Fetchers : <<r, f>> # but /\ Calling(r, f, g)
  <2> SUFFICES ASSUME NEW but
               PROVE  Leased(g, but) <=>
                        \E r \in Requests, f \in Fetchers : <<r, f>> # but /\ Calling(r, f, g)
    OBVIOUS
  <2>1. ASSUME NEW c \in InCall \ {but}, Alive(c[1]), fetch[c[1]][c[2]].gen = g
        PROVE  \E r \in Requests, f \in Fetchers : <<r, f>> # but /\ Calling(r, f, g)
    <3>1. PICK r \in Requests, f \in Fetchers : c = <<r, f>>
      BY DEF InCall
    <3> QED
      BY <2>1, <3>1 DEF InCall, Calling
  <2>2. ASSUME NEW r \in Requests, NEW f \in Fetchers, <<r, f>> # but, Calling(r, f, g)
        PROVE  Leased(g, but)
    <3>1. <<r, f>> \in InCall \ {but} /\ <<r, f>>[1] = r /\ <<r, f>>[2] = f
      BY <2>2 DEF InCall, Calling
    <3>2. Alive(r) /\ fetch[r][f].gen = g
      BY <2>2 DEF Calling
    <3> QED
      BY <3>1, <3>2 DEF Leased
  <2> QED
    BY <2>1, <2>2 DEF Leased
<1>2. \A r, f : <<>> # <<r, f>>
  OBVIOUS
<1>3. \A r, f, q, h : <<r, f>> = <<q, h>> <=> r = q /\ f = h
  OBVIOUS
<1> QED
  BY <1>1, <1>2, <1>3

(* Inv gives what the run checks.                                          *)
LEMMA InvMeans == Inv => NothingStranded
<1> SUFFICES ASSUME Inv PROVE NothingStranded
  OBVIOUS
<1>1. source.refs = Cardinality({r \in Requests : req[r].at = "chunks"})
  BY DEF Inv, Counted, Streams
<1>2. \A r \in Requests, f \in Fetchers : fetch[r][f].at # "idle" => req[r].at = "chunks" /\ source.live
  <2> SUFFICES ASSUME NEW r \in Requests, NEW f \in Fetchers, fetch[r][f].at # "idle"
               PROVE  req[r].at = "chunks" /\ source.live
    OBVIOUS
  <2>1. r \in Streams
    BY DEF Inv, Inside, Streams
  <2>2. Cardinality(Streams) # 0
    BY <2>1, FS_EmptySet DEF Inv, Counted
  <2> QED
    BY <2>1, <2>2 DEF Inv, Counted, Streams
<1>3. \A c \in InCall : Alive(c[1]) => fetch[c[1]][c[2]].gen \in conns.retired \cup {conns.cur}
  BY DEF Inv, Kept, InCall
<1>4. \A g \in conns.retired : Leased(g, <<>>)
  BY LeasedMeans DEF Inv, Closable
<1>5. NothingLeaks
  BY <1>1, <1>2, <1>3, <1>4 DEF Inv, Locked, Renewing, NothingLeaks
<1> QED
  BY <1>5 DEF Inv, NothingStranded

(* What a request may become outside the stages that matter: it neither    *)
(* enters nor leaves a stream nor falls asleep, and a streaming one keeps  *)
(* its pool.                                                               *)
Harmless(x, y) ==
    /\ DOMAIN y = ReqFields /\ y.pool \in Nat /\ y.pool \in {x.pool, 0}
    /\ y.at = "chunks" <=> x.at = "chunks"
    /\ x.at = "chunks" => y.pool = x.pool
    /\ y.at = "waiting" => x.at = "waiting" /\ y.chg = x.chg

(* A request that stays as it is is harmless.                              *)
LEMMA HarmlessSelf == Shape => \A r \in Requests : Harmless(req[r], req[r])
BY DEF Shape, Harmless

(* A step in which requests change harmlessly and nothing else does.       *)
LEMMA RequestsMove ==
    ASSUME Inv, UNCHANGED <<fetch, source, conns, pool>>, DOMAIN req' = Requests,
           \A q \in Requests : Harmless(req[q], req'[q])
    PROVE  Inv'
<1>1. Shape'
  BY DEF Inv, Shape, Harmless
<1>2. Numbered'
  BY DEF Inv, Shape, Numbered, Harmless
<1>3. Streams' = Streams
  BY DEF Streams, Harmless
<1>4. Counted'
  BY <1>3 DEF Inv, Counted
<1>5. Locked' /\ Inside'
  BY DEF Inv, Locked, Inside, Harmless
<1>6. \A r \in Requests : req[r].at = "chunks" => (Alive(r)' <=> Alive(r))
  BY DEF Alive, Harmless
<1>7. Kept'
  BY <1>6 DEF Inv, Kept, Inside
<1>8. \A r \in Requests, f \in Fetchers, g \in conns.retired : Calling(r, f, g) => Calling(r, f, g)'
  BY <1>6 DEF Inv, Inside, Calling
<1>9. Closable'
  BY <1>8 DEF Inv, Closable
<1>10. NoLostWakeup'
  BY DEF Inv, NoLostWakeup, Harmless
<1> QED
  BY <1>1, <1>2, <1>4, <1>5, <1>7, <1>9, <1>10 DEF Inv

(* The same for one request.                                               *)
LEMMA RequestMoves ==
    ASSUME Inv, UNCHANGED <<fetch, source, conns, pool>>, NEW r \in Requests, NEW y,
           req' = [req EXCEPT ![r] = y], Harmless(req[r], y)
    PROVE  Inv'
<1>1. DOMAIN req' = Requests
  BY DEF Inv, Shape
<1>2. \A q \in Requests : Harmless(req[q], req'[q])
  BY HarmlessSelf DEF Inv, Shape
<1> QED
  BY <1>1, <1>2, RequestsMove

(* A change of one field that is neither the stage, the pool nor the       *)
(* channel is harmless.                                                    *)
LEMMA HarmlessField ==
    ASSUME Shape, NEW r \in Requests, NEW i \in ReqFields \ {"at", "pool", "chg"}, NEW v
    PROVE  Harmless(req[r], [req[r] EXCEPT ![i] = v])
<1> DEFINE y == [req[r] EXCEPT ![i] = v]
<1>1. DOMAIN y = ReqFields
  BY DEF Shape
<1>2. y["at"] = req[r]["at"] /\ y["pool"] = req[r]["pool"] /\ y["chg"] = req[r]["chg"]
  BY DEF Shape, ReqFields
<1>3. y.at = req[r].at /\ y.pool = req[r].pool /\ y.chg = req[r].chg
  BY <1>2
<1> HIDE DEF y
<1> QED
  BY <1>1, <1>3 DEF Harmless, Shape

-----------------------------------------------------------------------------
(* Requests *)

(* A request is let in.                                                    *)
LEMMA ArriveKeeps ==
    ASSUME Inv, NEW r \in Requests, NEW kind, Arrive(r, kind)
    PROVE  Inv'
<1> DEFINE y == [req[r] EXCEPT !.at = "open", !.kind = kind]
<1>1. req' = [req EXCEPT ![r] = y]
  BY DEF Arrive, Inv, Shape, ReqFields
<1>2. DOMAIN y = ReqFields /\ y.at = "open" /\ y.pool = req[r].pool
  BY DEF Inv, Shape, ReqFields
<1> HIDE DEF y
<1>3. Harmless(req[r], y)
  BY <1>2 DEF Harmless, Arrive, Inv, Shape
<1>4. UNCHANGED <<fetch, source, conns, pool>>
  BY DEF Arrive, pools
<1> QED
  BY <1>1, <1>3, <1>4, RequestMoves

(* A request that is not streaming may end.                                *)
LEMMA HarmlessEnd ==
    ASSUME Inv, NEW r \in Requests, req[r].at # "chunks"
    PROVE  Harmless(req[r], Ended(r))
BY ConstantShapes DEF Harmless, Inv, Shape

(* Opening ends a request or prepares it for its answer.                   *)
LEMMA OpenKeeps ==
    ASSUME Inv, NEW r \in Requests, NEW ask, Open(r, ask)
    PROVE  Inv'
<1>1. PICK y : req' = [req EXCEPT ![r] = y] /\ Harmless(req[r], y)
  <2>1. req[r].at = "open"
    BY DEF Open
  <2>2. CASE req' = [req EXCEPT ![r] = Ended(r)]
    BY <2>1, <2>2, HarmlessEnd
  <2> DEFINE l == Got
             kind == IF l # NoLink /\ req[r].kind = "get" /\ file = l.size THEN "file" ELSE req[r].kind
             ranges == IF kind = "worker" THEN <<<<0, l.size - 1>>>> ELSE ResponseRanges(ask, l.size)
             a == IF l.size = 0 THEN "report" ELSE "ready"
             g == IF l.size = 0 THEN <<>> ELSE ranges
             y == [req[r] EXCEPT !.at = a, !.kind = kind, !.size = l.size, !.ref = l.ref,
                                 !.active = l.active, !.ranges = g]
  <2>3. req' = [req EXCEPT ![r] = Ended(r)] \/ req' = [req EXCEPT ![r] = y]
    BY DEF Open
  <2>4. a \in {"report", "ready"}
    OBVIOUS
  <2> HIDE DEF l, kind, ranges, a, g
  <2>5. DOMAIN y = ReqFields /\ y.at = a /\ y.pool = req[r].pool
    BY DEF Inv, Shape, ReqFields
  <2> HIDE DEF y
  <2>6. Harmless(req[r], y)
    BY <2>1, <2>4, <2>5 DEF Harmless, Inv, Shape
  <2> QED
    BY <2>2, <2>3, <2>6
<1>2. UNCHANGED <<fetch, source, conns, pool>>
  BY DEF Open, pools
<1> QED
  BY <1>1, <1>2, RequestMoves

(* The wait for a pool: its channel is the current one, and there is none. *)
LEMMA ReadyKeeps ==
    ASSUME Inv, NEW r \in Requests, Ready(r)
    PROVE  Inv'
<1>1. UNCHANGED <<fetch, source, conns>> /\ req[r].at = "ready"
  BY DEF Ready
<1>2. CASE /\ req' = [req EXCEPT ![r] = IF Gone(r) THEN Ended(r) ELSE [req[r] EXCEPT !.at = "stream"]]
           /\ UNCHANGED pool
  <2>1. DOMAIN [req[r] EXCEPT !.at = "stream"] = ReqFields /\ [req[r] EXCEPT !.at = "stream"].at = "stream"
        /\ [req[r] EXCEPT !.at = "stream"].pool = req[r].pool
    BY DEF Inv, Shape, ReqFields
  <2>2. Harmless(req[r], [req[r] EXCEPT !.at = "stream"])
    BY <1>1, <2>1 DEF Harmless, Inv, Shape
  <2> QED
    BY <1>1, <1>2, <2>2, HarmlessEnd, RequestMoves
<1>3. CASE /\ pool.cur = 0
           /\ pool' = [pool EXCEPT !.changed = IF @ = 0 THEN pool.gen ELSE @]
           /\ req' = [req EXCEPT ![r].at = "waiting", ![r].chg = pool'.changed]
  <2> DEFINE y == [req[r] EXCEPT !.at = "waiting", !.chg = pool'.changed]
  <2>1. req' = [req EXCEPT ![r] = y]
    BY <1>3 DEF Inv, Shape, ReqFields
  <2>2. DOMAIN y = ReqFields /\ y.at = "waiting" /\ y.pool = req[r].pool /\ y.chg = pool'.changed
    BY DEF Inv, Shape, ReqFields
  <2> HIDE DEF y
  <2>3. /\ DOMAIN pool' = {"cur", "changed", "gen"} /\ pool'.cur = pool.cur /\ pool'.gen = pool.gen
        /\ pool'.changed = IF pool.changed = 0 THEN pool.gen ELSE pool.changed
    BY <1>3 DEF Inv, Shape
  <2>4. pool'.changed \in Nat /\ pool'.changed > 0 /\ pool'.changed <= pool.gen
    BY <2>3 DEF Inv, Shape, Numbered
  <2>5. DOMAIN req' = Requests /\ req'[r] = y /\ \A q \in Requests : q # r => req'[q] = req[q]
    BY <2>1 DEF Inv, Shape
  <2>6. Shape'
    BY <1>1, <2>2, <2>3, <2>4, <2>5 DEF Inv, Shape
  <2>7. Numbered'
    BY <1>1, <2>2, <2>3, <2>4, <2>5 DEF Inv, Numbered
  <2>8. Streams' = Streams
    BY <1>1, <2>2, <2>5 DEF Streams
  <2>9. Counted'
    BY <1>1, <2>8 DEF Inv, Counted
  <2>10. Locked' /\ Inside'
    BY <1>1, <2>2, <2>5 DEF Inv, Locked, Inside
  <2>11. \A q \in Requests : Alive(q)' <=> Alive(q)
    BY <1>1, <2>2, <2>5 DEF Alive
  <2>12. Kept'
    BY <1>1, <2>11 DEF Inv, Kept
  <2>13. \A q \in Requests, f \in Fetchers, g \in conns.retired : Calling(q, f, g) => Calling(q, f, g)'
    BY <1>1, <2>11 DEF Calling
  <2>14. Closable'
    BY <1>1, <2>13 DEF Inv, Closable
  <2>15. NoLostWakeup'
    BY <1>3, <2>3 DEF NoLostWakeup
  <2> QED
    BY <2>6, <2>7, <2>9, <2>10, <2>12, <2>14, <2>15 DEF Inv
<1> QED
  BY <1>2, <1>3 DEF Ready

(* A woken request looks again; one that waited too long ends.             *)
LEMMA WaitKeeps ==
    ASSUME Inv, NEW r \in Requests, Woken(r) \/ WaitEnds(r)
    PROVE  Inv'
<1>1. UNCHANGED <<fetch, source, conns, pool>> /\ req[r].at = "waiting"
  BY DEF Woken, WaitEnds, pools
<1> DEFINE y == [req[r] EXCEPT !.at = "ready", !.chg = 0]
<1>2. req' = [req EXCEPT ![r] = y] \/ req' = [req EXCEPT ![r] = Ended(r)]
  BY DEF Woken, WaitEnds, Inv, Shape, ReqFields
<1>3. DOMAIN y = ReqFields /\ y.at = "ready" /\ y.pool = req[r].pool
  BY DEF Inv, Shape, ReqFields
<1> HIDE DEF y
<1>4. Harmless(req[r], y)
  BY <1>1, <1>3 DEF Harmless, Inv, Shape
<1> QED
  BY <1>1, <1>2, <1>4, HarmlessEnd, RequestMoves

(* What follows a range: another one, the report or the end.               *)
LEMMA NextRangeShape ==
    ASSUME Inv, NEW r \in Requests
    PROVE  /\ DOMAIN NextRange(r) = ReqFields /\ NextRange(r).pool \in {req[r].pool, 0}
           /\ NextRange(r).at \in {"stream", "report", "ended"}
<1> DEFINE y == [req[r] EXCEPT !.at = "stream", !.k = @ + 1]
           z == [req[r] EXCEPT !.at = "report"]
<1>1. DOMAIN y = ReqFields /\ y.at = "stream" /\ y.pool = req[r].pool
  BY DEF Inv, Shape, ReqFields
<1>2. DOMAIN z = ReqFields /\ z.at = "report" /\ z.pool = req[r].pool
  BY DEF Inv, Shape, ReqFields
<1>3. NextRange(r) = y \/ NextRange(r) = z \/ NextRange(r) = Ended(r)
  BY DEF NextRange
<1> HIDE DEF y, z
<1> QED
  BY <1>1, <1>2, <1>3, ConstantShapes

(* A local file is copied to the client.                                   *)
LEMMA StreamFileKeeps ==
    ASSUME Inv, NEW r \in Requests, StreamFile(r)
    PROVE  Inv'
<1>1. UNCHANGED <<fetch, source, conns, pool>> /\ req[r].at = "stream"
  BY DEF StreamFile, pools
<1> DEFINE s == req[r].sent \o Bytes(req[r].ranges[req[r].k])
           y == [NextRange(r) EXCEPT !.sent = s]
<1>2. req' = [req EXCEPT ![r] = y] \/ req' = [req EXCEPT ![r] = Ended(r)]
  BY DEF StreamFile
<1> HIDE DEF s
<1>3. DOMAIN y = ReqFields /\ y.at = NextRange(r).at /\ y.pool = NextRange(r).pool
  BY NextRangeShape DEF ReqFields
<1> HIDE DEF y
<1>4. Harmless(req[r], y)
  BY <1>1, <1>3, NextRangeShape DEF Harmless, Inv, Shape
<1> QED
  BY <1>1, <1>2, <1>4, HarmlessEnd, RequestMoves

(* The report ends the request.                                            *)
LEMMA ReportKeeps ==
    ASSUME Inv, NEW r \in Requests, ReportFinished(r)
    PROVE  Inv'
<1>1. UNCHANGED <<fetch, source, conns, pool>> /\ req[r].at = "report"
  BY DEF ReportFinished, pools
<1>2. req' = [req EXCEPT ![r] = Ended(r)]
  BY DEF ReportFinished
<1> QED
  BY <1>1, <1>2, HarmlessEnd, RequestMoves

(* The source stays a record; a lock, a count and an entry.                *)
SourceShape(x) ==
    /\ DOMAIN x = {"live", "ref", "ver", "refs", "lock"} /\ x.refs \in Nat
    /\ x.live \in BOOLEAN /\ x.lock \in Holders

(* A request enters or leaves a stream: it has no fetcher then.  Counting  *)
(* is all that is left to show.                                            *)
LEMMA StreamChanges ==
    ASSUME Inv, UNCHANGED <<fetch, conns, pool>>, NEW r \in Requests, NEW y,
           req' = [req EXCEPT ![r] = y], DOMAIN y = ReqFields, y.pool \in Nat, y.pool <= pool.gen,
           y.at # "waiting", \A f \in Fetchers : fetch[r][f].at = "idle",
           SourceShape(source'), source'.lock \in {source.lock, <<>>},
           Counted'
    PROVE  Inv'
<1>1. DOMAIN req' = Requests /\ req'[r] = y /\ \A q \in Requests : q # r => req'[q] = req[q]
  BY DEF Inv, Shape
<1>2. Shape'
  BY <1>1 DEF Inv, Shape, SourceShape
<1>3. Numbered'
  BY <1>1 DEF Inv, Numbered
<1>4. Locked' /\ Inside'
  BY <1>1 DEF Inv, Locked, Inside
<1>5. \A q \in Requests : q # r => (Alive(q)' <=> Alive(q))
  BY <1>1 DEF Alive
<1>6. Kept'
  BY <1>5 DEF Inv, Kept
<1>7. \A q \in Requests, f \in Fetchers, g \in conns.retired : Calling(q, f, g) => Calling(q, f, g)'
  BY <1>5 DEF Calling
<1>8. Closable'
  BY <1>7 DEF Inv, Closable
<1>9. NoLostWakeup'
  BY <1>1 DEF Inv, NoLostWakeup
<1> QED
  BY <1>2, <1>3, <1>4, <1>6, <1>8, <1>9 DEF Inv

(* A stream starts on the pool as it is and counts in the source.          *)
LEMMA StartStreamKeeps ==
    ASSUME Inv, NEW r \in Requests, StartStream(r)
    PROVE  Inv'
<1>1. UNCHANGED <<fetch, conns, pool>> /\ req[r].at = "stream"
  BY DEF StartStream, pools
<1>2. CASE pool.cur = 0
  <2>1. req' = [req EXCEPT ![r] = Ended(r)] /\ UNCHANGED source
    BY <1>2 DEF StartStream
  <2> QED
    BY <1>1, <2>1, HarmlessEnd, RequestMoves
<1>3. CASE pool.cur # 0
  <2> DEFINE y == [req[r] EXCEPT !.at = "chunks", !.pool = pool.cur, !.job = 1, !.next = 1]
  <2>1. req' = [req EXCEPT ![r] = y] /\ source' = Acquired(r)
    BY <1>3 DEF StartStream, Inv, Shape, ReqFields
  <2>2. DOMAIN y = ReqFields /\ y.at = "chunks" /\ y.pool = pool.cur
    BY DEF Inv, Shape, ReqFields
  <2> HIDE DEF y
  <2>3. y.pool \in Nat /\ y.pool <= pool.gen
    BY <2>2 DEF Inv, Shape, Numbered
  <2>4. \A f \in Fetchers : fetch[r][f].at = "idle"
    BY <1>1 DEF Inv, Inside
  <2>5. r \notin Streams /\ Streams' = Streams \cup {r}
    BY <1>1, <2>1, <2>2 DEF Inv, Shape, Streams
  <2>6. IsFiniteSet(Streams') /\ Cardinality(Streams') = Cardinality(Streams) + 1
    <3>1. IsFiniteSet(Streams)
      BY DEF Inv, Counted
    <3> HIDE DEF Streams
    <3>2. PICK S : S = Streams
      OBVIOUS
    <3>3. IsFiniteSet(S \cup {r}) /\ Cardinality(S \cup {r}) = Cardinality(S) + 1
      BY <2>5, <3>1, <3>2, FS_AddElement
    <3> QED
      BY <2>5, <3>2, <3>3
  <2>7. /\ SourceShape(source') /\ source'.live /\ source'.refs = source.refs + 1
        /\ source'.lock \in {source.lock, <<>>}
    <3>1. CASE source.live
      <4>1. source' = [source EXCEPT !.refs = @ + 1]
        BY <2>1, <3>1 DEF Acquired
      <4>2. /\ DOMAIN source' = {"live", "ref", "ver", "refs", "lock"} /\ source'.live = source.live
            /\ source'.lock = source.lock /\ source'.refs = source.refs + 1
        BY <4>1 DEF Inv, Shape
      <4> QED
        BY <3>1, <4>2 DEF SourceShape, Inv, Shape
    <3>2. CASE ~source.live
      <4>1. source' = [live |-> TRUE, ref |-> req[r].ref, ver |-> 0, refs |-> 1, lock |-> <<>>]
        BY <2>1, <3>2 DEF Acquired
      <4>2. source.refs = 0
        BY <3>2 DEF Inv, Counted
      <4> QED
        BY <4>1, <4>2 DEF SourceShape, Holders
    <3> QED
      BY <3>1, <3>2
  <2>8. Counted'
    BY <2>6, <2>7 DEF Inv, Counted
  <2> QED
    BY <1>1, <2>1, <2>2, <2>3, <2>4, <2>7, <2>8, StreamChanges
<1> QED
  BY <1>2, <1>3

(* A stream returns when its fetchers have, and no longer counts.          *)
LEMMA StreamReturnsKeeps ==
    ASSUME Inv, NEW r \in Requests, StreamReturns(r)
    PROVE  Inv'
<1>1. /\ UNCHANGED <<fetch, conns, pool>> /\ req[r].at = "chunks"
      /\ \A f \in Fetchers : fetch[r][f].at = "idle"
  BY DEF StreamReturns, pools
<1>2. PICK y : /\ req' = [req EXCEPT ![r] = y] /\ DOMAIN y = ReqFields
               /\ y.pool \in {req[r].pool, 0} /\ y.at \in {"stream", "report", "ended"}
  <2>1. req' = [req EXCEPT ![r] = Ended(r)] \/ req' = [req EXCEPT ![r] = NextRange(r)]
    BY DEF StreamReturns
  <2> QED
    BY <2>1, NextRangeShape, ConstantShapes
<1>3. y.pool \in Nat /\ y.pool <= pool.gen
  BY <1>2 DEF Inv, Shape, Numbered
<1>4. r \in Streams /\ Streams' = Streams \ {r}
  BY <1>1, <1>2 DEF Inv, Shape, Streams
<1>5. /\ IsFiniteSet(Streams') /\ Cardinality(Streams') = Cardinality(Streams) - 1
      /\ Cardinality(Streams) \in Nat /\ Cardinality(Streams') \in Nat
  <2>1. IsFiniteSet(Streams)
    BY DEF Inv, Counted
  <2> HIDE DEF Streams
  <2>2. PICK S : S = Streams
    OBVIOUS
  <2>3. IsFiniteSet(S \ {r}) /\ Cardinality(S \ {r}) = Cardinality(S) - 1
    BY <1>4, <2>1, <2>2, FS_RemoveElement
  <2>4. Cardinality(S) \in Nat /\ Cardinality(S \ {r}) \in Nat
    BY <2>1, <2>2, <2>3, FS_CardinalityType
  <2> QED
    BY <1>4, <2>2, <2>3, <2>4
<1>6. source' = [source EXCEPT !.refs = @ - 1]
  BY DEF StreamReturns, Released
<1>7. /\ DOMAIN source' = {"live", "ref", "ver", "refs", "lock"} /\ source'.live = source.live
      /\ source'.lock = source.lock /\ source'.refs = source.refs - 1
  BY <1>6 DEF Inv, Shape
<1>8. source.refs > 0 /\ source.live /\ source'.refs \in Nat
  BY <1>5, <1>7 DEF Inv, Counted, Shape
<1>9. SourceShape(source')
  BY <1>7, <1>8 DEF SourceShape, Inv, Shape
<1>10. Counted'
  BY <1>5, <1>7, <1>8 DEF Inv, Counted
<1> QED
  BY <1>1, <1>2, <1>3, <1>7, <1>9, <1>10, StreamChanges

-----------------------------------------------------------------------------
(* Fetchers *)

(* A request keeps its stage, its pool and its channel.                    *)
Steady(x, y) == DOMAIN y = ReqFields /\ y.at = x.at /\ y.pool = x.pool /\ y.chg = x.chg

(* The lock after a step of fetcher f of request r that becomes y: nobody  *)
(* else's is taken, and who has it renews.                                 *)
LockStep(r, f, y) ==
    /\ SourceShape(source') /\ source'.live = source.live /\ source'.refs = source.refs
    /\ \/ source'.lock = <<>>
       \/ source'.lock = <<r, f>> /\ y.at \in Renewing
       \/ source'.lock = source.lock /\ (source.lock = <<r, f>> => y.at \in Renewing)

(* The generation a call uses, or gives back.                              *)
LeaseStep(r, f, y) ==
    \/ /\ y.at = "call" /\ UNCHANGED conns /\ fetch[r][f].at # "call"
       /\ Alive(r) => y.gen = conns.cur
    \/ y.at # "call" /\ LeaseEnds(r, f)
    \/ y.at # "call" /\ fetch[r][f].at # "call" /\ UNCHANGED conns

(* Giving back the last lease of a retired generation starts its closing.  *)
LEMMA LeaseEndsKeeps ==
    ASSUME Inv, NEW r \in Requests, NEW f \in Fetchers, LeaseEnds(r, f), fetch[r][f].at = "call"
    PROVE  /\ DOMAIN conns' = DOMAIN conns /\ conns'.of = conns.of /\ conns'.open = conns.open
           /\ conns'.cur = conns.cur
           /\ \A q \in Requests, h \in Fetchers :
                 (q # r \/ h # f) /\ fetch[q][h].at = "call" /\ Alive(q)
                     => fetch[q][h].gen \in conns'.retired \cup {conns.cur}
           /\ \A g \in conns'.retired :
                 \E q \in Requests, h \in Fetchers : (q # r \/ h # f) /\ Calling(q, h, g)
<1> DEFINE g0 == fetch[r][f].gen
<1>1. CASE Alive(r) /\ g0 \in conns.retired /\ ~Leased(g0, <<r, f>>)
  <2>1. conns' = [conns EXCEPT !.retired = @ \ {g0}, !.closing = @ \cup {g0}]
    BY <1>1 DEF LeaseEnds
  <2>2. /\ DOMAIN conns' = DOMAIN conns /\ conns'.of = conns.of /\ conns'.open = conns.open
        /\ conns'.cur = conns.cur /\ conns'.retired = conns.retired \ {g0}
    BY <2>1 DEF Inv, Shape
  <2>3. \A q \in Requests, h \in Fetchers : (q # r \/ h # f) => ~Calling(q, h, g0)
    BY <1>1, LeasedMeans
  <2> HIDE DEF g0
  <2>4. \A q \in Requests, h \in Fetchers :
           (q # r \/ h # f) /\ fetch[q][h].at = "call" /\ Alive(q)
               => fetch[q][h].gen \in conns'.retired \cup {conns.cur}
    BY <2>2, <2>3 DEF Inv, Kept, Calling
  <2>5. \A g \in conns'.retired :
           \E q \in Requests, h \in Fetchers : (q # r \/ h # f) /\ Calling(q, h, g)
    <3> SUFFICES ASSUME NEW g \in conns.retired, g # g0
                 PROVE  \E q \in Requests, h \in Fetchers : (q # r \/ h # f) /\ Calling(q, h, g)
      BY <2>2
    <3> QED
      BY DEF Inv, Closable, Calling, g0
  <2> QED
    BY <2>2, <2>4, <2>5
<1>2. CASE ~(Alive(r) /\ g0 \in conns.retired /\ ~Leased(g0, <<r, f>>))
  <2>1. conns' = conns
    BY <1>2 DEF LeaseEnds
  <2>2. \A q \in Requests, h \in Fetchers :
           fetch[q][h].at = "call" /\ Alive(q) => fetch[q][h].gen \in conns.retired \cup {conns.cur}
    BY DEF Inv, Kept
  <2>3. \A g \in conns.retired :
           \E q \in Requests, h \in Fetchers : (q # r \/ h # f) /\ Calling(q, h, g)
    <3> SUFFICES ASSUME NEW g \in conns.retired
                 PROVE  \E q \in Requests, h \in Fetchers : (q # r \/ h # f) /\ Calling(q, h, g)
      OBVIOUS
    <3>1. PICK q \in Requests, h \in Fetchers : Calling(q, h, g)
      BY DEF Inv, Closable
    <3>2. CASE q # r \/ h # f
      BY <3>1, <3>2
    <3>3. CASE q = r /\ h = f
      <4>1. Alive(r) /\ g0 = g
        BY <3>1, <3>3 DEF Calling
      <4>2. Leased(g, <<r, f>>)
        BY <1>2, <4>1
      <4> QED
        BY <4>2, LeasedMeans
    <3> QED
      BY <3>2, <3>3
  <2> QED
    BY <2>1, <2>2, <2>3
<1> QED
  BY <1>1, <1>2

(* A step of one fetcher that respects its stream, the lock and the lease  *)
(* keeps Inv.                                                              *)
LEMMA FetcherMoves ==
    ASSUME Inv, NEW r \in Requests, NEW f \in Fetchers, NEW y, DOMAIN y = FetchFields,
           fetch' = [fetch EXCEPT ![r][f] = y],
           y.at # "idle" => req[r].at = "chunks",
           DOMAIN req' = Requests, \A q \in Requests : Steady(req[q], req'[q]),
           UNCHANGED pool, LockStep(r, f, y), LeaseStep(r, f, y)
    PROVE  Inv'
<1>1. /\ DOMAIN fetch' = Requests /\ \A q \in Requests : DOMAIN fetch'[q] = Fetchers
      /\ fetch'[r][f] = y
      /\ \A q \in Requests, h \in Fetchers : q # r \/ h # f => fetch'[q][h] = fetch[q][h]
  BY DEF Inv, Shape
<1>2. /\ DOMAIN conns' = DOMAIN conns /\ conns'.of = conns.of /\ conns'.open = conns.open
      /\ conns'.cur = conns.cur
      /\ \A q \in Requests, h \in Fetchers :
            (q # r \/ h # f) /\ fetch[q][h].at = "call" /\ Alive(q)
                => fetch[q][h].gen \in conns'.retired \cup {conns.cur}
      /\ \A g \in conns'.retired :
            \E q \in Requests, h \in Fetchers : (q # r \/ h # f) /\ Calling(q, h, g)
  <2>1. CASE fetch[r][f].at = "call"
    BY <2>1, LeaseEndsKeeps DEF LeaseStep
  <2>2. CASE fetch[r][f].at # "call"
    <3>1. conns' = conns
      BY <2>2 DEF LeaseStep, LeaseEnds
    <3> QED
      BY <2>2, <3>1 DEF Inv, Kept, Closable, Calling
  <2> QED
    BY <2>1, <2>2
<1>3. Shape'
  BY <1>1, <1>2 DEF Inv, Shape, Steady, LockStep, SourceShape
<1>4. Numbered'
  BY <1>2 DEF Inv, Numbered, Steady
<1>5. Streams' = Streams
  BY DEF Streams, Steady
<1>6. Counted'
  BY <1>5 DEF Inv, Counted, LockStep
<1>7. Inside'
  BY <1>1 DEF Inv, Inside, Steady
<1>8. Locked'
  <2> SUFFICES ASSUME source'.lock # <<>>
               PROVE  fetch'[source'.lock[1]][source'.lock[2]].at \in Renewing
    BY DEF Locked
  <2>1. PICK q \in Requests, h \in Fetchers : source'.lock = <<q, h>>
    BY DEF LockStep, SourceShape, Holders
  <2>2. source'.lock[1] = q /\ source'.lock[2] = h
    BY <2>1
  <2>3. CASE q = r /\ h = f
    BY <1>1, <2>1, <2>2, <2>3 DEF LockStep
  <2>4. CASE q # r \/ h # f
    <3>1. <<q, h>> # <<r, f>>
      BY <2>4
    <3>2. source'.lock = source.lock
      BY <2>1, <3>1 DEF LockStep
    <3>3. fetch[q][h].at \in Renewing
      BY <2>2, <3>2 DEF Inv, Locked
    <3> QED
      BY <1>1, <2>2, <2>4, <3>3
  <2> QED
    BY <2>3, <2>4
<1>9. \A q \in Requests : Alive(q)' <=> Alive(q)
  BY <1>2 DEF Alive, Steady
<1>10. Kept'
  <2> SUFFICES ASSUME NEW q \in Requests, NEW h \in Fetchers, fetch'[q][h].at = "call", Alive(q)
               PROVE  fetch'[q][h].gen \in conns'.retired \cup {conns'.cur}
    BY <1>9 DEF Kept
  <2>1. CASE q = r /\ h = f
    BY <1>1, <1>2, <2>1 DEF LeaseStep
  <2>2. CASE q # r \/ h # f
    BY <1>1, <1>2, <2>2
  <2> QED
    BY <2>1, <2>2
<1>11. \A q \in Requests, h \in Fetchers, g \in conns'.retired :
          (q # r \/ h # f) /\ Calling(q, h, g) => Calling(q, h, g)'
  BY <1>1, <1>9 DEF Calling
<1>12. Closable'
  BY <1>2, <1>11 DEF Closable
<1>13. NoLostWakeup'
  BY DEF Inv, NoLostWakeup, Steady
<1> QED
  BY <1>3, <1>4, <1>6, <1>7, <1>8, <1>10, <1>12, <1>13 DEF Inv

(* Requests that do not change are steady.                                 *)
LEMMA SteadySelf ==
    ASSUME Inv, UNCHANGED req
    PROVE  DOMAIN req' = Requests /\ \A q \in Requests : Steady(req[q], req'[q])
BY DEF Inv, Shape, Steady

(* Who is not renewing does not have the lock; if it leaves the source as  *)
(* it is, that stays so.                                                   *)
LEMMA LockLeft ==
    ASSUME Inv, NEW r \in Requests, NEW f \in Fetchers, NEW y, UNCHANGED source,
           fetch[r][f].at \notin Renewing \/ y.at \in Renewing
    PROVE  LockStep(r, f, y)
<1>1. source.lock = <<r, f>> => fetch[r][f].at \in Renewing
  <2> SUFFICES ASSUME source.lock = <<r, f>> PROVE fetch[r][f].at \in Renewing
    OBVIOUS
  <2>1. source.lock # <<>> /\ source.lock[1] = r /\ source.lock[2] = f
    OBVIOUS
  <2> QED
    BY <2>1 DEF Inv, Locked
<1>2. SourceShape(source')
  BY DEF Inv, Shape, SourceShape
<1> QED
  BY <1>1, <1>2 DEF LockStep

(* A failing fetcher lets go of the lock and stops the others.             *)
LEMMA FetchFailsMoves ==
    ASSUME Inv, NEW r \in Requests, NEW f \in Fetchers, FetchFails(r, f)
    PROVE  /\ fetch' = [fetch EXCEPT ![r][f] = NoFetch]
           /\ DOMAIN req' = Requests /\ \A q \in Requests : Steady(req[q], req'[q])
           /\ LockStep(r, f, NoFetch)
<1>1. fetch' = [fetch EXCEPT ![r][f] = NoFetch]
  BY DEF FetchFails
<1>2. DOMAIN req' = Requests /\ \A q \in Requests : Steady(req[q], req'[q])
  <2>1. req' = [req EXCEPT ![r] = [req[r] EXCEPT !.bad = TRUE]]
    BY DEF FetchFails, Inv, Shape
  <2>2. Steady(req[r], [req[r] EXCEPT !.bad = TRUE])
    BY DEF Steady, Inv, Shape, ReqFields
  <2> QED
    BY <2>1, <2>2 DEF Inv, Shape, Steady
<1>3. LockStep(r, f, NoFetch)
  <2>1. CASE source.lock = <<r, f>>
    <3>1. source' = [source EXCEPT !.lock = <<>>]
      BY <2>1 DEF FetchFails
    <3>2. /\ DOMAIN source' = {"live", "ref", "ver", "refs", "lock"} /\ source'.live = source.live
          /\ source'.refs = source.refs /\ source'.lock = <<>>
      BY <3>1 DEF Inv, Shape
    <3> QED
      BY <3>2 DEF LockStep, SourceShape, Holders, Inv, Shape
  <2>2. CASE source.lock # <<r, f>>
    <3>1. source' = source
      BY <2>2 DEF FetchFails
    <3> QED
      BY <2>2, <3>1 DEF LockStep, SourceShape, Inv, Shape
  <2> QED
    BY <2>1, <2>2
<1> QED
  BY <1>1, <1>2, <1>3

(* A failing fetcher gives back its lease, if it has one.                  *)
LEMMA FailKeeps ==
    ASSUME Inv, NEW r \in Requests, NEW f \in Fetchers, FetchFails(r, f), UNCHANGED pool,
           LeaseEnds(r, f) \/ (fetch[r][f].at # "call" /\ UNCHANGED conns)
    PROVE  Inv'
<1>1. LeaseStep(r, f, NoFetch)
  BY ConstantShapes DEF LeaseStep
<1>2. DOMAIN NoFetch = FetchFields /\ NoFetch.at = "idle"
  BY ConstantShapes
<1> HIDE DEF NoFetch
<1> QED
  BY <1>1, <1>2, FetchFailsMoves, FetcherMoves

(* A fetcher that changes alone, without a call before or after.           *)
LEMMA FetcherAlone ==
    ASSUME Inv, NEW r \in Requests, NEW f \in Fetchers, NEW y, DOMAIN y = FetchFields,
           fetch' = [fetch EXCEPT ![r][f] = y], req[r].at = "chunks",
           UNCHANGED <<req, source, pool>>, LeaseStep(r, f, y),
           fetch[r][f].at \notin Renewing \/ y.at \in Renewing
    PROVE  Inv'
BY SteadySelf, LockLeft, FetcherMoves

(* The shape of a fetcher that starts an attempt.                          *)
LEMMA FromMediaShape ==
    \A r, f, job, media : /\ DOMAIN FromMedia(r, f, job, media) = FetchFields
                          /\ FromMedia(r, f, job, media).at = "permit"
BY DEF FromMedia, NoFetch, FetchFields

(* A fetcher takes the next job of its stream.                             *)
LEMMA TakeJobKeeps ==
    ASSUME Inv, NEW r \in Requests, NEW f \in Fetchers, TakeJob(r, f)
    PROVE  Inv'
<1> DEFINE y == FromMedia(r, f, req[r].job, source)
<1>1. fetch' = [fetch EXCEPT ![r][f] = y] /\ UNCHANGED <<source, conns, pool>>
      /\ req[r].at = "chunks" /\ fetch[r][f].at = "idle"
  BY DEF TakeJob, pools
<1>2. DOMAIN y = FetchFields /\ y.at = "permit"
  BY FromMediaShape
<1> HIDE DEF y
<1>3. DOMAIN req' = Requests /\ \A q \in Requests : Steady(req[q], req'[q])
  <2>1. req' = [req EXCEPT ![r] = [req[r] EXCEPT !.job = @ + 1]]
    BY DEF TakeJob, Inv, Shape
  <2>2. Steady(req[r], [req[r] EXCEPT !.job = @ + 1])
    BY DEF Steady, Inv, Shape, ReqFields
  <2> QED
    BY <2>1, <2>2 DEF Inv, Shape, Steady
<1>4. LockStep(r, f, y)
  BY <1>1, LockLeft DEF Renewing
<1>5. LeaseStep(r, f, y)
  BY <1>1, <1>2 DEF LeaseStep
<1> QED
  BY <1>1, <1>2, <1>3, <1>4, <1>5, FetcherMoves

(* A call leases the current generation of its pool, if that is open.      *)
LEMMA AcquireChunkKeeps ==
    ASSUME Inv, NEW r \in Requests, NEW f \in Fetchers, AcquireChunk(r, f)
    PROVE  Inv'
<1> DEFINE g == IF Alive(r) THEN conns.cur ELSE 0
           y == [fetch[r][f] EXCEPT !.at = "call", !.gen = g]
<1>1. fetch' = [fetch EXCEPT ![r][f] = y]
  BY DEF AcquireChunk, Inv, Shape, FetchFields
<1>2. UNCHANGED <<req, source, conns, pool>> /\ fetch[r][f].at = "permit" /\ (Alive(r) => g = conns.cur)
  BY DEF AcquireChunk, pools
<1> HIDE DEF g
<1>3. DOMAIN y = FetchFields /\ y.at = "call" /\ y.gen = g
  BY DEF Inv, Shape, FetchFields
<1> HIDE DEF y
<1>4. req[r].at = "chunks"
  BY <1>2 DEF Inv, Inside
<1>5. LeaseStep(r, f, y)
  BY <1>2, <1>3 DEF LeaseStep
<1> QED
  BY <1>1, <1>2, <1>3, <1>4, <1>5, FetcherAlone DEF Renewing

(* A cancelled fetcher ends wherever it waits.                             *)
LEMMA InterruptedKeeps ==
    ASSUME Inv, NEW r \in Requests, NEW f \in Fetchers, Interrupted(r, f)
    PROVE  Inv'
BY FailKeeps DEF Interrupted

(* A call that ends goes back to the permit, to the renewal or to the      *)
(* writer, and gives back its lease.                                       *)
LEMMA CallEnds ==
    ASSUME Inv, NEW r \in Requests, NEW f \in Fetchers, NEW y, DOMAIN y = FetchFields,
           y.at \in {"permit", "renew", "data"}, fetch' = [fetch EXCEPT ![r][f] = y],
           fetch[r][f].at = "call", LeaseEnds(r, f), UNCHANGED <<req, source, pool>>
    PROVE  Inv'
<1>1. req[r].at = "chunks"
  BY DEF Inv, Inside
<1>2. LeaseStep(r, f, y)
  BY DEF LeaseStep
<1> QED
  BY <1>1, <1>2, FetcherAlone DEF Renewing

(* A transient error is retried or ends the stream.                        *)
LEMMA RetryKeeps ==
    ASSUME Inv, NEW r \in Requests, NEW f \in Fetchers, RetryTransient(r, f), fetch[r][f].at = "call",
           LeaseEnds(r, f), UNCHANGED pool
    PROVE  Inv'
<1>1. CASE fetch[r][f].tries < MaxRetries
  <2> DEFINE t == fetch[r][f].tries + 1
             y == [fetch[r][f] EXCEPT !.at = "permit", !.gen = 0, !.tries = t]
  <2>1. UNCHANGED <<req, source>>
    BY <1>1 DEF RetryTransient
  <2>2. fetch' = [fetch EXCEPT ![r][f].at = "permit", ![r][f].gen = 0, ![r][f].tries = @ + 1]
    BY <1>1 DEF RetryTransient
  <2>3. fetch' = [fetch EXCEPT ![r][f] = y]
    <3>1. r \in DOMAIN fetch /\ f \in DOMAIN fetch[r]
      BY DEF Inv, Shape
    <3> QED
      BY <2>2, <3>1, Zenon
  <2> HIDE DEF t
  <2>4. DOMAIN y = FetchFields /\ y.at = "permit"
    BY DEF Inv, Shape, FetchFields
  <2> HIDE DEF y
  <2> QED
    BY <2>1, <2>3, <2>4, CallEnds
<1>2. CASE ~(fetch[r][f].tries < MaxRetries)
  BY <1>2, FailKeeps DEF RetryTransient
<1> QED
  BY <1>1, <1>2

(* The answers of upload.getFile.                                          *)
LEMMA CallReturnsKeeps ==
    ASSUME Inv, NEW r \in Requests, NEW f \in Fetchers, CallReturns(r, f)
    PROVE  Inv'
<1> DEFINE d == Slice(Reply(JobOf(r, f)), JobOf(r, f))
           x == [fetch[r][f] EXCEPT !.at = "renew", !.gen = 0]
           y == [fetch[r][f] EXCEPT !.at = "data", !.tries = 0, !.gen = 0, !.data = d]
<1>1. fetch[r][f].at = "call" /\ LeaseEnds(r, f) /\ UNCHANGED pool
  BY DEF CallReturns
<1>2. \/ RetryTransient(r, f)
      \/ FetchFails(r, f)
      \/ /\ fetch' = [fetch EXCEPT ![r][f].at = "renew", ![r][f].gen = 0]
         /\ UNCHANGED <<req, source>>
      \/ /\ fetch' = [fetch EXCEPT ![r][f] = y]
         /\ UNCHANGED <<req, source>>
  BY DEF CallReturns
<1> HIDE DEF d
<1>3. CASE RetryTransient(r, f)
  BY <1>1, <1>3, RetryKeeps
<1>4. CASE FetchFails(r, f)
  BY <1>1, <1>4, FailKeeps
<1>5. CASE /\ fetch' = [fetch EXCEPT ![r][f].at = "renew", ![r][f].gen = 0]
           /\ UNCHANGED <<req, source>>
  <2>1. fetch' = [fetch EXCEPT ![r][f] = x]
    BY <1>5 DEF Inv, Shape, FetchFields
  <2>2. DOMAIN x = FetchFields /\ x.at = "renew"
    BY DEF Inv, Shape, FetchFields
  <2> HIDE DEF x
  <2> QED
    BY <1>1, <1>5, <2>1, <2>2, CallEnds
<1>6. CASE /\ fetch' = [fetch EXCEPT ![r][f] = y]
           /\ UNCHANGED <<req, source>>
  <2>1. fetch' = [fetch EXCEPT ![r][f] = y]
    BY <1>6
  <2>2. DOMAIN y = FetchFields /\ y.at = "data"
    BY DEF Inv, Shape, FetchFields
  <2> HIDE DEF y
  <2> QED
    BY <1>1, <1>6, <2>1, <2>2, CallEnds
<1> QED
  BY <1>2, <1>3, <1>4, <1>5, <1>6

(* A call that fails.                                                      *)
LEMMA CallFailsKeeps ==
    ASSUME Inv, NEW r \in Requests, NEW f \in Fetchers, CallFails(r, f)
    PROVE  Inv'
<1> DEFINE y == [fetch[r][f] EXCEPT !.at = "permit", !.gen = 0]
<1>1. fetch[r][f].at = "call" /\ LeaseEnds(r, f) /\ UNCHANGED pool
  BY DEF CallFails
<1>2. CASE RetryTransient(r, f)
  BY <1>1, <1>2, RetryKeeps
<1>3. CASE FetchFails(r, f)
  BY <1>1, <1>3, FailKeeps
<1>4. CASE /\ fetch' = [fetch EXCEPT ![r][f].at = "permit", ![r][f].gen = 0]
           /\ UNCHANGED <<req, source>>
  <2>1. fetch' = [fetch EXCEPT ![r][f] = y]
    BY <1>4 DEF Inv, Shape, FetchFields
  <2>2. DOMAIN y = FetchFields /\ y.at = "permit"
    BY DEF Inv, Shape, FetchFields
  <2> HIDE DEF y
  <2> QED
    BY <1>1, <1>4, <2>1, <2>2, CallEnds
<1> QED
  BY <1>2, <1>3, <1>4 DEF CallFails

(* The refresh lock is taken by a fetcher that renews, or not needed.      *)
LEMMA RenewLockKeeps ==
    ASSUME Inv, NEW r \in Requests, NEW f \in Fetchers, RenewLock(r, f)
    PROVE  Inv'
<1>1. UNCHANGED <<req, conns, pool>> /\ fetch[r][f].at = "renew" /\ source.lock = <<>>
  BY DEF RenewLock, pools
<1>2. req[r].at = "chunks"
  BY <1>1 DEF Inv, Inside
<1>3. CASE source.ver # fetch[r][f].ver
  <2> DEFINE y == FromMedia(r, f, fetch[r][f].job, source)
  <2>1. fetch' = [fetch EXCEPT ![r][f] = y] /\ UNCHANGED source
    BY <1>3 DEF RenewLock, Inv, Shape
  <2>2. DOMAIN y = FetchFields /\ y.at = "permit"
    BY FromMediaShape
  <2> HIDE DEF y
  <2>3. LeaseStep(r, f, y)
    BY <1>1, <2>2 DEF LeaseStep
  <2> QED
    BY <1>1, <1>2, <2>1, <2>2, <2>3, FetcherAlone DEF Renewing
<1>4. CASE source.ver = fetch[r][f].ver
  <2> DEFINE y == [fetch[r][f] EXCEPT !.at = "ask"]
  <2>1. source' = [source EXCEPT !.lock = <<r, f>>]
    BY <1>4 DEF RenewLock
  <2>2. fetch' = [fetch EXCEPT ![r][f] = y]
    BY <1>4 DEF RenewLock, Inv, Shape, FetchFields
  <2>3. DOMAIN y = FetchFields /\ y.at = "ask"
    BY DEF Inv, Shape, FetchFields
  <2> HIDE DEF y
  <2>4. /\ DOMAIN source' = {"live", "ref", "ver", "refs", "lock"} /\ source'.live = source.live
        /\ source'.refs = source.refs /\ source'.lock = <<r, f>>
    BY <2>1 DEF Inv, Shape
  <2>5. LockStep(r, f, y)
    BY <2>3, <2>4 DEF LockStep, SourceShape, Holders, Renewing, Inv, Shape
  <2>6. LeaseStep(r, f, y)
    BY <1>1, <2>3 DEF LeaseStep
  <2> QED
    BY <1>1, <1>2, <2>2, <2>3, <2>5, <2>6, SteadySelf, FetcherMoves
<1> QED
  BY <1>3, <1>4

(* The message is asked for under the lock.                                *)
LEMMA RenewAskKeeps ==
    ASSUME Inv, NEW r \in Requests, NEW f \in Fetchers, RenewAsk(r, f)
    PROVE  Inv'
<1>1. UNCHANGED <<conns, pool>> /\ fetch[r][f].at = "ask"
  BY DEF RenewAsk, pools
<1>2. CASE FetchFails(r, f)
  BY <1>1, <1>2, FailKeeps
<1>3. CASE /\ fetch' = [fetch EXCEPT ![r][f].at = "store", ![r][f].ref = remote.ref, ![r][f].size = remote.size]
           /\ UNCHANGED <<req, source>>
  <2> DEFINE y == [fetch[r][f] EXCEPT !.at = "store", !.ref = remote.ref, !.size = remote.size]
  <2>1. fetch' = [fetch EXCEPT ![r][f] = y]
    BY <1>3 DEF Inv, Shape, FetchFields
  <2>2. DOMAIN y = FetchFields /\ y.at = "store"
    BY DEF Inv, Shape, FetchFields
  <2> HIDE DEF y
  <2>3. LeaseStep(r, f, y)
    BY <1>1, <2>2 DEF LeaseStep
  <2>4. req[r].at = "chunks"
    BY <1>1 DEF Inv, Inside
  <2> QED
    BY <1>1, <1>3, <2>1, <2>2, <2>3, <2>4, FetcherAlone DEF Renewing
<1> QED
  BY <1>2, <1>3 DEF RenewAsk

(* The message could not be had: the lock is given back.                   *)
LEMMA RenewFailsKeeps ==
    ASSUME Inv, NEW r \in Requests, NEW f \in Fetchers, RenewFails(r, f)
    PROVE  Inv'
BY FailKeeps DEF RenewFails, pools

(* The task is stored with the new media.                                  *)
LEMMA RenewStoreKeeps ==
    ASSUME Inv, NEW r \in Requests, NEW f \in Fetchers, RenewStore(r, f)
    PROVE  Inv'
<1>1. UNCHANGED <<req, source, conns, pool>> /\ fetch[r][f].at = "store"
  BY DEF RenewStore, pools
<1> DEFINE y == [fetch[r][f] EXCEPT !.at = "load"]
<1>2. fetch' = [fetch EXCEPT ![r][f] = y]
  BY DEF RenewStore, Inv, Shape, FetchFields
<1>3. DOMAIN y = FetchFields /\ y.at = "load"
  BY DEF Inv, Shape, FetchFields
<1> HIDE DEF y
<1>4. LeaseStep(r, f, y)
  BY <1>1, <1>3 DEF LeaseStep
<1>5. req[r].at = "chunks"
  BY <1>1 DEF Inv, Inside
<1> QED
  BY <1>1, <1>2, <1>3, <1>4, <1>5, FetcherAlone DEF Renewing

(* The task is loaded again, the media published and the lock given back.  *)
LEMMA RenewLoadKeeps ==
    ASSUME Inv, NEW r \in Requests, NEW f \in Fetchers, RenewLoad(r, f)
    PROVE  Inv'
<1>1. UNCHANGED <<conns, pool>> /\ fetch[r][f].at = "load"
  BY DEF RenewLoad, pools
<1>2. CASE FetchFails(r, f)
  BY <1>1, <1>2, FailKeeps
<1>3. CASE ~FetchFails(r, f)
  <2> DEFINE m == [ref |-> Got.ref, ver |-> source.ver + 1]
             y == FromMedia(r, f, fetch[r][f].job, m)
  <2>1. source' = [source EXCEPT !.ref = m.ref, !.ver = m.ver, !.lock = <<>>] /\ UNCHANGED req
    BY <1>3 DEF RenewLoad
  <2>2. fetch' = [fetch EXCEPT ![r][f] = y]
    BY <1>3 DEF RenewLoad, Inv, Shape
  <2> HIDE DEF m
  <2>3. DOMAIN y = FetchFields /\ y.at = "permit"
    BY FromMediaShape
  <2> HIDE DEF y
  <2>4. /\ DOMAIN source' = {"live", "ref", "ver", "refs", "lock"} /\ source'.live = source.live
        /\ source'.refs = source.refs /\ source'.lock = <<>>
    BY <2>1 DEF Inv, Shape
  <2>5. LockStep(r, f, y)
    BY <2>4 DEF LockStep, SourceShape, Holders, Inv, Shape
  <2>6. LeaseStep(r, f, y)
    BY <1>1, <2>3 DEF LeaseStep
  <2>7. req[r].at = "chunks"
    BY <1>1 DEF Inv, Inside
  <2> QED
    BY <1>1, <2>1, <2>2, <2>3, <2>5, <2>6, <2>7, SteadySelf, FetcherMoves
<1> QED
  BY <1>2, <1>3

(* The writer sends a chunk or finds the client gone.                      *)
LEMMA WriteKeeps ==
    ASSUME Inv, NEW r \in Requests, NEW f \in Fetchers, Write(r, f)
    PROVE  Inv'
<1>1. UNCHANGED <<conns, pool>> /\ fetch[r][f].at = "data"
  BY DEF Write, Turn, pools
<1>2. CASE FetchFails(r, f)
  BY <1>1, <1>2, FailKeeps
<1>3. CASE ~FetchFails(r, f)
  <2> DEFINE s == req[r].sent \o fetch[r][f].data
             n == req[r].next + 1
             z == [req[r] EXCEPT !.sent = s, !.next = n]
  <2>1. fetch' = [fetch EXCEPT ![r][f] = NoFetch] /\ UNCHANGED source
    BY <1>3 DEF Write
  <2>2. req' = [req EXCEPT ![r].sent = @ \o fetch[r][f].data, ![r].next = @ + 1]
    BY <1>3 DEF Write
  <2>3. req' = [req EXCEPT ![r] = z]
    BY <2>2 DEF Inv, Shape, ReqFields
  <2> HIDE DEF s, n
  <2>4. Steady(req[r], z)
    BY DEF Steady, Inv, Shape, ReqFields
  <2> HIDE DEF z
  <2>5. DOMAIN req' = Requests /\ \A q \in Requests : Steady(req[q], req'[q])
    BY <2>3, <2>4 DEF Inv, Shape, Steady
  <2>6. DOMAIN NoFetch = FetchFields /\ NoFetch.at = "idle"
    BY ConstantShapes
  <2> HIDE DEF NoFetch
  <2>7. LockStep(r, f, NoFetch)
    BY <1>1, <2>1, LockLeft DEF Renewing
  <2>8. LeaseStep(r, f, NoFetch)
    BY <1>1, <2>6 DEF LeaseStep
  <2> QED
    BY <1>1, <2>1, <2>5, <2>6, <2>7, <2>8, FetcherMoves
<1> QED
  BY <1>2, <1>3

-----------------------------------------------------------------------------
(* The server and what happens around it *)

(* A step that touches neither requests, fetchers, the source nor pools.   *)
LEMMA NothingMoves ==
    ASSUME Inv, UNCHANGED <<req, fetch, source, conns, pool>>
    PROVE  Inv'
<1>1. DOMAIN req' = Requests
  BY DEF Inv, Shape
<1>2. \A q \in Requests : Harmless(req[q], req'[q])
  BY HarmlessSelf DEF Inv
<1> QED
  BY <1>1, <1>2, RequestsMove

(* Cancelling the requests changes their contexts only.                    *)
LEMMA CancelKeeps ==
    ASSUME Inv, NEW c, req' = Cancelled(c), UNCHANGED <<fetch, source, conns, pool>>
    PROVE  Inv'
<1>1. DOMAIN req' = Requests
  BY DEF Cancelled
<1>2. \A q \in Requests : Harmless(req[q], req'[q])
  <2> SUFFICES ASSUME NEW q \in Requests PROVE Harmless(req[q], req'[q])
    OBVIOUS
  <2>1. req'[q] = [req[q] EXCEPT !.ctx = c] \/ req'[q] = req[q]
    BY DEF Cancelled
  <2>2. Harmless(req[q], [req[q] EXCEPT !.ctx = c])
    <3>1. "ctx" \in ReqFields \ {"at", "pool", "chg"}
      BY DEF ReqFields
    <3>2. Harmless(req[q], [req[q] EXCEPT !["ctx"] = c])
      BY <3>1, HarmlessField DEF Inv
    <3> QED
      BY <3>2
  <2> QED
    BY <2>1, <2>2, HarmlessSelf DEF Inv
<1> QED
  BY <1>1, <1>2, RequestsMove

(* The server stops, breaks its connections, ends and starts again.        *)
LEMMA ServerKeeps ==
    ASSUME Inv, StopServer \/ Shutdown \/ HandlerStops \/ StartServer
    PROVE  Inv'
<1>1. UNCHANGED <<fetch, source, conns, pool>>
  BY DEF StopServer, Shutdown, HandlerStops, StartServer, pools
<1>2. CASE StopServer
  BY <1>1, <1>2, CancelKeeps DEF StopServer
<1>3. CASE Shutdown
  BY <1>1, <1>3, CancelKeeps DEF Shutdown
<1>4. CASE HandlerStops
  BY <1>1, <1>4, NothingMoves DEF HandlerStops
<1>5. CASE StartServer
  BY <1>1, <1>5, NothingMoves DEF StartServer
<1> QED
  BY <1>2, <1>3, <1>4, <1>5

(* A client leaves or stops reading.                                       *)
LEMMA ClientKeeps ==
    ASSUME Inv, NEW r \in Requests, Leaves(r) \/ Stalls(r)
    PROVE  Inv'
<1>1. UNCHANGED <<fetch, source, conns, pool>>
  BY DEF Leaves, Stalls, pools
<1>2. CASE Leaves(r)
  <2> DEFINE c == IF req[r].kind = "worker" THEN "cancelled" ELSE "left"
  <2>1. req' = [req EXCEPT ![r] = [req[r] EXCEPT !["ctx"] = c]]
    BY <1>2 DEF Leaves, Inv, Shape
  <2> HIDE DEF c
  <2>2. "ctx" \in ReqFields \ {"at", "pool", "chg"}
    BY DEF ReqFields
  <2>3. Harmless(req[r], [req[r] EXCEPT !["ctx"] = c])
    BY <2>2, HarmlessField DEF Inv
  <2> QED
    BY <1>1, <2>1, <2>3, RequestMoves
<1>3. CASE Stalls(r)
  <2>1. req' = [req EXCEPT ![r] = [req[r] EXCEPT !["stuck"] = TRUE]]
    BY <1>3 DEF Stalls, Inv, Shape
  <2>2. "stuck" \in ReqFields \ {"at", "pool", "chg"}
    BY DEF ReqFields
  <2>3. Harmless(req[r], [req[r] EXCEPT !["stuck"] = TRUE])
    BY <2>2, HarmlessField DEF Inv
  <2> QED
    BY <1>1, <2>1, <2>3, RequestMoves
<1> QED
  BY <1>2, <1>3

(* What changes in a step of the pools alone.                              *)
LEMMA PoolsMove ==
    ASSUME Inv, UNCHANGED <<req, fetch, source>>,
           /\ DOMAIN pool' = {"cur", "changed", "gen"}
           /\ pool'.cur \in Nat /\ pool'.changed \in Nat /\ pool'.gen \in Nat
           /\ DOMAIN conns' = {"of", "open", "cur", "retired", "closing"} /\ conns'.of \in Nat,
           pool'.gen >= pool.gen, pool'.cur <= pool'.gen, pool'.changed <= pool'.gen, conns'.of <= pool'.gen,
           Kept', Closable', NoLostWakeup'
    PROVE  Inv'
<1>1. Shape'
  BY DEF Inv, Shape
<1>2. Numbered'
  BY DEF Inv, Shape, Numbered
<1>3. Counted' /\ Locked' /\ Inside'
  BY DEF Inv, Counted, Streams, Locked, Inside
<1> QED
  BY <1>1, <1>2, <1>3 DEF Inv

(* The watcher withdraws the pool, or sets a new one: its number is new,   *)
(* so no stream takes it for its own, and everybody who waits holds a      *)
(* channel that is no longer the current one.                              *)
LEMMA PoolChangesKeeps ==
    ASSUME Inv, PoolChanges
    PROVE  Inv'
<1>1. UNCHANGED <<req, fetch, source>>
  BY DEF PoolChanges
<1>2. CASE SetPool(0) /\ UNCHANGED conns
  <2>1. /\ DOMAIN pool' = {"cur", "changed", "gen"} /\ pool'.cur = 0 /\ pool'.gen = pool.gen + 1
        /\ pool'.changed = IF pool.changed # 0 THEN pool.gen + 1 ELSE 0
    BY <1>2 DEF SetPool
  <2>2. Kept' /\ Closable'
    <3>1. \A r \in Requests : Alive(r)' <=> Alive(r)
      BY <1>1, <1>2 DEF Alive
    <3>2. \A r \in Requests, f \in Fetchers, g \in conns.retired : Calling(r, f, g) => Calling(r, f, g)'
      BY <1>1, <3>1 DEF Calling
    <3> QED
      BY <1>1, <1>2, <3>1, <3>2 DEF Inv, Kept, Closable
  <2>3. NoLostWakeup'
    BY <2>1 DEF NoLostWakeup
  <2>4. /\ pool'.cur \in Nat /\ pool'.changed \in Nat /\ pool'.gen \in Nat
        /\ pool'.gen >= pool.gen /\ pool'.cur <= pool'.gen /\ pool'.changed <= pool'.gen
        /\ conns.of <= pool'.gen
    BY <2>1 DEF Inv, Shape, Numbered
  <2>5. DOMAIN conns' = {"of", "open", "cur", "retired", "closing"} /\ conns'.of \in Nat /\ conns'.of = conns.of
    BY <1>2 DEF Inv, Shape
  <2> QED
    BY <1>1, <2>1, <2>2, <2>3, <2>4, <2>5, PoolsMove
<1>3. CASE SetPool(pool.gen + 1) /\ conns' = NewPool(pool.gen + 1)
  <2>1. /\ DOMAIN pool' = {"cur", "changed", "gen"} /\ pool'.cur = pool.gen + 1 /\ pool'.gen = pool.gen + 1
        /\ pool'.changed = IF pool.changed # 0 THEN pool.gen + 1 ELSE 0
    BY <1>3 DEF SetPool
  <2>2. /\ DOMAIN conns' = {"of", "open", "cur", "retired", "closing"} /\ conns'.of = pool.gen + 1
        /\ conns'.retired = {}
    BY <1>3 DEF NewPool
  <2>3. \A r \in Requests : ~Alive(r)'
    <3> SUFFICES ASSUME NEW r \in Requests PROVE req[r].pool # pool.gen + 1
      BY <1>1, <2>2 DEF Alive
    <3> QED
      BY DEF Inv, Shape, Numbered
  <2>4. Kept' /\ Closable'
    BY <2>2, <2>3 DEF Kept, Closable
  <2>5. NoLostWakeup'
    <3> SUFFICES ASSUME NEW r \in Requests, req[r].at = "waiting" PROVE req[r].chg # pool'.changed
      BY <1>1 DEF NoLostWakeup
    <3>1. req[r].chg \in Nat /\ req[r].chg > 0 /\ req[r].chg <= pool.gen /\ pool.gen \in Nat
      BY DEF Inv, Numbered, Shape
    <3> QED
      BY <2>1, <3>1
  <2>6. /\ pool'.cur \in Nat /\ pool'.changed \in Nat /\ pool'.gen \in Nat /\ conns'.of \in Nat
        /\ pool'.gen >= pool.gen /\ pool'.cur <= pool'.gen /\ pool'.changed <= pool'.gen
        /\ conns'.of <= pool'.gen
    BY <2>1, <2>2 DEF Inv, Shape, Numbered
  <2> QED
    BY <1>1, <2>1, <2>2, <2>4, <2>5, <2>6, PoolsMove
<1> QED
  BY <1>2, <1>3 DEF PoolChanges

(* A step that changes the generations of a pool that stays.               *)
LEMMA GenerationsMove ==
    ASSUME Inv, UNCHANGED <<req, fetch, source, pool>>,
           DOMAIN conns' = {"of", "open", "cur", "retired", "closing"}, conns'.of = conns.of,
           Kept', Closable'
    PROVE  Inv'
<1>1. NoLostWakeup'
  BY DEF Inv, NoLostWakeup
<1>2. /\ DOMAIN pool' = {"cur", "changed", "gen"}
      /\ pool'.cur \in Nat /\ pool'.changed \in Nat /\ pool'.gen \in Nat /\ conns'.of \in Nat
      /\ pool'.gen >= pool.gen /\ pool'.cur <= pool'.gen /\ pool'.changed <= pool'.gen
      /\ conns'.of <= pool'.gen
  BY DEF Inv, Shape, Numbered
<1> QED
  BY <1>1, <1>2, PoolsMove

(* Resize retires a generation that is in use and closes another at once.  *)
LEMMA ResizeKeeps ==
    ASSUME Inv, Resize
    PROVE  Inv'
<1>1. UNCHANGED <<req, fetch, source, pool>>
  BY DEF Resize
<1> DEFINE busy == Leased(conns.cur, <<>>)
<1>2. conns' = [conns EXCEPT !.cur = @ + 1,
                             !.retired = IF busy THEN @ \cup {conns.cur} ELSE @,
                             !.closing = IF busy THEN @ ELSE @ \cup {conns.cur}]
  BY DEF Resize
<1>3. busy <=> \E r \in Requests, f \in Fetchers : Calling(r, f, conns.cur)
  BY LeasedMeans
<1> HIDE DEF busy
<1>4. /\ DOMAIN conns' = {"of", "open", "cur", "retired", "closing"} /\ conns'.of = conns.of
      /\ conns'.open = conns.open
      /\ conns'.retired = IF busy THEN conns.retired \cup {conns.cur} ELSE conns.retired
  BY <1>2 DEF Inv, Shape
<1>5. \A r \in Requests : Alive(r)' <=> Alive(r)
  BY <1>1, <1>4 DEF Alive
<1>6. Kept'
  <2> SUFFICES ASSUME NEW r \in Requests, NEW f \in Fetchers, fetch[r][f].at = "call", Alive(r)
               PROVE  fetch[r][f].gen \in conns'.retired
    BY <1>1, <1>5 DEF Kept
  <2>1. CASE fetch[r][f].gen = conns.cur
    BY <1>3, <1>4, <2>1 DEF Calling
  <2>2. CASE fetch[r][f].gen # conns.cur
    BY <1>4, <2>2 DEF Inv, Kept
  <2> QED
    BY <2>1, <2>2
<1>7. Closable'
  <2> SUFFICES ASSUME NEW g \in conns'.retired
               PROVE  \E r \in Requests, f \in Fetchers : Calling(r, f, g)'
    BY DEF Closable
  <2>1. \E r \in Requests, f \in Fetchers : Calling(r, f, g)
    BY <1>3, <1>4 DEF Inv, Closable
  <2> QED
    BY <1>1, <1>5, <2>1 DEF Calling
<1> QED
  BY <1>1, <1>4, <1>6, <1>7, GenerationsMove

(* Closing a generation, and the pool.                                     *)
LEMMA CloseKeeps ==
    ASSUME Inv, CloseGeneration \/ ClosePool
    PROVE  Inv'
<1>1. UNCHANGED <<req, fetch, source, pool>>
  BY DEF CloseGeneration, ClosePool
<1>2. CASE CloseGeneration
  <2>1. PICK g : conns' = [conns EXCEPT !.closing = @ \ {g}]
    BY <1>2 DEF CloseGeneration
  <2>2. /\ DOMAIN conns' = {"of", "open", "cur", "retired", "closing"} /\ conns'.of = conns.of
        /\ conns'.open = conns.open /\ conns'.cur = conns.cur /\ conns'.retired = conns.retired
    BY <2>1 DEF Inv, Shape
  <2>3. \A r \in Requests : Alive(r)' <=> Alive(r)
    BY <1>1, <2>2 DEF Alive
  <2>4. \A r \in Requests, f \in Fetchers, x \in conns.retired : Calling(r, f, x) => Calling(r, f, x)'
    BY <1>1, <2>3 DEF Calling
  <2>5. Kept' /\ Closable'
    BY <1>1, <2>2, <2>3, <2>4 DEF Inv, Kept, Closable
  <2> QED
    BY <1>1, <2>2, <2>5, GenerationsMove
<1>3. CASE ClosePool
  <2>1. conns' = [conns EXCEPT !.open = FALSE, !.retired = {}]
    BY <1>3 DEF ClosePool
  <2>2. /\ DOMAIN conns' = {"of", "open", "cur", "retired", "closing"} /\ conns'.of = conns.of
        /\ conns'.open = FALSE /\ conns'.retired = {}
    BY <2>1 DEF Inv, Shape
  <2>3. Kept' /\ Closable'
    BY <2>2 DEF Kept, Closable, Alive
  <2> QED
    BY <1>1, <2>2, <2>3, GenerationsMove
<1> QED
  BY <1>2, <1>3

(* What happens to the file, the clock and the link does not matter here.  *)
LEMMA OutsideKeeps ==
    ASSUME Inv, \/ ReferenceExpires \/ FileChanges \/ LocalFile \/ Tick \/ UpdateConfig
                \/ CleanupExpired \/ RemoveLink \/ NewTask
    PROVE  Inv'
<1>1. UNCHANGED <<req, fetch, source, conns, pool>>
  BY DEF ReferenceExpires, FileChanges, LocalFile, Tick, UpdateConfig, CleanupExpired, RemoveLink,
         NewTask, pools
<1> QED
  BY <1>1, NothingMoves

(* The entry of a source nobody streams is dropped, and nobody has its     *)
(* lock: who has it is in a stream, and would be counted.                  *)
LEMMA CleanupIdleKeeps ==
    ASSUME Inv, CleanupIdle
    PROVE  Inv'
<1>1. UNCHANGED <<req, fetch, conns, pool>> /\ source' = NoSource /\ source.refs = 0
  BY DEF CleanupIdle, pools
<1>2. /\ DOMAIN source' = {"live", "ref", "ver", "refs", "lock"} /\ source'.live = FALSE
      /\ source'.refs = 0 /\ source'.lock = <<>>
  BY <1>1 DEF NoSource
<1>3. Shape'
  BY <1>1, <1>2 DEF Inv, Shape, Holders
<1>4. Streams' = Streams
  BY <1>1 DEF Streams
<1>5. Counted'
  BY <1>1, <1>2, <1>4 DEF Inv, Counted
<1>6. Numbered' /\ Locked' /\ Inside' /\ NoLostWakeup'
  BY <1>1, <1>2 DEF Inv, Numbered, Locked, Inside, NoLostWakeup
<1>7. \A r \in Requests : Alive(r)' <=> Alive(r)
  BY <1>1 DEF Alive
<1>8. \A r \in Requests, f \in Fetchers, g \in conns.retired : Calling(r, f, g) => Calling(r, f, g)'
  BY <1>1, <1>7 DEF Calling
<1>9. Kept' /\ Closable'
  BY <1>1, <1>7, <1>8 DEF Inv, Kept, Closable
<1> QED
  BY <1>3, <1>5, <1>6, <1>9 DEF Inv

-----------------------------------------------------------------------------
(* The theorem *)

(* The first state: one pool, no request.                                  *)
LEMMA InitInv == Init => Inv
<1> SUFFICES ASSUME Init PROVE Inv
  OBVIOUS
<1>1. /\ pool = [cur |-> 1, changed |-> 0, gen |-> 1] /\ conns = NewPool(1) /\ source = NoSource
      /\ req = [r \in Requests |-> NoReq] /\ fetch = [r \in Requests |-> [f \in Fetchers |-> NoFetch]]
  BY DEF Init
<1>2. /\ DOMAIN req = Requests /\ \A r \in Requests : req[r] = NoReq
      /\ DOMAIN fetch = Requests /\ \A r \in Requests : DOMAIN fetch[r] = Fetchers
      /\ \A r \in Requests, f \in Fetchers : fetch[r][f] = NoFetch
  BY <1>1
<1>3. \A r \in Requests : DOMAIN req[r] = ReqFields /\ req[r].pool = 0 /\ req[r].at = "idle"
  BY <1>2, ConstantShapes
<1>4. \A r \in Requests, f \in Fetchers : DOMAIN fetch[r][f] = FetchFields /\ fetch[r][f].at = "idle"
  BY <1>2, ConstantShapes
<1>5. /\ DOMAIN source = {"live", "ref", "ver", "refs", "lock"} /\ source.live = FALSE
      /\ source.refs = 0 /\ source.lock = <<>>
  BY <1>1 DEF NoSource
<1>6. /\ DOMAIN conns = {"of", "open", "cur", "retired", "closing"} /\ conns.of = 1 /\ conns.retired = {}
      /\ DOMAIN pool = {"cur", "changed", "gen"} /\ pool.cur = 1 /\ pool.changed = 0 /\ pool.gen = 1
  BY <1>1 DEF NewPool
<1>7. Shape
  <2>1. source.live \in BOOLEAN
    BY <1>5, Zenon
  <2>2. source.lock \in Holders /\ source.refs \in Nat
    BY <1>5 DEF Holders
  <2>3. \A r \in Requests : DOMAIN req[r] = ReqFields /\ req[r].pool \in Nat
    BY <1>3
  <2>4. /\ DOMAIN req = Requests /\ DOMAIN fetch = Requests
        /\ \A r \in Requests : DOMAIN fetch[r] = Fetchers
    BY <1>2
  <2>5. /\ pool.cur \in Nat /\ pool.changed \in Nat /\ pool.gen \in Nat /\ conns.of \in Nat
    BY <1>6
  <2> QED
    BY <1>4, <1>5, <1>6, <2>1, <2>2, <2>3, <2>4, <2>5 DEF Shape
<1>8. Numbered
  BY <1>3, <1>6 DEF Numbered
<1>9. Streams = {}
  BY <1>3 DEF Streams
<1>10. Counted
  BY <1>5, <1>9, FS_EmptySet DEF Counted
<1>11. Locked /\ Inside /\ Kept /\ Closable /\ NoLostWakeup
  BY <1>3, <1>4, <1>5, <1>6 DEF Locked, Inside, Kept, Closable, NoLostWakeup
<1> QED
  BY <1>7, <1>8, <1>10, <1>11 DEF Inv

(* Every step keeps Inv.                                                   *)
LEMMA NextInv == Inv /\ [Next]_vars => Inv'
<1> SUFFICES ASSUME Inv, [Next]_vars PROVE Inv'
  OBVIOUS
<1>1. ASSUME NEW r \in Requests, RequestStep(r) PROVE Inv'
  BY <1>1, OpenKeeps, ReadyKeeps, WaitKeeps, StreamFileKeeps, StartStreamKeeps, ReportKeeps,
     StreamReturnsKeeps DEF RequestStep
<1>2. ASSUME NEW r \in Requests, NEW f \in Fetchers, FetchStep(r, f) PROVE Inv'
  BY <1>2, TakeJobKeeps, AcquireChunkKeeps, InterruptedKeeps, CallReturnsKeeps, RenewLockKeeps,
     RenewAskKeeps, RenewStoreKeeps, RenewLoadKeeps, WriteKeeps DEF FetchStep
<1>3. CASE ServerStep
  BY <1>3, ServerKeeps, CloseKeeps DEF ServerStep
<1>4. CASE Internal
  BY <1>1, <1>2, <1>3, <1>4 DEF Internal
<1>5. ASSUME NEW r \in Requests,
             \/ Leaves(r) \/ Stalls(r)
             \/ \E kind \in {"get", "head", "worker"} : Arrive(r, kind)
             \/ \E f \in Fetchers : CallFails(r, f) \/ RenewFails(r, f)
      PROVE  Inv'
  BY <1>5, ClientKeeps, ArriveKeeps, CallFailsKeeps, RenewFailsKeeps
<1>6. CASE StopServer \/ StartServer \/ PoolChanges \/ Resize \/ CleanupIdle
  BY <1>6, ServerKeeps, PoolChangesKeeps, ResizeKeeps, CleanupIdleKeeps
<1>7. CASE \/ ReferenceExpires \/ FileChanges \/ LocalFile \/ Tick \/ UpdateConfig
           \/ CleanupExpired \/ RemoveLink \/ NewTask
  BY <1>7, OutsideKeeps
<1>8. CASE UNCHANGED vars
  BY <1>8, NothingMoves DEF vars
<1> QED
  BY <1>4, <1>5, <1>6, <1>7, <1>8 DEF Next

(* Nothing is stranded: for any requests and fetchers, and whatever the    *)
(* clients, Telegram, the watcher's pool and the server do, the source     *)
(* counts the streams that use it, its refresh lock is held by a fetcher   *)
(* that renews, fetchers run inside a stream, the connection of a call is  *)
(* not closed and a retired one has a call that will close it, and no      *)
(* request sleeps on the current channel beside a pool.                    *)
THEOREM DeliveryStrandsNothing == Spec => []NothingStranded
<1>1. Spec => []Inv
  BY InitInv, NextInv, PTL DEF Spec
<1> QED
  BY <1>1, InvMeans, PTL

-----------------------------------------------------------------------------
(* Induction over numbers and loops *)

(* The order of the naturals is well founded.                              *)
Less == {ss \in Nat \X Nat : ss[1] < ss[2]}

(* So the theorems on well-founded relations can be used for sets.         *)
LEMMA LessWF == IsWellFoundedOn(Less, Nat)
BY NatLessThanWellFounded, Zenon DEF OpToRel, Less

(* A set of naturals that is not empty has a least one.                    *)
LEMMA LeastNat ==
  ASSUME NEW T, T \subseteq Nat, T # {}
  PROVE  \E x \in T : \A y \in T : x <= y
<1>2. \A a \in Nat, b \in Nat : <<a, b>> \in Less <=> a < b
  BY DEF Less
<1>3. PICK x \in T : \A y \in T : ~ (<<y, x>> \in Less)
  BY LessWF, WFMin
<1>4. ASSUME NEW y \in T PROVE x <= y
  <2>1. x \in Nat /\ y \in Nat
    OBVIOUS
  <2>2. ~(<<y, x>> \in Less)
    BY <1>3
  <2>3. ~(y < x)
    BY <1>2, <2>1, <2>2
  <2> QED
    BY <2>1, <2>3
<1> QED
  BY <1>4

(* Induction up to n: a set that has 0 and, with i - 1, also i.            *)
LEMMA UpTo ==
  ASSUME NEW n \in Nat, NEW G, 0 \in G, \A i \in 1..n : i - 1 \in G => i \in G
  PROVE  0..n \subseteq G
<1> SUFFICES ASSUME NEW bad \in 0..n, bad \notin G PROVE FALSE
  OBVIOUS
<1> DEFINE T == {i \in 0..n : i \notin G}
<1>1. PICK x \in T : \A y \in T : x <= y
  <2>1. T \subseteq Nat /\ bad \in T
    OBVIOUS
  <2> HIDE DEF T
  <2> QED
    BY <2>1, LeastNat
<1>2. x \in 1..n
  OBVIOUS
<1>3. x - 1 \notin T
  BY <1>1, <1>2
<1>4. x - 1 \in G
  BY <1>2, <1>3
<1> QED
  BY <1>1, <1>2, <1>4

(* A run of a loop of n steps on values of a set A has a value for every   *)
(* number of steps done.                                                   *)
IsRun(f, A, base, n, step) ==
    /\ f \in [0..n -> A] /\ f[0] = base
    /\ \A i \in 1..n : f[i] = step[i][f[i - 1]]

(* Every loop has a run.                                                   *)
LEMMA LoopRuns ==
  ASSUME NEW A, NEW base \in A, NEW n \in Nat, NEW step \in [1..n -> [A -> A]]
  PROVE  \E f : IsRun(f, A, base, n, step)
<1> DEFINE Run(f, m) == f[0] = base /\ \A i \in 1..m : f[i] = step[i][f[i - 1]]
           G == {m \in 0..n : \E f \in [0..m -> A] : Run(f, m)}
<1>1. 0 \in G
  <2>1. [i \in 0..0 |-> base] \in [0..0 -> A] /\ Run([i \in 0..0 |-> base], 0)
    OBVIOUS
  <2> HIDE DEF Run
  <2>2. \E f \in [0..0 -> A] : Run(f, 0)
    BY <2>1, Zenon
  <2> QED
    BY <2>2
<1>2. ASSUME NEW i \in 1..n, i - 1 \in G
      PROVE  i \in G
  <2>1. PICK f \in [0..(i - 1) -> A] : Run(f, i - 1)
    BY <1>2
  <2> DEFINE v == step[i][f[i - 1]]
             g == [j \in 0..i |-> IF j = i THEN v ELSE f[j]]
  <2>2. v \in A
    OBVIOUS
  <2>3. g \in [0..i -> A]
    BY <2>2
  <2>4. g[0] = base
    BY <2>1
  <2>5. ASSUME NEW j \in 1..i PROVE g[j] = step[j][g[j - 1]]
    <3>1. CASE j = i
      <4>1. i \in 0..i /\ i - 1 \in 0..i /\ i - 1 # i
        OBVIOUS
      <4>2. g[i] = v /\ g[i - 1] = f[i - 1]
        BY <4>1
      <4> QED
        BY <3>1, <4>2
    <3>2. CASE j # i
      <4>1. j \in 1..(i - 1) /\ j - 1 \in 0..(i - 1)
        BY <3>2
      <4>2. g[j] = f[j] /\ g[j - 1] = f[j - 1]
        BY <3>2, <4>1
      <4> QED
        BY <2>1, <4>1, <4>2
    <3> QED
      BY <3>1, <3>2
  <2>6. Run(g, i)
    BY <2>4, <2>5
  <2> HIDE DEF Run, g
  <2>7. \E h \in [0..i -> A] : Run(h, i)
    BY <2>3, <2>6, Zenon
  <2> QED
    BY <2>7
<1>3. 0..n \subseteq G
  <2> HIDE DEF G
  <2> QED
    BY <1>1, <1>2, UpTo
<1>4. PICK f \in [0..n -> A] : Run(f, n)
  BY <1>3
<1> QED
  BY <1>4 DEF IsRun

-----------------------------------------------------------------------------
(* The bytes and the ranges of an answer *)

(* The bytes of a span are naturals, one for each position.                *)
LEMMA BytesAre ==
  ASSUME NEW range \in Nat \X Int
  PROVE  /\ Length(range) \in Nat /\ Bytes(range) \in Seq(Nat) /\ Len(Bytes(range)) = Length(range)
         /\ \A i \in 1..Length(range) : Bytes(range)[i] = range[1] + i - 1
<1>1. Length(range) \in Nat
  BY DEF Length
<1> HIDE DEF Length
<1> QED
  BY <1>1 DEF Bytes

(* Upto is the loop it is written as.                                      *)
LEMMA UptoRuns ==
  ASSUME NEW ranges \in Seq(Nat \X Nat)
  PROVE  /\ Upto(ranges)[0] = <<>>
         /\ \A i \in 1..Len(ranges) : Upto(ranges)[i] = Upto(ranges)[i - 1] \o Bytes(ranges[i])
         /\ \A i \in 0..Len(ranges) : Upto(ranges)[i] \in Seq(Nat)
<1> DEFINE n == Len(ranges)
           A == Seq(Nat)
           b == <<>>
           u == Upto(ranges)
           Cat(a, i) == a \o Bytes(ranges[i])
           Body(f) == [i \in 0..n |-> IF i = 0 THEN b ELSE Cat(f[i - 1], i)]
           step == [i \in 1..n |-> [a \in A |-> Cat(a, i)]]
<1>1. n \in Nat /\ b \in A
  OBVIOUS
<1>2. ASSUME NEW i \in 1..n, NEW a \in A PROVE Cat(a, i) \in A
  <2>1. ranges[i] \in Nat \X Int
    OBVIOUS
  <2>2. Bytes(ranges[i]) \in Seq(Nat)
    BY <2>1, BytesAre
  <2> QED
    BY <2>2
<1>3. (\E f : f = Body(f)) => u = Body(u)
  BY Zenon DEF Upto
<1> HIDE DEF A, n, b, Cat, u
<1>4. step \in [1..n -> [A -> A]] /\ \A i \in 1..n, a \in A : step[i][a] = Cat(a, i)
  BY <1>2
<1> HIDE DEF step
<1>5. PICK f : IsRun(f, A, b, n, step)
  BY <1>1, <1>4, LoopRuns
<1>6. f = Body(f)
  <2>1. ASSUME NEW i \in 1..n PROVE f[i] = Cat(f[i - 1], i)
    <3>1. i - 1 \in 0..n
      BY <1>1
    <3>2. f[i - 1] \in A
      BY <1>5, <3>1 DEF IsRun
    <3> QED
      BY <1>4, <1>5, <3>2 DEF IsRun
  <2>2. \A i \in 0..n : f[i] = Body(f)[i]
    BY <1>1, <1>5, <2>1 DEF IsRun
  <2> QED
    BY <1>5, <2>2 DEF IsRun
<1>7. u = Body(u)
  BY <1>3, <1>6
<1>8. u[0] = b /\ \A i \in 1..n : u[i] = Cat(u[i - 1], i)
  <2>1. \A i \in 0..n : Body(u)[i] = IF i = 0 THEN b ELSE Cat(u[i - 1], i)
    OBVIOUS
  <2> HIDE DEF Body
  <2>2. \A i \in 0..n : u[i] = IF i = 0 THEN b ELSE Cat(u[i - 1], i)
    BY <1>7, <2>1
  <2> QED
    BY <1>1, <2>2
<1> DEFINE G == {i \in 0..n : u[i] \in A}
<1>9. 0..n \subseteq G
  <2>1. 0 \in G
    BY <1>1, <1>8
  <2>2. ASSUME NEW i \in 1..n, i - 1 \in G PROVE i \in G
    BY <1>1, <1>2, <1>8, <2>2
  <2> HIDE DEF G
  <2> QED
    BY <1>1, <2>1, <2>2, UpTo
<1> QED
  BY <1>8, <1>9 DEF u, A, n, b, Cat

(* The spans of a file of this size.                                       *)
Cuts(size) == {span \in Nat \X Nat : span[1] <= span[2] /\ span[2] < size}

(* Max and Min of two numbers.                                             *)
LEMMA TwoOf ==
  ASSUME NEW a \in Int, NEW b \in Int
  PROVE  Max({a, b}) = (IF a >= b THEN a ELSE b) /\ Min({a, b}) = (IF a <= b THEN a ELSE b)
<1>1. ASSUME a >= b PROVE Max({a, b}) = a
  BY <1>1 DEF Max
<1>2. ASSUME ~(a >= b) PROVE Max({a, b}) = b
  BY <1>2 DEF Max
<1>3. Min({a, b}) = IF a <= b THEN a ELSE b
  BY DEF Min
<1> QED
  BY <1>1, <1>2, <1>3

(* A well-formed spec is cut to the file.                                  *)
LEMMA ParsedAre ==
  ASSUME NEW spec \in [first : Int, last : Int], NEW size \in Nat \ {0},
         ParseSpec(spec, size) # <<-1, -1>>, ParseSpec(spec, size) # <<>>
  PROVE  ParseSpec(spec, size) \in Cuts(size)
<1> DEFINE short == Min({spec.last, size})
           cut == Min({spec.last, size - 1})
<1>1. PICK first \in Int, last \in Int : first = spec.first /\ last = spec.last
  OBVIOUS
<1>2. short = (IF last <= size THEN last ELSE size) /\ cut = IF last <= size - 1 THEN last ELSE size - 1
  <2>1. spec.last = last /\ last \in Int /\ size \in Int /\ size - 1 \in Int
    BY <1>1
  <2>2. Min({last, size}) = IF last <= size THEN last ELSE size
    BY <2>1, TwoOf, Zenon
  <2>3. Min({last, size - 1}) = IF last <= size - 1 THEN last ELSE size - 1
    BY <2>1, TwoOf, Zenon
  <2> QED
    BY <2>1, <2>2, <2>3, Zenon
<1>3. /\ first < 0 /\ last <= 0 => ParseSpec(spec, size) = <<-1, -1>>
      /\ first < 0 /\ last > 0 => ParseSpec(spec, size) = <<size - short, size - 1>>
      /\ first >= size => ParseSpec(spec, size) = <<>>
      /\ first \in 0..(size - 1) /\ last < 0 => ParseSpec(spec, size) = <<first, size - 1>>
      /\ first \in 0..(size - 1) /\ last \in 0..(first - 1) => ParseSpec(spec, size) = <<-1, -1>>
      /\ first \in 0..(size - 1) /\ last >= first => ParseSpec(spec, size) = <<first, cut>>
  <2> HIDE DEF short, cut
  <2>1. ParseSpec(spec, size) =
          CASE first < 0 /\ last <= 0 -> <<-1, -1>>
            [] first < 0 /\ last > 0 -> IF size = 0 THEN <<>> ELSE <<size - short, size - 1>>
            [] first >= size -> <<>>
            [] first \in 0..(size - 1) /\ last < 0 -> <<first, size - 1>>
            [] first \in 0..(size - 1) /\ last \in 0..(first - 1) -> <<-1, -1>>
            [] OTHER -> <<first, cut>>
    BY <1>1, Zenon DEF ParseSpec, short, cut
  <2> QED
    BY <2>1
<1> HIDE DEF short, cut
<1>4. CASE first < 0
  BY <1>2, <1>3, <1>4 DEF Cuts
<1>5. CASE first >= 0
  BY <1>2, <1>3, <1>5 DEF Cuts
<1> QED
  BY <1>4, <1>5

(* Overlapping leaves what is not empty.                                   *)
LEMMA OverlappingAre ==
  ASSUME NEW S, NEW m \in Nat, NEW parsed, Len(parsed) = m,
         \A i \in 1..m : parsed[i] # <<>> => parsed[i] \in S
  PROVE  Overlapping(parsed) \in Seq(S)
<1> DEFINE n == Len(parsed)
           A == Seq(S)
           b == <<>>
           Next1(a, i) == IF parsed[i] = <<>> THEN a ELSE Append(a, parsed[i])
           Body(f) == [i \in 0..n |-> IF i = 0 THEN b ELSE IF parsed[i] = <<>> THEN f[i - 1] ELSE Append(f[i - 1], parsed[i])]
           u == CHOOSE f : f = Body(f)
           step == [i \in 1..n |-> [a \in A |-> Next1(a, i)]]
<1>1. n \in Nat /\ b \in A
  OBVIOUS
<1>2. ASSUME NEW i \in 1..n, NEW a \in A PROVE Next1(a, i) \in A
  <2>1. CASE parsed[i] = <<>>
    BY <2>1
  <2>2. CASE parsed[i] # <<>>
    <3>1. parsed[i] \in S
      BY <2>2
    <3> QED
      BY <2>2, <3>1
  <2> QED
    BY <2>1, <2>2
<1>3. (\E f : f = Body(f)) => u = Body(u)
  BY Zenon
<1>0. Overlapping(parsed) = u[n]
  BY Zenon DEF Overlapping
<1>10. \A f : Body(f) = [i \in 0..n |-> IF i = 0 THEN b ELSE Next1(f[i - 1], i)]
  BY Zenon
<1> HIDE DEF A, n, b, Next1, u, Body
<1>4. step \in [1..n -> [A -> A]] /\ \A i \in 1..n, a \in A : step[i][a] = Next1(a, i)
  BY <1>2
<1> HIDE DEF step
<1>5. PICK f : IsRun(f, A, b, n, step)
  BY <1>1, <1>4, LoopRuns
<1>6. f = Body(f)
  <2>1. ASSUME NEW i \in 1..n PROVE f[i] = Next1(f[i - 1], i)
    <3>1. i - 1 \in 0..n
      BY <1>1
    <3>2. f[i - 1] \in A
      BY <1>5, <3>1 DEF IsRun
    <3> QED
      BY <1>4, <1>5, <3>2 DEF IsRun
  <2>2. \A i \in 0..n : f[i] = IF i = 0 THEN b ELSE Next1(f[i - 1], i)
    BY <1>1, <1>5, <2>1 DEF IsRun
  <2>3. f = [i \in 0..n |-> IF i = 0 THEN b ELSE Next1(f[i - 1], i)]
    BY <1>5, <2>2 DEF IsRun
  <2> QED
    BY <1>10, <2>3
<1>7. u = [i \in 0..n |-> IF i = 0 THEN b ELSE Next1(u[i - 1], i)]
  BY <1>3, <1>6, <1>10
<1>8. u[0] = b /\ \A i \in 1..n : u[i] = Next1(u[i - 1], i)
  <2>2. \A i \in 0..n : u[i] = IF i = 0 THEN b ELSE Next1(u[i - 1], i)
    BY <1>7
  <2> QED
    BY <1>1, <2>2
<1> DEFINE G == {i \in 0..n : u[i] \in A}
<1>9. 0..n \subseteq G
  <2>1. 0 \in G
    BY <1>1, <1>8
  <2>2. ASSUME NEW i \in 1..n, i - 1 \in G PROVE i \in G
    BY <1>1, <1>2, <1>8, <2>2
  <2> HIDE DEF G
  <2> QED
    BY <1>1, <2>1, <2>2, UpTo
<1> QED
  BY <1>0, <1>1, <1>9 DEF A

(* The ranges of a response are spans of the file.                         *)
LEMMA ResponseAre ==
  ASSUME NEW size \in Nat \ {0}, NEW ask \in Asks
  PROVE  ResponseRanges(ask, size) \in Seq(Cuts(size))
<1> DEFINE n == Len(ask.specs)
           parsed == [i \in 1..n |-> ParseSpec(ask.specs[i], size)]
           whole == <<<<0, size - 1>>>>
           ranges == Overlapping(parsed)
<1>1. n \in Nat /\ \A i \in 1..n : ask.specs[i] \in [first : Int, last : Int]
  <2> DEFINE Specs == [first : Int, last : Int]
  <2>1. ask.specs \in Seq(Specs)
    BY DeliveryAssumption DEF DeliveryAssumption
  <2> HIDE DEF Specs
  <2>2. PICK specs \in Seq(Specs) : specs = ask.specs
    BY <2>1
  <2>3. Len(specs) \in Nat /\ \A i \in 1..Len(specs) : specs[i] \in Specs
    OBVIOUS
  <2> QED
    BY <2>2, <2>3 DEF Specs
<1>2. whole \in Seq(Cuts(size)) /\ <<>> \in Seq(Cuts(size))
  BY DEF Cuts
<1>3. ResponseRanges(ask, size) \in {whole, <<>>}
      \/ ((~\E i \in 1..n : parsed[i] = <<-1, -1>>) /\ ResponseRanges(ask, size) = ranges)
  BY Zenon DEF ResponseRanges
<1>4. ASSUME ~\E i \in 1..n : parsed[i] = <<-1, -1>>
      PROVE  ranges \in Seq(Cuts(size))
  <2>1. Len(parsed) = n /\ \A i \in 1..n : parsed[i] = ParseSpec(ask.specs[i], size)
    BY <1>1
  <2>2. ASSUME NEW i \in 1..n, parsed[i] # <<>> PROVE parsed[i] \in Cuts(size)
    <3>1. /\ ParseSpec(ask.specs[i], size) # <<-1, -1>> /\ ParseSpec(ask.specs[i], size) # <<>>
      BY <1>4, <2>1, <2>2
    <3>2. ParseSpec(ask.specs[i], size) \in Cuts(size)
      BY <1>1, <3>1, ParsedAre
    <3> QED
      BY <2>1, <3>2
  <2> HIDE DEF parsed, n
  <2> QED
    BY <1>1, <2>1, <2>2, OverlappingAre
<1> HIDE DEF whole, ranges, parsed, n
<1> QED
  BY <1>2, <1>3, <1>4

-----------------------------------------------------------------------------
(* Sorting *)

(* Before is a total order on pairs of integers, and InOrder sorts by it.  *)
LEMMA Sorted ==
  ASSUME NEW S, IsFiniteSet(S), S \subseteq Int \X Int
  PROVE  /\ Cardinality(S) \in Nat
         /\ \A i \in 1..Cardinality(S) : InOrder(S)[i] \in S
         /\ \A x \in S : \E i \in 1..Cardinality(S) : InOrder(S)[i] = x
         /\ \A i, j \in 1..Cardinality(S) : i < j => Before(InOrder(S)[i], InOrder(S)[j])
<1> DEFINE n == Cardinality(S)
           Below(x) == {y \in S : Before(y, x)}
           rank == [x \in S |-> Cardinality(Below(x))]
           s == InOrder(S)
<1>1. n \in Nat
  BY FS_CardinalityType
<1>2. /\ \A x, y \in S : x = y \/ Before(x, y) \/ Before(y, x)
      /\ \A x, y, z \in S : Before(x, y) /\ Before(y, z) => Before(x, z)
      /\ \A x \in S : ~Before(x, x)
  BY DEF Before
<1>3. ASSUME NEW x \in S PROVE rank[x] \in 0..(n - 1) /\ IsFiniteSet(Below(x)) /\ rank[x] = Cardinality(Below(x))
  <2>1. Below(x) \in SUBSET S /\ x \notin Below(x)
    BY <1>2
  <2> HIDE DEF Below
  <2>2. IsFiniteSet(Below(x)) /\ Cardinality(Below(x)) <= n /\ (n = Cardinality(Below(x)) => S = Below(x))
    BY <2>1, FS_Subset
  <2>3. Cardinality(Below(x)) \in Nat
    BY <2>2, FS_CardinalityType
  <2>4. Cardinality(Below(x)) # n
    BY <2>1, <2>2
  <2> HIDE DEF n
  <2> QED
    BY <1>1, <2>2, <2>3, <2>4
<1>4. ASSUME NEW x \in S, NEW y \in S, Before(x, y) PROVE rank[x] < rank[y]
  <2>1. Below(x) \in SUBSET Below(y) /\ x \in Below(y) /\ x \notin Below(x)
    BY <1>2, <1>4
  <2>2. IsFiniteSet(Below(y)) /\ IsFiniteSet(Below(x))
    BY <1>3
  <2>3. rank[x] = Cardinality(Below(x)) /\ rank[y] = Cardinality(Below(y)) /\ rank[x] \in Nat /\ rank[y] \in Nat
    BY <1>3
  <2> HIDE DEF Below, rank
  <2>4. Cardinality(Below(x)) <= Cardinality(Below(y)) /\ Cardinality(Below(x)) # Cardinality(Below(y))
    BY <2>1, <2>2, FS_Subset
  <2> QED
    BY <2>3, <2>4
<1>5. rank \in Injection(S, 0..(n - 1))
  <2>1. rank \in [S -> 0..(n - 1)]
    BY <1>3
  <2>2. ASSUME NEW x \in S, NEW y \in S, rank[x] = rank[y] PROVE x = y
    <3>1. rank[x] \in Int /\ rank[y] \in Int
      BY <1>3
    <3> HIDE DEF rank
    <3>2. ~Before(x, y) /\ ~Before(y, x)
      BY <1>4, <2>2, <3>1
    <3> QED
      BY <1>2, <3>2
  <2> HIDE DEF rank
  <2> QED
    BY <2>1, <2>2 DEF Injection, IsInjective
<1>6. rank \in Surjection(S, 0..(n - 1))
  <2>1. IsFiniteSet(0..(n - 1)) /\ Cardinality(0..(n - 1)) = n
    <3> HIDE DEF n
    <3>1. n - 1 \in Int /\ (IF 0 > n - 1 THEN 0 ELSE n - 1 - 0 + 1) = n
      BY <1>1
    <3> QED
      BY <3>1, FS_Interval
  <2> HIDE DEF rank
  <2> QED
    BY <1>5, <2>1, FS_Injection
<1>7. ASSUME NEW i \in 1..n PROVE s[i] \in S /\ rank[s[i]] = i - 1
  <2>1. i - 1 \in 0..(n - 1)
    BY <1>1
  <2>2. \E x \in S : rank[x] = i - 1
    BY <1>6, <2>1 DEF Surjection
  <2>3. \E x \in S : Cardinality(Below(x)) = i - 1
    BY <1>3, <2>2
  <2>4. s[i] = CHOOSE x \in S : Cardinality(Below(x)) = i - 1
    BY DEF InOrder
  <2> HIDE DEF s, Below
  <2>5. s[i] \in S /\ Cardinality(Below(s[i])) = i - 1
    BY <2>3, <2>4
  <2> QED
    BY <1>3, <2>5
<1> HIDE DEF rank, s
<1>8. ASSUME NEW x \in S PROVE \E i \in 1..n : s[i] = x
  <2>1. rank[x] \in 0..(n - 1)
    BY <1>3
  <2> DEFINE i == rank[x] + 1
  <2>2. i \in 1..n /\ i - 1 = rank[x]
    BY <1>1, <2>1
  <2> HIDE DEF i
  <2>3. s[i] \in S /\ rank[s[i]] = rank[x]
    BY <1>7, <2>2
  <2>4. ~Before(x, s[i]) /\ ~Before(s[i], x)
    BY <1>4, <2>1, <2>3
  <2>5. s[i] = x
    BY <1>2, <2>3, <2>4
  <2> QED
    BY <2>2, <2>5
<1>9. ASSUME NEW i \in 1..n, NEW j \in 1..n, i < j PROVE Before(s[i], s[j])
  <2>1. s[i] \in S /\ s[j] \in S /\ rank[s[i]] = i - 1 /\ rank[s[j]] = j - 1
    BY <1>7
  <2>2. s[i] # s[j]
    BY <1>9, <2>1
  <2>3. ~Before(s[j], s[i])
    BY <1>4, <1>9, <2>1
  <2> QED
    BY <1>2, <2>1, <2>2, <2>3
<1> QED
  BY <1>1, <1>7, <1>8, <1>9 DEF s

-----------------------------------------------------------------------------
(* Merging ranges *)

(* Where merged ranges lie apart, nothing between two of them is covered.  *)
Covers(spans, x) == \E t \in 1..Len(spans) : spans[t][1] <= x /\ x <= spans[t][2]
Apart(spans) == \A t, u \in 1..Len(spans) : t < u => spans[u][1] > spans[t][2] + 1

(* Join adds one span to those before it, which start no later.            *)
LEMMA JoinAdds ==
  ASSUME NEW size \in Nat, NEW m \in Seq(Cuts(size)), Apart(m), NEW next \in Cuts(size),
         Len(m) > 0 => m[Len(m)][1] <= next[1]
  PROVE  /\ Join(m, next) \in Seq(Cuts(size)) /\ Len(Join(m, next)) > 0 /\ Apart(Join(m, next))
         /\ Join(m, next)[Len(Join(m, next))][1] <= next[1]
         /\ \A x \in Int : Covers(Join(m, next), x) <=> Covers(m, x) \/ (next[1] <= x /\ x <= next[2])
<1> DEFINE n == Len(m)
           j == Join(m, next)
<1>1. n \in Nat /\ \A t \in 1..n : m[t] \in Cuts(size)
  OBVIOUS
<1>2. /\ \A c \in Cuts(size) : c[1] \in Nat /\ c[2] \in Nat /\ c[1] <= c[2] /\ c[2] < size
      /\ next[1] \in Nat /\ next[2] \in Nat /\ next[1] <= next[2] /\ next[2] < size
  BY DEF Cuts
<1>3. CASE n = 0 \/ next[1] > m[n][2] + 1
  <2>1. j = Append(m, next)
    BY <1>3 DEF Join
  <2> HIDE DEF j
  <2>2. j \in Seq(Cuts(size)) /\ Len(j) = n + 1 /\ j[n + 1] = next /\ \A t \in 1..n : j[t] = m[t]
    BY <2>1
  <2>3. Apart(j)
    <3> SUFFICES ASSUME NEW t \in 1..Len(j), NEW u \in 1..Len(j), t < u
                 PROVE  j[u][1] > j[t][2] + 1
      BY DEF Apart
    <3>1. CASE u \in 1..n
      BY <1>1, <2>2, <3>1 DEF Apart
    <3>2. CASE u = n + 1
      <4>1. t \in 1..n /\ j[t] = m[t] /\ j[u] = next /\ n \in 1..n
        BY <1>1, <2>2, <3>2
      <4>2. m[t] \in Cuts(size) /\ m[n] \in Cuts(size)
        BY <1>1, <4>1
      <4>3. m[t][2] <= m[n][2]
        <5>1. CASE t = n
          <6>1. m[n][2] \in Nat /\ m[t][2] = m[n][2]
            BY <1>2, <4>2, <5>1
          <6> QED
            BY <6>1
        <5>2. CASE t < n
          <6>1. m[n][1] > m[t][2] + 1
            BY <4>1, <5>2 DEF Apart
          <6>2. m[n][1] \in Nat /\ m[n][2] \in Nat /\ m[t][2] \in Nat /\ m[n][1] <= m[n][2]
            BY <1>2, <4>2
          <6>3. PICK a \in Nat, b \in Nat, c \in Nat : a = m[n][1] /\ b = m[n][2] /\ c = m[t][2]
            BY <6>2
          <6>4. a > c + 1 /\ a <= b
            BY <6>1, <6>2, <6>3
          <6>5. c <= b
            BY <6>4
          <6> QED
            BY <6>3, <6>5
        <5> QED
          BY <4>1, <5>1, <5>2
      <4>4. next[1] > m[n][2] + 1
        BY <1>1, <1>3, <4>1
      <4>5. PICK a \in Nat, b \in Nat, c \in Nat : m[t][2] = a /\ m[n][2] = b /\ next[1] = c
        BY <1>2, <4>2
      <4>6. c > a + 1
        BY <4>3, <4>4, <4>5
      <4>7. j[t][2] = a /\ j[u][1] = c
        BY <4>1, <4>5
      <4> QED
        BY <4>6, <4>7
    <3> QED
      BY <1>1, <2>2, <3>1, <3>2
  <2>4. ASSUME NEW x \in Int
        PROVE  Covers(j, x) <=> Covers(m, x) \/ (next[1] <= x /\ x <= next[2])
    <3>1. ASSUME Covers(j, x) PROVE Covers(m, x) \/ (next[1] <= x /\ x <= next[2])
      BY <1>1, <2>2, <3>1 DEF Covers
    <3>2. ASSUME Covers(m, x) PROVE Covers(j, x)
      <4>1. PICK t \in 1..n : m[t][1] <= x /\ x <= m[t][2]
        BY <3>2 DEF Covers
      <4>2. t \in 1..Len(j) /\ j[t] = m[t]
        BY <1>1, <2>2
      <4> QED
        BY <4>1, <4>2 DEF Covers
    <3>3. ASSUME next[1] <= x /\ x <= next[2] PROVE Covers(j, x)
      <4>1. n + 1 \in 1..Len(j) /\ j[n + 1] = next
        BY <1>1, <2>2
      <4> QED
        BY <3>3, <4>1 DEF Covers
    <3> QED
      BY <3>1, <3>2, <3>3
  <2> QED
    BY <1>1, <1>2, <2>2, <2>3, <2>4 DEF j
<1>4. CASE ~(n = 0 \/ next[1] > m[n][2] + 1)
  <2> DEFINE last == <<m[n][1], Max({m[n][2], next[2]})>>
  <2>0. n \in 1..n
    BY <1>1, <1>4
  <2>1. j = [m EXCEPT ![n] = last]
    BY <1>4 DEF Join
  <2>2. m[n] \in Cuts(size)
    BY <1>1, <2>0
  <2>3. /\ last[1] = m[n][1] /\ last[2] = IF m[n][2] >= next[2] THEN m[n][2] ELSE next[2]
        /\ last \in Nat \X Nat
    <3>1. PICK a \in Nat, b \in Nat, c \in Nat : m[n][1] = a /\ m[n][2] = b /\ next[2] = c
      BY <1>2, <2>2
    <3>2. Max({b, c}) = IF b >= c THEN b ELSE c
      BY TwoOf
    <3>3. last = <<a, IF b >= c THEN b ELSE c>>
      BY <3>1, <3>2, Zenon
    <3> QED
      BY <3>1, <3>3
  <2> HIDE DEF j, last
  <2>4. last \in Cuts(size)
    BY <1>2, <2>2, <2>3 DEF Cuts
  <2>5. /\ j \in Seq(Cuts(size)) /\ Len(j) = n /\ j[n] = last
        /\ \A t \in 1..n : t # n => j[t] = m[t]
    BY <2>0, <2>1, <2>4
  <2>6. Apart(j)
    <3> SUFFICES ASSUME NEW t \in 1..Len(j), NEW u \in 1..Len(j), t < u
                 PROVE  j[u][1] > j[t][2] + 1
      BY DEF Apart
    <3>1. t \in 1..n /\ u \in 1..n /\ t # n /\ j[t] = m[t] /\ j[u][1] = m[u][1]
      BY <1>1, <2>3, <2>5
    <3> QED
      BY <3>1 DEF Apart
  <2>7. ASSUME NEW x \in Int
        PROVE  Covers(j, x) <=> Covers(m, x) \/ (next[1] <= x /\ x <= next[2])
    <3>1. (j[n][1] <= x /\ x <= j[n][2]) <=> (m[n][1] <= x /\ x <= m[n][2]) \/ (next[1] <= x /\ x <= next[2])
      <4>1. next[1] <= m[n][2] + 1 /\ m[n][1] <= next[1]
        BY <1>1, <1>2, <1>4, <2>2
      <4>2. PICK a \in Nat, b \in Nat, c \in Nat, d \in Nat :
                 m[n][1] = a /\ m[n][2] = b /\ next[1] = c /\ next[2] = d
        BY <1>2, <2>2
      <4>3. a <= b /\ c <= d /\ c <= b + 1 /\ a <= c
        BY <1>2, <2>2, <4>1, <4>2
      <4>4. j[n][1] = a /\ j[n][2] = IF b >= d THEN b ELSE d
        BY <2>3, <2>5, <4>2
      <4>5. (a <= x /\ x <= j[n][2]) <=> (a <= x /\ x <= b) \/ (c <= x /\ x <= d)
        BY <4>3, <4>4
      <4> QED
        BY <4>2, <4>4, <4>5
    <3> QED
      BY <2>0, <2>5, <3>1 DEF Covers
  <2> QED
    BY <1>1, <1>2, <1>4, <2>2, <2>3, <2>5, <2>6, <2>7 DEF j
<1> QED
  BY <1>3, <1>4

(* The union of sequences of spans as TLC computes it is what they cover.  *)
LEMMA PositionsCover ==
  ASSUME NEW ranges \in Seq(Nat \X Nat)
  PROVE  Positions(ranges) = {x \in Int : Covers(ranges, x)}
<1>1. \A i \in 1..Len(ranges) : ranges[i] \in Nat \X Nat /\ ranges[i][1] \in Nat /\ ranges[i][2] \in Nat
  OBVIOUS
<1>2. DOMAIN ranges = 1..Len(ranges)
  OBVIOUS
<1>3. ASSUME NEW x \in Positions(ranges) PROVE x \in Int /\ Covers(ranges, x)
  <2>1. PICK i \in 1..Len(ranges) : x \in ranges[i][1]..ranges[i][2]
    BY <1>2 DEF Positions, ToSet
  <2> QED
    BY <1>1, <2>1 DEF Covers
<1>4. ASSUME NEW x \in Int, Covers(ranges, x) PROVE x \in Positions(ranges)
  <2>1. PICK i \in 1..Len(ranges) : ranges[i][1] <= x /\ x <= ranges[i][2]
    BY <1>4 DEF Covers
  <2>2. x \in ranges[i][1]..ranges[i][2] /\ ranges[i] \in ToSet(ranges)
    <3>1. ranges[i] \in ToSet(ranges)
      BY <1>2 DEF ToSet
    <3> QED
      BY <1>1, <2>1, <3>1
  <2> QED
    BY <2>2 DEF Positions
<1> QED
  BY <1>3, <1>4

(* The ranges of a record, cut to the file: a finite set of spans that     *)
(* covers what the ranges cover of the file.                               *)
LEMMA NormalizedAre ==
  ASSUME NEW size \in Nat, NEW ranges \in Seq(Nat \X Nat)
  PROVE  /\ IsFiniteSet(Normalized(ranges, size)) /\ Normalized(ranges, size) \subseteq Cuts(size)
         /\ \A x \in Int : (\E span \in Normalized(ranges, size) : span[1] <= x /\ x <= span[2])
                             <=> (x \in 0..(size - 1) /\ Covers(ranges, x))
<1> DEFINE n == Len(ranges)
           Cut(range) == <<Max({0, range[1]}), Min({range[2], size - 1})>>
           N == Normalized(ranges, size)
<1>1. n \in Nat /\ DOMAIN ranges = 1..n /\ \A i \in 1..n : ranges[i] \in Nat \X Nat
  OBVIOUS
<1>2. ASSUME NEW range \in Nat \X Nat
      PROVE  Cut(range) = <<range[1], IF range[2] <= size - 1 THEN range[2] ELSE size - 1>>
  <2>1. PICK a \in Nat, b \in Nat : a = range[1] /\ b = range[2]
    OBVIOUS
  <2>2. Max({0, a}) = a
    BY TwoOf
  <2>3. Min({b, size - 1}) = IF b <= size - 1 THEN b ELSE size - 1
    <3>1. b \in Int /\ size - 1 \in Int
      OBVIOUS
    <3> QED
      BY <3>1, TwoOf, Zenon
  <2> QED
    BY <2>1, <2>2, <2>3, Zenon
<1>3. N = {span \in {Cut(ranges[i]) : i \in 1..n} : span[1] <= span[2] /\ span[1] < size}
  BY <1>1 DEF Normalized, ToSet
<1> HIDE DEF N, Cut, n
<1>4. ASSUME NEW span \in N
      PROVE  span \in Cuts(size) /\ \E i \in 1..n : span = Cut(ranges[i])
  <2>1. PICK i \in 1..n : span = Cut(ranges[i]) /\ span[1] <= span[2] /\ span[1] < size
    BY <1>3
  <2>2. PICK a \in Nat, b \in Nat : a = ranges[i][1] /\ b = ranges[i][2]
    BY <1>1
  <2>3. span = <<a, IF b <= size - 1 THEN b ELSE size - 1>>
    BY <1>1, <1>2, <2>1, <2>2
  <2>4. span \in Cuts(size)
    BY <2>1, <2>3 DEF Cuts
  <2> QED
    BY <2>1, <2>4
<1>5. IsFiniteSet(N)
  <2>1. IsFiniteSet(1..n) /\ 0 \in Int /\ 1 \in Int
    BY <1>1, FS_Interval
  <2> DEFINE f == [i \in {i \in 1..n : Cut(ranges[i]) \in N} |-> Cut(ranges[i])]
             D == {i \in 1..n : Cut(ranges[i]) \in N}
  <2>2. IsFiniteSet(D)
    BY <2>1, FS_Subset
  <2>3. f \in Surjection(D, N)
    BY <1>4 DEF Surjection
  <2> HIDE DEF f, D
  <2> QED
    BY <2>2, <2>3, FS_Surjection
<1>6. ASSUME NEW x \in Int
      PROVE  (\E span \in N : span[1] <= x /\ x <= span[2]) <=> (x \in 0..(size - 1) /\ Covers(ranges, x))
  <2>1. ASSUME NEW span \in N, span[1] <= x, x <= span[2] PROVE x \in 0..(size - 1) /\ Covers(ranges, x)
    <3>1. PICK i \in 1..n : span = Cut(ranges[i])
      BY <1>4
    <3>2. PICK a \in Nat, b \in Nat : a = ranges[i][1] /\ b = ranges[i][2]
      BY <1>1
    <3>3. span = <<a, IF b <= size - 1 THEN b ELSE size - 1>>
      BY <1>1, <1>2, <3>1, <3>2
    <3>4. a <= x /\ x <= b /\ x <= size - 1 /\ x >= 0
      BY <2>1, <3>3
    <3> QED
      BY <3>2, <3>4 DEF Covers, n
  <2>2. ASSUME x \in 0..(size - 1), Covers(ranges, x) PROVE \E span \in N : span[1] <= x /\ x <= span[2]
    <3>1. PICK i \in 1..n : ranges[i][1] <= x /\ x <= ranges[i][2]
      BY <2>2 DEF Covers, n
    <3>2. PICK a \in Nat, b \in Nat : a = ranges[i][1] /\ b = ranges[i][2]
      BY <1>1
    <3>3. Cut(ranges[i]) = <<a, IF b <= size - 1 THEN b ELSE size - 1>>
      BY <1>1, <1>2, <3>2
    <3> DEFINE span == Cut(ranges[i])
    <3>4. span[1] <= x /\ x <= span[2] /\ span[1] <= span[2] /\ span[1] < size
      <4>1. a <= x /\ x <= b /\ x <= size - 1
        BY <2>2, <3>1, <3>2
      <4>2. span[1] = a /\ span[2] = IF b <= size - 1 THEN b ELSE size - 1
        BY <3>3
      <4> HIDE DEF span
      <4> QED
        BY <4>1, <4>2
    <3>5. span \in N
      BY <1>3, <3>4
    <3> QED
      BY <3>4, <3>5
  <2> QED
    BY <2>1, <2>2
<1> QED
  BY <1>4, <1>5, <1>6 DEF N

(* The merged ranges lie apart and cover what the ranges cover of the      *)
(* file.                                                                   *)
LEMMA MergedAre ==
  ASSUME NEW size \in Nat, NEW ranges \in Seq(Nat \X Nat)
  PROVE  /\ MergeRanges(ranges, size) \in Seq(Cuts(size)) /\ Apart(MergeRanges(ranges, size))
         /\ \A x \in Int : Covers(MergeRanges(ranges, size), x)
                             <=> (x \in 0..(size - 1) /\ Covers(ranges, x))
<1> DEFINE spans == Normalized(ranges, size)
           n == Cardinality(spans)
           sorted == InOrder(spans)
           A == Seq(Cuts(size))
           b == <<>>
           Body(f) == [i \in 0..n |-> IF i = 0 THEN b ELSE Join(f[i - 1], sorted[i])]
           u == CHOOSE f : f = Body(f)
           step == [i \in 1..n |-> [a \in A |-> Join(a, sorted[i])]]
<1>1. /\ IsFiniteSet(spans) /\ spans \subseteq Cuts(size)
      /\ \A x \in Int : (\E span \in spans : span[1] <= x /\ x <= span[2])
                          <=> (x \in 0..(size - 1) /\ Covers(ranges, x))
  BY NormalizedAre
<1>2. /\ n \in Nat
      /\ \A i \in 1..n : sorted[i] \in spans
      /\ \A x \in spans : \E i \in 1..n : sorted[i] = x
      /\ \A i, j \in 1..n : i < j => Before(sorted[i], sorted[j])
  <2> HIDE DEF spans
  <2>1. spans \subseteq Int \X Int
    BY <1>1 DEF Cuts
  <2> QED
    BY <1>1, <2>1, Sorted
<1>3. (\E f : f = Body(f)) => u = Body(u)
  BY Zenon
<1>4. MergeRanges(ranges, size) = u[n]
  BY Zenon DEF MergeRanges
<1>5. b \in A /\ Len(b) = 0
  OBVIOUS
<1>6. \A i \in 1..n : sorted[i] \in Cuts(size)
  BY <1>1, <1>2
<1> HIDE DEF spans, n, sorted, u
<1>7. ASSUME NEW i \in 1..n, NEW a \in A PROVE Join(a, sorted[i]) \in A
  <2>1. PICK next \in Cuts(size) : next = sorted[i]
    BY <1>6
  <2>2. Append(a, next) \in A
    OBVIOUS
  <2>3. ASSUME Len(a) # 0, ~(next[1] > a[Len(a)][2] + 1)
        PROVE  [a EXCEPT ![Len(a)] = <<a[Len(a)][1], Max({a[Len(a)][2], next[2]})>>] \in A
    <3>1. PICK k \in 1..Len(a) : k = Len(a)
      BY <2>3
    <3>2. a[k] \in Cuts(size)
      OBVIOUS
    <3>3. PICK c \in Nat, d \in Nat, e \in Nat : a[k][1] = c /\ a[k][2] = d /\ next[2] = e /\ c <= d /\ d < size /\ e < size
      BY <3>2 DEF Cuts
    <3>4. Max({d, e}) = IF d >= e THEN d ELSE e
      BY TwoOf
    <3>5. <<c, Max({d, e})>> \in Cuts(size)
      <4>1. PICK g \in Nat : g = Max({d, e}) /\ c <= g /\ g < size
        BY <3>3, <3>4
      <4>2. <<c, g>> \in Nat \X Nat /\ <<c, g>>[1] = c /\ <<c, g>>[2] = g
        OBVIOUS
      <4> QED
        BY <4>1, <4>2 DEF Cuts
    <3>6. [a EXCEPT ![k] = <<c, Max({d, e})>>] \in A
      BY <3>5
    <3> QED
      BY <3>1, <3>3, <3>6
  <2> HIDE DEF A
  <2> QED
    BY <2>1, <2>2, <2>3 DEF Join
<1> HIDE DEF A, b
<1>8. step \in [1..n -> [A -> A]] /\ \A i \in 1..n, a \in A : step[i][a] = Join(a, sorted[i])
  BY <1>7
<1> HIDE DEF step
<1>9. PICK f : IsRun(f, A, b, n, step)
  BY <1>2, <1>5, <1>8, LoopRuns
<1>10. f = Body(f)
  <2>1. ASSUME NEW i \in 1..n PROVE f[i] = Join(f[i - 1], sorted[i])
    <3>1. i - 1 \in 0..n
      BY <1>2
    <3>2. f[i - 1] \in A
      BY <1>9, <3>1 DEF IsRun
    <3> QED
      BY <1>8, <1>9, <3>2 DEF IsRun
  <2>2. \A i \in 0..n : f[i] = IF i = 0 THEN b ELSE Join(f[i - 1], sorted[i])
    BY <1>2, <1>9, <2>1 DEF IsRun
  <2> QED
    BY <1>9, <2>2 DEF IsRun
<1>11. u = Body(u)
  BY <1>3, <1>10
<1>12. u[0] = b /\ \A i \in 1..n : u[i] = Join(u[i - 1], sorted[i])
  <2>1. \A i \in 0..n : u[i] = IF i = 0 THEN b ELSE Join(u[i - 1], sorted[i])
    BY <1>11
  <2> QED
    BY <1>2, <2>1
<1> HIDE DEF Body
<1> DEFINE Seen(i, x) == \E t \in 1..i : sorted[t][1] <= x /\ x <= sorted[t][2]
           Good(i) == /\ u[i] \in Seq(Cuts(size)) /\ Apart(u[i]) /\ (Len(u[i]) > 0 => i > 0 /\ u[i][Len(u[i])][1] <= sorted[i][1])
                      /\ \A x \in Int : Covers(u[i], x) <=> Seen(i, x)
           G == {i \in 0..n : Good(i)}
<1>13. 0 \in G
  <2>1. u[0] \in Seq(Cuts(size)) /\ Len(u[0]) = 0
    BY <1>5, <1>12 DEF A
  <2>2. Apart(u[0]) /\ \A x \in Int : ~Covers(u[0], x) /\ ~Seen(0, x)
    BY <2>1 DEF Apart, Covers
  <2> QED
    BY <1>2, <2>1, <2>2
<1>14. ASSUME NEW i \in 1..n, i - 1 \in G PROVE i \in G
  <2>0. PICK m : m = u[i - 1]
    OBVIOUS
  <2>1. PICK next \in Cuts(size) : next = sorted[i]
    BY <1>6
  <2>2. /\ m \in Seq(Cuts(size)) /\ Apart(m) /\ (Len(m) > 0 => i - 1 > 0 /\ m[Len(m)][1] <= sorted[i - 1][1])
        /\ \A x \in Int : Covers(m, x) <=> Seen(i - 1, x)
    BY <1>14, <2>0
  <2>3. Len(m) > 0 => m[Len(m)][1] <= next[1]
    <3> SUFFICES ASSUME Len(m) > 0 PROVE m[Len(m)][1] <= next[1]
      OBVIOUS
    <3>1. i - 1 \in 1..n /\ i - 1 < i
      BY <1>2, <2>2
    <3>2. Before(sorted[i - 1], sorted[i])
      BY <1>2, <3>1
    <3>3. sorted[i - 1] \in Cuts(size) /\ m[Len(m)] \in Cuts(size)
      <4>1. Len(m) \in 1..Len(m)
        BY <2>2
      <4> QED
        BY <1>6, <2>2, <3>1, <4>1
    <3>4. PICK a \in Nat, c \in Nat, e \in Nat : a = m[Len(m)][1] /\ c = sorted[i - 1][1] /\ e = next[1]
      BY <3>3 DEF Cuts
    <3>5. c <= e /\ a <= c
      BY <2>1, <2>2, <3>2, <3>4 DEF Before
    <3>6. a <= e
      BY <3>5
    <3> QED
      BY <3>4, <3>6, Zenon
  <2>4. u[i] = Join(m, next)
    BY <1>12, <2>0, <2>1
  <2> DEFINE j == Join(m, next)
  <2>5. /\ j \in Seq(Cuts(size)) /\ Len(j) > 0 /\ Apart(j) /\ j[Len(j)][1] <= next[1]
        /\ \A x \in Int : Covers(j, x) <=> Covers(m, x) \/ (next[1] <= x /\ x <= next[2])
    BY <2>2, <2>3, JoinAdds
  <2> HIDE DEF j
  <2>6. ASSUME NEW x \in Int PROVE Covers(j, x) <=> Seen(i, x)
    <3>1. Seen(i, x) <=> Seen(i - 1, x) \/ (next[1] <= x /\ x <= next[2])
      <4>1. ASSUME NEW t \in 1..i PROVE t \in 1..(i - 1) \/ t = i
        BY <1>2
      <4>2. ASSUME NEW t \in 1..(i - 1) PROVE t \in 1..i
        BY <1>2
      <4>3. i \in 1..i
        BY <1>2
      <4>4. Seen(i, x) => Seen(i - 1, x) \/ (next[1] <= x /\ x <= next[2])
        BY <2>1, <4>1
      <4>5. Seen(i - 1, x) => Seen(i, x)
        BY <4>2
      <4>6. next[1] <= x /\ x <= next[2] => Seen(i, x)
        BY <2>1, <4>3
      <4> QED
        BY <4>4, <4>5, <4>6
    <3> HIDE DEF Seen
    <3> QED
      BY <2>2, <2>5, <3>1
  <2>7. u[i] = j /\ sorted[i] = next /\ i > 0 /\ i \in 0..n
    BY <1>2, <2>1, <2>4 DEF j
  <2> HIDE DEF Seen
  <2> QED
    BY <2>5, <2>6, <2>7
<1>15. n \in G
  <2> HIDE DEF G
  <2>1. 0..n \subseteq G
    BY <1>2, <1>13, <1>14, UpTo
  <2> QED
    BY <1>2, <2>1
<1>16. u[n] \in Seq(Cuts(size)) /\ Apart(u[n]) /\ \A x \in Int : Covers(u[n], x) <=> Seen(n, x)
  BY <1>15
<1>17. ASSUME NEW x \in Int PROVE Seen(n, x) <=> \E span \in spans : span[1] <= x /\ x <= span[2]
  BY <1>2
<1> HIDE DEF Seen, Good, G
<1> QED
  BY <1>1, <1>4, <1>16, <1>17

(* Ranges that lie apart and cover the whole file are one range.           *)
LEMMA WholeMeans ==
  ASSUME NEW size \in Nat \ {0}, NEW m \in Seq(Cuts(size)), Apart(m), \A x \in 0..(size - 1) : Covers(m, x)
  PROVE  m = <<<<0, size - 1>>>>
<1>1. Len(m) \in Nat /\ \A t \in 1..Len(m) : m[t] \in Nat \X Nat /\ m[t][1] \in Nat /\ m[t][2] \in Nat
                                            /\ m[t][1] <= m[t][2] /\ m[t][2] < size
  <2>1. \A t \in 1..Len(m) : m[t] \in Cuts(size)
    OBVIOUS
  <2> QED
    BY <2>1 DEF Cuts
<1>2. PICK t \in 1..Len(m) : m[t][1] <= 0 /\ 0 <= m[t][2]
  <2>1. 0 \in 0..(size - 1)
    OBVIOUS
  <2> QED
    BY <2>1 DEF Covers
<1>3. m[t][1] = 0
  BY <1>1, <1>2
<1>4. m[t][2] = size - 1
  <2> SUFFICES ASSUME m[t][2] # size - 1 PROVE FALSE
    OBVIOUS
  <2>1. m[t][2] + 1 \in 0..(size - 1)
    BY <1>1
  <2>2. PICK u \in 1..Len(m) : m[u][1] <= m[t][2] + 1 /\ m[t][2] + 1 <= m[u][2]
    BY <2>1 DEF Covers
  <2>3. u # t
    BY <1>1, <2>2
  <2>4. CASE t < u
    BY <1>1, <2>2, <2>4 DEF Apart
  <2>5. CASE u < t
    <3>1. m[t][1] > m[u][2] + 1
      BY <2>5 DEF Apart
    <3> QED
      BY <1>1, <1>3, <3>1
  <2> QED
    BY <2>3, <2>4, <2>5
<1>5. ASSUME NEW u \in 1..Len(m) PROVE u = t
  <2>1. CASE t < u
    <3>1. m[u][1] > m[t][2] + 1
      BY <2>1 DEF Apart
    <3> QED
      BY <1>1, <1>4, <3>1
  <2>2. CASE u < t
    <3>1. m[t][1] > m[u][2] + 1
      BY <2>2 DEF Apart
    <3> QED
      BY <1>1, <1>3, <3>1
  <2> QED
    BY <2>1, <2>2
<1>6. Len(m) = 1 /\ t = 1
  <2>1. 1 \in 1..Len(m) /\ Len(m) \in 1..Len(m)
    BY <1>1
  <2> QED
    BY <1>5, <2>1
<1>7. m[1] = <<0, size - 1>>
  BY <1>1, <1>3, <1>4, <1>6
<1>8. PICK e : e = <<0, size - 1>>
  OBVIOUS
<1>9. m = [i \in 1..1 |-> m[i]]
  BY <1>6
<1>10. <<e>> = [i \in 1..1 |-> e]
  OBVIOUS
<1>11. m = <<e>>
  BY <1>7, <1>8, <1>9, <1>10
<1> QED
  BY <1>8, <1>11

-----------------------------------------------------------------------------
(* The bytes of the chunks of a range *)

(* The first and the last byte of a job of a range, and where the writer   *)
(* stands before it.                                                       *)
First(range, j) == Max({range[1], (range[1] \div Window + j - 1) * Window})
Final(range, j) == Min({range[2], (range[1] \div Window + j - 1) * Window + Window - 1})
Reached(range, j) == IF j > Jobs(range) THEN range[2] + 1 ELSE First(range, j)

(* Division by the window.                                                 *)
LEMMA Windows ==
  ASSUME NEW a \in Nat
  PROVE  Window \in Nat \ {0} /\ a \div Window \in Nat
         /\ (a \div Window) * Window <= a /\ a < (a \div Window) * Window + Window
<1>1. Window \in Nat \ {0}
  BY DeliveryAssumption DEF DeliveryAssumption
<1> QED
  BY <1>1

(* Multiples of the window.                                                *)
LEMMA Multiples ==
  ASSUME NEW W \in Nat \ {0}, NEW a \in Int, NEW b \in Int
  PROVE  a * W \in Int /\ (a < b => a * W + W <= b * W) /\ (a <= b => a * W <= b * W) /\ (a + 1) * W = a * W + W
<1>1. a * W \in Int /\ (a + 1) * W = a * W + W
  OBVIOUS
<1>2. a <= b => a * W <= b * W
  OBVIOUS
<1>3. a < b => (a + 1) * W <= b * W
  OBVIOUS
<1> QED
  BY <1>1, <1>2, <1>3

(* The jobs of a range follow one another and end with the range.          *)
LEMMA JobsFollow ==
  ASSUME NEW range \in Nat \X Nat, range[1] <= range[2]
  PROVE  /\ Jobs(range) \in Nat \ {0} /\ Reached(range, 1) = range[1]
         /\ \A j \in 1..Jobs(range) :
                /\ First(range, j) \in Nat /\ Final(range, j) \in Nat
                /\ range[1] <= First(range, j) /\ First(range, j) <= Final(range, j) /\ Final(range, j) <= range[2]
                /\ Reached(range, j) = First(range, j) /\ Reached(range, j + 1) = Final(range, j) + 1
<1>1. PICK a \in Nat, b \in Nat : a = range[1] /\ b = range[2] /\ a <= b
  OBVIOUS
<1>2. PICK W \in Nat \ {0} : W = Window
  BY DeliveryAssumption DEF DeliveryAssumption
<1>3. PICK p \in Nat, q \in Nat : p = a \div W /\ q = b \div W
  BY <1>2, Windows
<1>4. p * W <= a /\ a < p * W + W /\ q * W <= b /\ b < q * W + W /\ p * W \in Nat /\ q * W \in Nat
  BY <1>2, <1>3, Windows
<1>5. p <= q
  <2> SUFFICES ASSUME q < p PROVE FALSE
    OBVIOUS
  <2>1. q * W + W <= p * W
    BY Multiples
  <2> QED
    BY <1>1, <1>4, <2>1
<1>6. Jobs(range) = q - p + 1 /\ Jobs(range) \in Nat \ {0}
  <2>1. Jobs(range) = q - p + 1
    BY <1>1, <1>2, <1>3 DEF Jobs
  <2> QED
    BY <1>5, <2>1
<1>7. ASSUME NEW j \in Nat \ {0}
      PROVE  LET s == (p + j - 1) * W IN
             /\ s \in Int
             /\ First(range, j) = IF a >= s THEN a ELSE s
             /\ Final(range, j) = IF b <= s + W - 1 THEN b ELSE s + W - 1
  <2> DEFINE s == (p + j - 1) * W
  <2>1. s \in Int /\ s + W - 1 \in Int
    OBVIOUS
  <2>2. First(range, j) = Max({a, s}) /\ Final(range, j) = Min({b, s + W - 1})
    BY <1>1, <1>2, <1>3 DEF First, Final
  <2> HIDE DEF s
  <2>3. Max({a, s}) = (IF a >= s THEN a ELSE s) /\ Min({b, s + W - 1}) = IF b <= s + W - 1 THEN b ELSE s + W - 1
    <3>1. a \in Int /\ b \in Int
      OBVIOUS
    <3> QED
      BY <2>1, <3>1, TwoOf, Zenon
  <2> QED
    BY <2>1, <2>2, <2>3 DEF s
<1>8. First(range, 1) = a
  <2>1. (p + 1 - 1) * W = p * W
    OBVIOUS
  <2>2. First(range, 1) = IF a >= (p + 1 - 1) * W THEN a ELSE (p + 1 - 1) * W
    BY <1>7
  <2> QED
    BY <1>4, <2>1, <2>2
<1>9. ASSUME NEW j \in 1..Jobs(range)
      PROVE  /\ First(range, j) \in Nat /\ Final(range, j) \in Nat
             /\ a <= First(range, j) /\ First(range, j) <= Final(range, j) /\ Final(range, j) <= b
             /\ Reached(range, j) = First(range, j) /\ Reached(range, j + 1) = Final(range, j) + 1
  <2>0. j \in Nat \ {0} /\ j + 1 \in Nat \ {0} /\ j <= q - p + 1
    BY <1>6
  <2>1. PICK s \in Int : s = (p + j - 1) * W
    BY <2>0
  <2>2. First(range, j) = (IF a >= s THEN a ELSE s) /\ Final(range, j) = IF b <= s + W - 1 THEN b ELSE s + W - 1
    BY <1>7, <2>0, <2>1
  <2>3. p * W <= s /\ s <= q * W
    BY <1>6, <2>0, <2>1, Multiples
  <2>4. Reached(range, j) = First(range, j)
    BY <1>6, <2>0 DEF Reached
  <2>5. CASE j = Jobs(range)
    <3>1. s = q * W
      BY <1>6, <2>1, <2>5
    <3>2. Reached(range, j + 1) = b + 1
      BY <1>1, <1>6, <2>0, <2>5 DEF Reached
    <3> QED
      BY <1>1, <1>4, <2>2, <2>3, <2>4, <3>1, <3>2
  <2>6. CASE j < Jobs(range)
    <3>1. s + W <= q * W
      <4>1. p + j - 1 < q /\ p + j - 1 \in Int
        BY <1>6, <2>0, <2>6
      <4> QED
        BY <2>1, <4>1, Multiples
    <3>2. (p + (j + 1) - 1) * W = s + W
      <4>1. p + (j + 1) - 1 = (p + j - 1) + 1
        BY <2>0
      <4>2. p + j - 1 \in Int
        BY <2>0
      <4> QED
        BY <2>1, <4>1, <4>2, Multiples
    <3>3. First(range, j + 1) = IF a >= s + W THEN a ELSE s + W
      BY <1>7, <2>0, <3>2
    <3>4. Reached(range, j + 1) = First(range, j + 1)
      BY <1>6, <2>0, <2>6 DEF Reached
    <3>5. a < s + W
      BY <1>4, <2>3
    <3>6. First(range, j + 1) = s + W /\ Final(range, j) = s + W - 1
      BY <1>4, <2>2, <3>1, <3>3, <3>5
    <3> QED
      BY <1>1, <1>4, <2>2, <2>3, <2>4, <3>1, <3>4, <3>5, <3>6
  <2> QED
    BY <1>6, <2>0, <2>5, <2>6
<1>10. Reached(range, 1) = a
  BY <1>6, <1>8 DEF Reached
<1> QED
  BY <1>1, <1>6, <1>9, <1>10

(* A slice that is not short has the bytes of its job.                     *)
LEMMA SliceIs ==
  ASSUME NEW range \in Nat \X Nat, range[1] <= range[2], NEW j \in 1..Jobs(range), remote.size \in Nat,
         ~Short(Reply(Job(range, j)), Job(range, j))
  PROVE  Slice(Reply(Job(range, j)), Job(range, j)) = Bytes(<<First(range, j), Final(range, j)>>)
<1> DEFINE job == Job(range, j)
<1>1. PICK from \in Nat, to \in Nat : from = First(range, j) /\ to = Final(range, j) /\ from <= to
  BY JobsFollow
<1>2. PICK W \in Nat \ {0}, A \in Nat \ {0} : W = Window /\ A = Align
  BY DeliveryAssumption DEF DeliveryAssumption
<1>3. PICK mod \in Nat : mod = from % A
  <2>1. from % A \in 0..(A - 1)
    OBVIOUS
  <2>2. from % A \in Nat
    BY <2>1
  <2> QED
    BY <2>2
<1>4. /\ job.offset = from - mod /\ job.skip = mod /\ job.take = to - from + 1
      /\ job.limit \in Int
  <2>1. PICK start \in Int : start = (range[1] \div Window + j - 1) * Window
    <3>1. range[1] \div Window \in Nat /\ j \in Int
      BY Windows, JobsFollow
    <3> QED
      BY <1>2, <3>1
  <2>2. from = Max({range[1], start}) /\ to = Min({range[2], start + Window - 1})
    BY <1>1, <2>1 DEF First, Final
  <2>3. job = [offset |-> from - (from % Align), limit |-> Min({AlignUp(to + 1), start + Window}) - (from - (from % Align)),
               skip |-> from - (from - (from % Align)), take |-> to - from + 1]
    BY <2>1, <2>2, Zenon DEF Job
  <2>4. PICK up \in Int : up = AlignUp(to + 1)
    <3>1. AlignUp(to + 1) = ((to + 1 + A - 1) \div A) * A
      BY <1>2 DEF AlignUp
    <3> QED
      BY <3>1
  <2>5. PICK lim \in Int : lim = Min({up, start + W})
    <3>1. Min({up, start + W}) = IF up <= start + W THEN up ELSE start + W
      <4>1. start + W \in Int
        BY <1>2
      <4> QED
        BY <4>1, TwoOf, Zenon
    <3> QED
      BY <3>1
  <2> HIDE DEF job
  <2>6. job = [offset |-> from - mod, limit |-> lim - (from - mod), skip |-> from - (from - mod), take |-> to - from + 1]
    BY <1>2, <1>3, <2>3, <2>4, <2>5, Zenon
  <2> QED
    BY <2>6
<1> HIDE DEF job
<1>5. PICK L \in Nat : L = Max({0, Min({job.limit, remote.size - job.offset})})
  <2>1. PICK x \in Int, y \in Int : x = job.limit /\ y = remote.size - job.offset
    BY <1>3, <1>4
  <2>2. PICK z \in Int : z = Min({x, y})
    <3>1. Min({x, y}) = IF x <= y THEN x ELSE y
      BY TwoOf, Zenon
    <3> QED
      BY <3>1
  <2>3. Max({0, z}) = IF 0 >= z THEN 0 ELSE z
    BY TwoOf
  <2>4. Max({0, z}) \in Nat
    BY <2>3
  <2> QED
    BY <2>1, <2>2, <2>4, Zenon
<1>6. Reply(job) = [i \in 1..L |-> from - mod + i - 1]
  BY <1>4, <1>5 DEF Reply
<1>7. Reply(job) \in Seq(Int) /\ Len(Reply(job)) = L /\ \A i \in 1..L : Reply(job)[i] = from - mod + i - 1
  BY <1>3, <1>6
<1>8. mod + (to - from + 1) <= L
  BY <1>3, <1>4, <1>7 DEF Short, job
<1> DEFINE data == Reply(job)
           n == to - from + 1
<1>9. n \in Nat /\ n > 0
  BY <1>1
<1>10. Slice(data, job) = SubSeq(data, mod + 1, mod + n)
  BY <1>4 DEF Slice
<1> HIDE DEF data, n
<1>11. SubSeq(data, mod + 1, mod + n) = [i \in 1..n |-> from + i - 1]
  <2>1. data \in Seq(Int) /\ Len(data) = L /\ mod + n <= L /\ \A i \in 1..L : data[i] = from - mod + i - 1
    BY <1>7, <1>8 DEF data, n
  <2>2. SubSeq(data, mod + 1, mod + n) = [i \in 1..n |-> data[mod + i]]
    <3> DEFINE part == SubSeq(data, mod + 1, mod + n)
    <3>1. part \in Seq(Int) /\ Len(part) = n /\ \A i \in 1..n : part[i] = data[mod + i]
      BY <1>3, <1>9, <2>1
    <3> HIDE DEF part
    <3>2. part = [i \in 1..n |-> part[i]]
      BY <3>1
    <3>3. part = [i \in 1..n |-> data[mod + i]]
      BY <3>1, <3>2
    <3> QED
      BY <3>3 DEF part
  <2>3. ASSUME NEW i \in 1..n PROVE data[mod + i] = from + i - 1
    <3>1. mod + i \in 1..L
      BY <1>3, <1>9, <2>1
    <3>2. data[mod + i] = from - mod + (mod + i) - 1
      BY <2>1, <3>1
    <3> QED
      BY <1>3, <1>9, <3>2
  <2> QED
    BY <2>2, <2>3
<1>12. Bytes(<<from, to>>) = [i \in 1..n |-> from + i - 1]
  <2>1. Length(<<from, to>>) = n
    BY <1>1 DEF Length, n
  <2> QED
    BY <2>1 DEF Bytes
<1> QED
  BY <1>1, <1>10, <1>11, <1>12 DEF job, data

(* Bytes that follow one another are the bytes of the whole.               *)
LEMMA BytesJoin ==
  ASSUME NEW a \in Nat, NEW b \in Nat, NEW c \in Nat, a <= b, b <= c
  PROVE  Bytes(<<a, b - 1>>) \o Bytes(<<b, c - 1>>) = Bytes(<<a, c - 1>>)
<1>1. ASSUME NEW x \in Nat, NEW y \in Nat, x <= y
      PROVE  Bytes(<<x, y - 1>>) = [i \in 1..(y - x) |-> x + i - 1]
  <2>1. Length(<<x, y - 1>>) = y - x
    BY <1>1 DEF Length
  <2> QED
    BY <2>1 DEF Bytes
<1> DEFINE s == [i \in 1..(b - a) |-> a + i - 1]
           t == [i \in 1..(c - b) |-> b + i - 1]
           u == [i \in 1..(c - a) |-> a + i - 1]
<1>2. /\ s \in Seq(Int) /\ Len(s) = b - a /\ t \in Seq(Int) /\ Len(t) = c - b
      /\ \A i \in 1..(b - a) : s[i] = a + i - 1
      /\ \A i \in 1..(c - b) : t[i] = b + i - 1
  OBVIOUS
<1> HIDE DEF s, t
<1> DEFINE v == s \o t
<1>3. /\ v \in Seq(Int) /\ Len(v) = c - a /\ (\A i \in 1..(b - a) : v[i] = s[i])
      /\ \A i \in 1..(c - b) : v[b - a + i] = t[i]
  <2>1. \A p, q \in Seq(Int) : /\ p \o q \in Seq(Int) /\ Len(p \o q) = Len(p) + Len(q)
                               /\ \A i \in 1..Len(p) : (p \o q)[i] = p[i]
                               /\ \A i \in 1..Len(q) : (p \o q)[Len(p) + i] = q[i]
    OBVIOUS
  <2>2. b - a + (c - b) = c - a
    OBVIOUS
  <2>3. v \in Seq(Int) /\ Len(v) = b - a + (c - b)
    BY <1>2, <2>1
  <2>4. \A i \in 1..(b - a) : v[i] = s[i]
    BY <1>2, <2>1
  <2>5. \A i \in 1..(c - b) : v[b - a + i] = t[i]
    <3>1. \A i \in 1..Len(t) : (s \o t)[Len(s) + i] = t[i]
      BY <1>2, <2>1
    <3> QED
      BY <1>2, <3>1
  <2> QED
    BY <2>2, <2>3, <2>4, <2>5
<1> HIDE DEF v
<1>4. ASSUME NEW i \in 1..(c - a) PROVE v[i] = a + i - 1
  <2>1. CASE i <= b - a
    BY <1>2, <1>3, <2>1
  <2>2. CASE ~(i <= b - a)
    <3>1. i - (b - a) \in 1..(c - b) /\ b - a + (i - (b - a)) = i
      BY <2>2
    <3>2. v[b - a + (i - (b - a))] = t[i - (b - a)]
      BY <1>3, <3>1
    <3> QED
      BY <1>2, <3>1, <3>2
  <2> QED
    BY <2>1, <2>2
<1>5. v = u
  <2>1. v = [i \in 1..(c - a) |-> v[i]]
    BY <1>3
  <2> QED
    BY <1>4, <2>1
<1>6. Bytes(<<a, b - 1>>) = s /\ Bytes(<<b, c - 1>>) = t /\ Bytes(<<a, c - 1>>) = u
  <2>1. a <= c
    OBVIOUS
  <2>2. Bytes(<<a, b - 1>>) = s
    BY <1>1 DEF s
  <2>3. Bytes(<<b, c - 1>>) = t
    BY <1>1 DEF t
  <2>4. Bytes(<<a, c - 1>>) = u
    BY <1>1, <2>1
  <2> QED
    BY <2>2, <2>3, <2>4
<1> QED
  BY <1>5, <1>6 DEF v

-----------------------------------------------------------------------------
(* What is sent *)

(* Concatenation is associative.                                           *)
LEMMA Associative ==
  ASSUME NEW a \in Seq(Nat), NEW b \in Seq(Nat), NEW c \in Seq(Nat)
  PROVE  (a \o b) \o c = a \o (b \o c)
<1> DEFINE x == (a \o b) \o c
           y == a \o (b \o c)
<1>1. PICK k \in Nat, m \in Nat, n \in Nat : k = Len(a) /\ m = Len(b) /\ n = Len(c)
  OBVIOUS
<1>2. \A p, q \in Seq(Nat) : /\ p \o q \in Seq(Nat) /\ Len(p \o q) = Len(p) + Len(q)
                             /\ \A i \in 1..Len(p) : (p \o q)[i] = p[i]
                             /\ \A i \in 1..Len(q) : (p \o q)[Len(p) + i] = q[i]
  OBVIOUS
<1>3. /\ x \in Seq(Nat) /\ Len(x) = k + m + n /\ (\A i \in 1..(k + m) : x[i] = (a \o b)[i])
      /\ (\A i \in 1..n : x[k + m + i] = c[i]) /\ (\A i \in 1..k : (a \o b)[i] = a[i])
      /\ \A i \in 1..m : (a \o b)[k + i] = b[i]
  BY <1>1, <1>2
<1>4. /\ y \in Seq(Nat) /\ Len(y) = k + (m + n) /\ (\A i \in 1..k : y[i] = a[i])
      /\ (\A i \in 1..(m + n) : y[k + i] = (b \o c)[i]) /\ (\A i \in 1..m : (b \o c)[i] = b[i])
      /\ \A i \in 1..n : (b \o c)[m + i] = c[i]
  BY <1>1, <1>2
<1> HIDE DEF x, y
<1>5. ASSUME NEW i \in 1..(k + m + n) PROVE x[i] = y[i]
  <2>1. CASE i \in 1..k
    <3>1. i \in 1..(k + m)
      BY <2>1
    <3> QED
      BY <1>3, <1>4, <2>1, <3>1
  <2>2. CASE i \in (k + 1)..(k + m)
    <3>1. PICK j \in 1..m : i = k + j
      <4>1. i - k \in 1..m /\ i = k + (i - k)
        BY <2>2
      <4> QED
        BY <4>1
    <3>2. j \in 1..(m + n) /\ k + j \in 1..(k + m)
      OBVIOUS
    <3>3. x[k + j] = b[j]
      BY <1>3, <3>2
    <3>4. y[k + j] = b[j]
      BY <1>4, <3>2
    <3> QED
      BY <3>1, <3>3, <3>4
  <2>3. CASE i \in (k + m + 1)..(k + m + n)
    <3>1. PICK j \in 1..n : i = k + m + j
      <4>1. i - (k + m) \in 1..n /\ i = k + m + (i - (k + m))
        BY <2>3
      <4> QED
        BY <4>1
    <3>2. m + j \in 1..(m + n) /\ i = k + (m + j)
      BY <3>1
    <3>3. x[i] = c[j]
      BY <1>3, <3>1
    <3>4. y[i] = (b \o c)[m + j]
      BY <1>4, <3>2
    <3> QED
      BY <1>4, <3>3, <3>4
  <2> QED
    BY <2>1, <2>2, <2>3
<1>6. x = [i \in 1..(k + m + n) |-> x[i]] /\ y = [i \in 1..(k + m + n) |-> y[i]]
  BY <1>3, <1>4
<1>7. x = y
  BY <1>5, <1>6
<1> QED
  BY <1>7 DEF x, y

(* What was promised begins with the ranges already sent.                  *)
LEMMA UptoGrows ==
  ASSUME NEW ranges \in Seq(Nat \X Nat), NEW i \in 0..Len(ranges)
  PROVE  \E rest \in Seq(Nat) : Upto(ranges)[Len(ranges)] = Upto(ranges)[i] \o rest
<1>1. PICK n \in Nat : n = Len(ranges)
  OBVIOUS
<1>2. PICK u : u = Upto(ranges)
  OBVIOUS
<1>3. /\ \A k \in 0..n : u[k] \in Seq(Nat)
      /\ \A k \in 1..n : u[k] = u[k - 1] \o Bytes(ranges[k]) /\ Bytes(ranges[k]) \in Seq(Nat)
  <2>1. \A k \in 1..n : ranges[k] \in Nat \X Int
    BY <1>1
  <2> QED
    BY <1>1, <1>2, <2>1, UptoRuns, BytesAre
<1>4. PICK m \in Nat : m = n - i /\ i \in 0..n
  <2>1. i \in 0..n
    BY <1>1
  <2>2. n - i \in Nat
    BY <2>1
  <2> QED
    BY <2>1, <2>2
<1> DEFINE G == {d \in 0..m : \E rest \in Seq(Nat) : u[i + d] = u[i] \o rest}
<1>5. 0 \in G
  <2>1. u[i] \in Seq(Nat) /\ i + 0 = i /\ <<>> \in Seq(Nat)
    BY <1>3, <1>4
  <2>2. u[i] = u[i] \o <<>>
    BY <2>1
  <2>3. \E rest \in Seq(Nat) : u[i + 0] = u[i] \o rest
    BY <2>1, <2>2
  <2>4. 0 \in 0..m
    OBVIOUS
  <2> QED
    BY <2>3, <2>4, Zenon
<1>6. ASSUME NEW d \in 1..m, d - 1 \in G PROVE d \in G
  <2>1. PICK rest \in Seq(Nat) : u[i + (d - 1)] = u[i] \o rest
    BY <1>6
  <2>2. i + d \in 1..n /\ i + (d - 1) = (i + d) - 1 /\ d \in 0..m
    BY <1>4
  <2>3. PICK more \in Seq(Nat) : u[i + d] = u[(i + d) - 1] \o more
    BY <1>3, <2>2
  <2>4. PICK s \in Seq(Nat) : s = u[i]
    BY <1>3, <1>4
  <2>5. u[i + d] = (s \o rest) \o more
    BY <2>1, <2>2, <2>3, <2>4
  <2>6. (s \o rest) \o more = s \o (rest \o more) /\ rest \o more \in Seq(Nat)
    <3>1. rest \o more \in Seq(Nat)
      OBVIOUS
    <3>2. (s \o rest) \o more = s \o (rest \o more)
      BY Associative
    <3> QED
      BY <3>1, <3>2
  <2>7. PICK all \in Seq(Nat) : u[i + d] = u[i] \o all
    BY <2>4, <2>5, <2>6
  <2> QED
    BY <2>2, <2>7
<1>7. m \in G
  <2> HIDE DEF G
  <2>1. 0..m \subseteq G
    BY <1>5, <1>6, UpTo
  <2> QED
    BY <2>1
<1>8. i + m = n
  BY <1>4
<1> QED
  BY <1>1, <1>2, <1>7, <1>8

(* A sequence is a prefix of what continues it.                            *)
LEMMA PrefixMeans ==
  ASSUME NEW s \in Seq(Nat), NEW rest \in Seq(Nat)
  PROVE  IsPrefix(s, s \o rest)
<1> DEFINE t == s \o rest
<1>1. t \in Seq(Nat) /\ Len(t) = Len(s) + Len(rest) /\ \A i \in 1..Len(s) : t[i] = s[i]
  OBVIOUS
<1> HIDE DEF t
<1>2. Len(s) \in Nat /\ Len(rest) \in Nat /\ Len(s) <= Len(t)
  BY <1>1
<1>3. \A w \in Seq(Nat) : Len(s) <= Len(w) => SubSeq(w, 1, Len(s)) = [i \in 1..Len(s) |-> w[i]]
  OBVIOUS
<1>4. SubSeq(s, 1, Len(s)) = [i \in 1..Len(s) |-> s[i]]
  BY <1>2, <1>3
<1>5. SubSeq(t, 1, Len(s)) = [i \in 1..Len(s) |-> t[i]]
  BY <1>1, <1>2, <1>3
<1>6. SubSeq(t, 1, Len(s)) = SubSeq(s, 1, Len(s))
  BY <1>1, <1>4, <1>5
<1> QED
  BY <1>2, <1>6 DEF IsPrefix, t

(* The bytes of all ranges are their positions.                            *)
LEMMA UptoPositions ==
  ASSUME NEW size \in Nat, NEW ranges \in Seq(Cuts(size))
  PROVE  ToSet(Upto(ranges)[Len(ranges)]) = Positions(ranges)
<1>1. PICK n \in Nat : n = Len(ranges)
  OBVIOUS
<1>2. PICK u : u = Upto(ranges)
  OBVIOUS
<1>3. ranges \in Seq(Nat \X Nat) /\ \A k \in 1..n : ranges[k] \in Cuts(size)
  BY <1>1 DEF Cuts
<1>4. \A c \in Cuts(size) : c \in Nat \X Int /\ c[1] \in Nat /\ c[2] \in Nat /\ c[1] <= c[2]
  BY DEF Cuts
<1>5. /\ u[0] = <<>> /\ \A k \in 0..n : u[k] \in Seq(Nat)
      /\ \A k \in 1..n : u[k] = u[k - 1] \o Bytes(ranges[k]) /\ Bytes(ranges[k]) \in Seq(Nat)
  BY <1>1, <1>2, <1>3, <1>4, UptoRuns, BytesAre
<1>6. ASSUME NEW k \in 1..n PROVE ToSet(Bytes(ranges[k])) = ranges[k][1]..ranges[k][2]
  <2>1. PICK a \in Nat, b \in Nat : a = ranges[k][1] /\ b = ranges[k][2] /\ a <= b
    BY <1>3, <1>4
  <2>2. Length(ranges[k]) = b - a + 1
    BY <2>1 DEF Length
  <2>3. Bytes(ranges[k]) = [i \in 1..(b - a + 1) |-> a + i - 1]
    BY <2>1, <2>2 DEF Bytes
  <2>4. ToSet(Bytes(ranges[k])) = {a + i - 1 : i \in 1..(b - a + 1)}
    BY <2>3 DEF ToSet
  <2>5. ASSUME NEW x \in a..b PROVE \E i \in 1..(b - a + 1) : x = a + i - 1
    <3>1. x - a + 1 \in 1..(b - a + 1) /\ x = a + (x - a + 1) - 1
      OBVIOUS
    <3> QED
      BY <3>1
  <2>6. {a + i - 1 : i \in 1..(b - a + 1)} = a..b
    <3>1. \A i \in 1..(b - a + 1) : a + i - 1 \in a..b
      OBVIOUS
    <3>2. {a + i - 1 : i \in 1..(b - a + 1)} \subseteq a..b
      BY <3>1
    <3>3. a..b \subseteq {a + i - 1 : i \in 1..(b - a + 1)}
      BY <2>5
    <3> QED
      BY <3>2, <3>3
  <2> QED
    BY <2>1, <2>4, <2>6
<1>7. ASSUME NEW s \in Seq(Nat), NEW t \in Seq(Nat) PROVE ToSet(s \o t) = ToSet(s) \cup ToSet(t)
  <2>1. DOMAIN s = 1..Len(s) /\ DOMAIN t = 1..Len(t) /\ DOMAIN (s \o t) = 1..(Len(s) + Len(t))
    OBVIOUS
  <2>2. \A i \in 1..Len(s) : (s \o t)[i] = s[i]
    OBVIOUS
  <2>3. \A i \in 1..Len(t) : (s \o t)[Len(s) + i] = t[i]
    OBVIOUS
  <2>4. PICK m \in Nat, k \in Nat : m = Len(s) /\ k = Len(t)
    OBVIOUS
  <2>5. ASSUME NEW i \in 1..(m + k) PROVE i \in 1..m \/ \E j \in 1..k : i = m + j
    <3>1. CASE i <= m
      BY <3>1
    <3>2. CASE i > m
      <4>1. i - m \in 1..k /\ i = m + (i - m)
        BY <3>2
      <4> QED
        BY <4>1
    <3> QED
      BY <3>1, <3>2
  <2>6. \A j \in 1..k : m + j \in 1..(m + k)
    OBVIOUS
  <2>7. \A j \in 1..m : j \in 1..(m + k)
    OBVIOUS
  <2> DEFINE w == s \o t
  <2>8. /\ ToSet(w) = {w[i] : i \in 1..(m + k)} /\ ToSet(s) = {s[i] : i \in 1..m} /\ ToSet(t) = {t[i] : i \in 1..k}
        /\ (\A i \in 1..m : w[i] = s[i]) /\ \A i \in 1..k : w[m + i] = t[i]
    BY <2>1, <2>2, <2>3, <2>4 DEF ToSet
  <2> HIDE DEF w
  <2>9. ToSet(w) \subseteq ToSet(s) \cup ToSet(t)
    <3> SUFFICES ASSUME NEW i \in 1..(m + k) PROVE w[i] \in ToSet(s) \cup ToSet(t)
      BY <2>8
    <3>1. CASE i \in 1..m
      BY <2>8, <3>1
    <3>2. ASSUME NEW j \in 1..k, i = m + j PROVE w[i] \in ToSet(t)
      BY <2>8, <3>2
    <3> QED
      BY <2>5, <3>1, <3>2
  <2>10. ToSet(s) \subseteq ToSet(w) /\ ToSet(t) \subseteq ToSet(w)
    BY <2>6, <2>7, <2>8
  <2> QED
    BY <2>9, <2>10 DEF w
<1> DEFINE Upon(i) == UNION {ranges[t][1]..ranges[t][2] : t \in 1..i}
           G == {i \in 0..n : ToSet(u[i]) = Upon(i)}
<1>8. 0 \in G
  <2>1. ToSet(u[0]) = {}
    BY <1>5 DEF ToSet
  <2>2. Upon(0) = {}
    OBVIOUS
  <2> QED
    BY <2>1, <2>2
<1>9. ASSUME NEW i \in 1..n, i - 1 \in G PROVE i \in G
  <2>1. i \in 0..n /\ i - 1 \in 0..n
    BY <1>9
  <2>2. ToSet(u[i]) = ToSet(u[i - 1]) \cup (ranges[i][1]..ranges[i][2])
    <3>1. u[i - 1] \in Seq(Nat) /\ Bytes(ranges[i]) \in Seq(Nat) /\ u[i] = u[i - 1] \o Bytes(ranges[i])
      BY <1>5, <2>1
    <3> QED
      BY <1>6, <1>7, <3>1
  <2>3. 1..i = (1..(i - 1)) \cup {i}
    OBVIOUS
  <2>4. Upon(i) = Upon(i - 1) \cup (ranges[i][1]..ranges[i][2])
    BY <2>3
  <2>5. ToSet(u[i - 1]) = Upon(i - 1)
    BY <1>9
  <2> HIDE DEF Upon
  <2> QED
    BY <2>1, <2>2, <2>4, <2>5
<1>10. n \in G
  <2> HIDE DEF G
  <2>1. 0..n \subseteq G
    BY <1>8, <1>9, UpTo
  <2> QED
    BY <2>1
<1>11. Positions(ranges) = Upon(n)
  <2>1. DOMAIN ranges = 1..n
    BY <1>1
  <2> QED
    BY <2>1 DEF Positions, ToSet
<1> HIDE DEF Upon
<1> QED
  BY <1>1, <1>2, <1>10, <1>11

-----------------------------------------------------------------------------
(* The record of what was delivered *)

(* Spans of a file are pairs of naturals that lie in it.                   *)
LEMMA CutsAre ==
  ASSUME NEW size \in Nat, NEW spans \in Seq(Cuts(size))
  PROVE  /\ spans \in Seq(Nat \X Nat) /\ Positions(spans) \subseteq 0..(size - 1)
         /\ \A t \in 1..Len(spans) : /\ spans[t] \in Nat \X Nat /\ spans[t][1] \in Nat /\ spans[t][2] \in Nat
                                     /\ spans[t][1] <= spans[t][2] /\ spans[t][2] < size
<1>1. spans \in Seq(Nat \X Nat)
  BY DEF Cuts
<1>2. \A t \in 1..Len(spans) : spans[t] \in Cuts(size)
  OBVIOUS
<1>3. \A c \in Cuts(size) : c \in Nat \X Nat /\ c[1] \in Nat /\ c[2] \in Nat /\ c[1] <= c[2] /\ c[2] < size
  BY DEF Cuts
<1>4. ASSUME NEW x \in Positions(spans) PROVE x \in 0..(size - 1)
  <2>1. x \in Int /\ Covers(spans, x)
    BY <1>1, PositionsCover
  <2>2. PICK t \in 1..Len(spans) : spans[t][1] <= x /\ x <= spans[t][2]
    BY <2>1 DEF Covers
  <2>3. PICK a \in Nat, b \in Nat : a = spans[t][1] /\ b = spans[t][2] /\ b < size
    BY <1>2, <1>3
  <2> QED
    BY <2>1, <2>2, <2>3
<1> QED
  BY <1>1, <1>2, <1>3, <1>4

(* The merged ranges of a record and a response say what both say, and are *)
(* one range when nothing is missing.                                      *)
LEMMA MergedUnion ==
  ASSUME NEW size \in Nat, NEW base \in Seq(Cuts(size)), NEW ranges \in Seq(Cuts(size))
  PROVE  LET m == MergeRanges(base \o ranges, size) IN
         /\ m \in Seq(Cuts(size)) /\ Positions(m) = Positions(base) \cup Positions(ranges)
         /\ size > 0 => (m = <<<<0, size - 1>>>> <=> Positions(m) = 0..(size - 1))
<1> DEFINE both == base \o ranges
           m == MergeRanges(both, size)
<1>1. base \in Seq(Nat \X Nat) /\ ranges \in Seq(Nat \X Nat)
  BY CutsAre
<1>2. PICK k \in Nat, n \in Nat : k = Len(base) /\ n = Len(ranges)
  OBVIOUS
<1>3. /\ both \in Seq(Nat \X Nat) /\ Len(both) = k + n /\ (\A i \in 1..k : both[i] = base[i])
      /\ \A i \in 1..n : both[k + i] = ranges[i]
  BY <1>1, <1>2
<1> HIDE DEF both
<1>4. ASSUME NEW x \in Int PROVE Covers(both, x) <=> Covers(base, x) \/ Covers(ranges, x)
  <2>1. ASSUME NEW i \in 1..(k + n), both[i][1] <= x, x <= both[i][2] PROVE Covers(base, x) \/ Covers(ranges, x)
    <3>1. CASE i \in 1..k
      BY <1>2, <1>3, <2>1, <3>1 DEF Covers
    <3>2. CASE i \in (k + 1)..(k + n)
      <4>1. PICK j \in 1..n : i = k + j
        <5>1. i - k \in 1..n /\ i = k + (i - k)
          BY <3>2
        <5> QED
          BY <5>1
      <4> QED
        BY <1>2, <1>3, <2>1, <4>1 DEF Covers
    <3> QED
      BY <3>1, <3>2
  <2>2. ASSUME Covers(base, x) PROVE Covers(both, x)
    <3>1. PICK i \in 1..k : base[i][1] <= x /\ x <= base[i][2]
      BY <1>2, <2>2 DEF Covers
    <3>2. i \in 1..(k + n) /\ both[i] = base[i]
      BY <1>3
    <3> QED
      BY <1>3, <3>1, <3>2 DEF Covers
  <2>3. ASSUME Covers(ranges, x) PROVE Covers(both, x)
    <3>1. PICK i \in 1..n : ranges[i][1] <= x /\ x <= ranges[i][2]
      BY <1>2, <2>3 DEF Covers
    <3>2. k + i \in 1..(k + n) /\ both[k + i] = ranges[i]
      BY <1>3
    <3> QED
      BY <1>3, <3>1, <3>2 DEF Covers
  <2> QED
    BY <1>3, <2>1, <2>2, <2>3 DEF Covers
<1>5. /\ m \in Seq(Cuts(size)) /\ Apart(m)
      /\ \A x \in Int : Covers(m, x) <=> (x \in 0..(size - 1) /\ Covers(both, x))
  BY <1>3, MergedAre
<1> HIDE DEF m
<1>6. m \in Seq(Nat \X Nat)
  BY <1>5, CutsAre
<1>7. /\ Positions(m) = {x \in Int : Covers(m, x)} /\ Positions(base) = {x \in Int : Covers(base, x)}
      /\ Positions(ranges) = {x \in Int : Covers(ranges, x)}
  BY <1>1, <1>6, PositionsCover
<1>8. Positions(base) \subseteq 0..(size - 1) /\ Positions(ranges) \subseteq 0..(size - 1)
  BY CutsAre
<1>9. Positions(m) = Positions(base) \cup Positions(ranges)
  BY <1>4, <1>5, <1>7, <1>8
<1>10. ASSUME size > 0, m = <<<<0, size - 1>>>> PROVE Positions(m) = 0..(size - 1)
  <2>1. ToSet(m) = {<<0, size - 1>>}
    <3>1. \A e : ToSet(<<e>>) = {e}
      BY DEF ToSet
    <3> QED
      BY <1>10, <3>1, Zenon
  <2> QED
    BY <2>1 DEF Positions
<1>11. ASSUME size > 0, Positions(m) = 0..(size - 1) PROVE m = <<<<0, size - 1>>>>
  <2>1. \A x \in 0..(size - 1) : Covers(m, x)
    BY <1>7, <1>11
  <2> QED
    BY <1>5, <1>11, <2>1, WholeMeans
<1> QED
  BY <1>5, <1>9, <1>10, <1>11 DEF both, m

(* A link and the bytes its responses have delivered.                      *)
LinkFields == {"size", "ref", "active", "dsize", "ranges", "done"}
Said(told, size) == {c[2] : c \in {d \in told : d[1] = size}}
LinkSound(l, told) ==
    /\ DOMAIN l = LinkFields /\ l.size \in Nat /\ l.dsize \in Nat /\ l.done \in BOOLEAN
    /\ l.ranges \in Seq(Cuts(l.dsize))
    /\ \A c \in told : c[1] = l.dsize
    /\ Said(told, l.dsize) = IF l.done THEN 0..(l.dsize - 1) ELSE Positions(l.ranges)
    /\ l.dsize > 0 => (l.done <=> Said(told, l.dsize) = 0..(l.dsize - 1))

(* Without ranges there are no positions.                                  *)
LEMMA NoPositions == Positions(<<>>) = {} /\ \A size : <<>> \in Seq(Cuts(size))
<1>1. ToSet(<<>>) = {}
  BY DEF ToSet
<1> QED
  BY <1>1 DEF Positions

(* Recording a whole response keeps the record exact.                      *)
LEMMA RecordedSound ==
  ASSUME NEW l, NEW told, LinkSound(l, told), NEW size \in Nat, NEW ranges \in Seq(Cuts(size)), NEW sent,
         ToSet(sent) = Positions(ranges)
  PROVE  LinkSound(Recorded(l, size, ranges),
                   {c \in told : c[1] = size} \cup {<<size, b>> : b \in ToSet(sent)})
<1> DEFINE all == {c \in told : c[1] = size} \cup {<<size, b>> : b \in ToSet(sent)}
           old == IF l.dsize # size THEN [l EXCEPT !.ranges = <<>>, !.done = FALSE] ELSE l
           m == MergeRanges(old.ranges \o ranges, size)
           complete == size = 0 \/ m = <<<<0, size - 1>>>>
           y == [old EXCEPT !.dsize = size, !.done = complete, !.ranges = IF complete THEN <<>> ELSE m]
<1>1. \A c \in all : c[1] = size
  OBVIOUS
<1>2. Said(all, size) = Said(told, size) \cup Positions(ranges)
  <2>1. ASSUME NEW x \in Said(all, size) PROVE x \in Said(told, size) \cup ToSet(sent)
    BY DEF Said
  <2>2. Said(told, size) \subseteq Said(all, size)
    BY DEF Said
  <2>3. ASSUME NEW b \in ToSet(sent) PROVE b \in Said(all, size)
    <3>1. <<size, b>> \in all /\ <<size, b>>[1] = size /\ <<size, b>>[2] = b
      OBVIOUS
    <3> HIDE DEF all
    <3> QED
      BY <3>1 DEF Said
  <2> QED
    BY <2>1, <2>2, <2>3
<1>3. Positions(ranges) \subseteq 0..(size - 1)
  BY CutsAre
<1> HIDE DEF all
<1>4. DOMAIN old = LinkFields /\ old.size = l.size
  BY DEF LinkSound, LinkFields
<1>5. CASE old.done
  <2>1. l.dsize = size /\ l.done /\ Recorded(l, size, ranges) = l
    BY <1>5 DEF LinkSound, LinkFields, Recorded
  <2>2. Said(told, size) = 0..(size - 1)
    BY <2>1 DEF LinkSound
  <2>3. Said(all, size) = 0..(size - 1)
    BY <1>2, <1>3, <2>2
  <2> QED
    BY <1>1, <2>1, <2>3 DEF LinkSound, all
<1>6. CASE ~old.done
  <2>1. old.ranges \in Seq(Cuts(size)) /\ Said(told, size) = Positions(old.ranges)
    <3>1. CASE l.dsize = size
      BY <1>6, <3>1 DEF LinkSound
    <3>2. CASE l.dsize # size
      <4>1. old.ranges = <<>>
        BY <3>2 DEF LinkSound, LinkFields
      <4>2. Said(told, size) = {}
        BY <3>2 DEF Said, LinkSound
      <4> QED
        BY <4>1, <4>2, NoPositions
    <3> QED
      BY <3>1, <3>2
  <2>2. /\ m \in Seq(Cuts(size)) /\ Positions(m) = Positions(old.ranges) \cup Positions(ranges)
        /\ size > 0 => (m = <<<<0, size - 1>>>> <=> Positions(m) = 0..(size - 1))
    <3> HIDE DEF old
    <3> QED
      BY <2>1, MergedUnion
  <2>3. Said(all, size) = Positions(m)
    BY <1>2, <2>1, <2>2
  <2>4. Recorded(l, size, ranges) = y
    BY <1>6, Zenon DEF Recorded
  <2> HIDE DEF m, old
  <2>5. PICK whole \in BOOLEAN : whole = complete
    BY Zenon
  <2>5a. whole => size = 0 \/ m = <<<<0, size - 1>>>>
    BY <2>5, Zenon
  <2>5b. ~whole => size # 0 /\ m # <<<<0, size - 1>>>>
    BY <2>5, Zenon
  <2> HIDE DEF complete
  <2>6. /\ DOMAIN y = LinkFields /\ y.size = l.size /\ y.dsize = size /\ y.done = whole
        /\ y.ranges = IF whole THEN <<>> ELSE m
    BY <1>4, <2>5 DEF LinkFields
  <2> HIDE DEF y
  <2>7. CASE whole
    <3>1. y.done = TRUE /\ y.ranges = <<>>
      BY <2>6, <2>7
    <3>2. Positions(m) = 0..(size - 1)
      <4>1. CASE size = 0
        <5>1. Positions(m) \subseteq 0..(size - 1)
          BY <2>2, CutsAre
        <5> QED
          BY <4>1, <5>1
      <4>2. CASE size > 0
        BY <2>2, <2>5a, <2>7, <4>2
      <4> QED
        BY <4>1, <4>2
    <3> QED
      BY <1>1, <2>3, <2>4, <2>6, <3>1, <3>2, NoPositions DEF LinkSound, all
  <2>8. CASE ~whole
    <3>1. y.done = FALSE /\ y.ranges = m
      BY <2>6, <2>8
    <3>2. size > 0 /\ Positions(m) # 0..(size - 1)
      BY <2>2, <2>5b, <2>8
    <3> QED
      BY <1>1, <2>2, <2>3, <2>4, <2>6, <3>1, <3>2 DEF LinkSound, all
  <2> QED
    BY <2>7, <2>8
<1> QED
  BY <1>5, <1>6

-----------------------------------------------------------------------------
(* The bytes on their way *)

(* What a request has sent: the ranges before the current one, and of the  *)
(* current one the chunks up to the job the writer waits for.              *)
Current(q) == q.ranges[q.k]
Served(q) ==
    /\ q.size \in Nat /\ q.ranges \in Seq(Cuts(q.size)) /\ q.k \in 1..(Len(q.ranges) + 1)
    /\ q.at \in {"idle", "open"} => q.k = 1
    /\ q.at \in {"ready", "waiting", "stream", "chunks"} => q.k <= Len(q.ranges)
    /\ q.at \notin {"chunks", "report"} => q.sent = Upto(q.ranges)[q.k - 1]
    /\ q.at = "report" => q.sent = Upto(q.ranges)[Len(q.ranges)]
    /\ q.at = "chunks" =>
          /\ q.job \in Nat \ {0} /\ q.next \in 1..(Jobs(Current(q)) + 1)
          /\ q.sent = Upto(q.ranges)[q.k - 1] \o Bytes(<<Current(q)[1], Reached(Current(q), q.next) - 1>>)

(* What a fetcher of the request has: a job of the current range, and once *)
(* the answer is there, the bytes of that job.                             *)
Fetched(q, x) ==
    /\ x.at # "idle" => x.job \in 1..Jobs(Current(q))
    /\ x.at = "data" => x.data = Bytes(<<First(Current(q), x.job), Final(Current(q), x.job)>>)
    /\ x.at = "store" => x.size \in Nat

(* The link and what was delivered of it; without a link nothing is kept.  *)
Accounted(l, told) == IF l = NoLink THEN told = {} ELSE LinkSound(l, told)

(* All of it.                                                              *)
Exact ==
    /\ \A r \in Requests : Served(req[r])
    /\ \A r \in Requests, f \in Fetchers : Fetched(req[r], fetch[r][f])
    /\ Accounted(link, credits) /\ remote.size \in Nat

(* Before the first and after the last range of nothing, nothing was sent. *)
LEMMA UptoNothing ==
    Upto(<<>>)[0] = <<>> /\ \A size \in Nat : \A ranges \in Seq(Cuts(size)) : Upto(ranges)[0] = <<>>
<1>1. \A size \in Nat : \A ranges \in Seq(Cuts(size)) : Upto(ranges)[0] = <<>>
  BY CutsAre, UptoRuns
<1> QED
  BY <1>1, NoPositions

(* An idle and an ended request have sent nothing.                         *)
LEMMA ServedNothing == Served(NoReq) /\ \A r : Served(Ended(r))
<1>1. /\ NoReq.size = 0 /\ NoReq.ranges = <<>> /\ NoReq.k = 1 /\ NoReq.sent = <<>> /\ NoReq.at = "idle"
  BY DEF NoReq
<1>2. ASSUME NEW r
      PROVE  /\ Ended(r).size = 0 /\ Ended(r).ranges = <<>> /\ Ended(r).k = 1 /\ Ended(r).sent = <<>>
             /\ Ended(r).at = "ended"
  BY DEF NoReq, Ended
<1>3. ASSUME NEW q, q.size = 0, q.ranges = <<>>, q.k = 1, q.sent = <<>>, q.at \in {"idle", "ended"}
      PROVE  Served(q)
  <2>1. Len(q.ranges) = 0 /\ q.ranges \in Seq(Cuts(q.size)) /\ q.sent = Upto(q.ranges)[q.k - 1]
    BY <1>3, UptoNothing, NoPositions
  <2> QED
    BY <1>3, <2>1 DEF Served
<1> QED
  BY <1>1, <1>2, <1>3

(* An idle fetcher has nothing.                                            *)
LEMMA FetchedNothing == \A q, x : x.at = "idle" => Fetched(q, x)
BY DEF Fetched

(* A step that changes one request without fetchers.                       *)
LEMMA RequestExact ==
    ASSUME Inv, Exact, NEW r \in Requests, NEW y, req' = [req EXCEPT ![r] = y], Served(y),
           req[r].at # "chunks", UNCHANGED fetch, Accounted(link', credits'), UNCHANGED remote
    PROVE  Exact'
<1>1. \A q \in Requests : req'[q] = IF q = r THEN y ELSE req[q]
  BY DEF Inv, Shape
<1>2. \A q \in Requests : Served(req'[q])
  BY <1>1 DEF Exact
<1>3. ASSUME NEW q \in Requests, NEW f \in Fetchers PROVE Fetched(req'[q], fetch'[q][f])
  <2>1. CASE q = r
    BY <2>1, FetchedNothing DEF Inv, Inside
  <2>2. CASE q # r
    BY <1>1, <2>2 DEF Exact
  <2> QED
    BY <2>1, <2>2
<1> QED
  BY <1>2, <1>3 DEF Exact

(* A step that changes one fetcher, and perhaps the request it works for.  *)
LEMMA FetcherExact ==
    ASSUME Inv, Exact, NEW r \in Requests, NEW f \in Fetchers, NEW y, NEW z,
           \A q \in Requests : req'[q] = IF q = r THEN y ELSE req[q], fetch' = [fetch EXCEPT ![r][f] = z],
           Served(y), y.ranges = req[r].ranges, y.k = req[r].k, Fetched(y, z),
           Accounted(link', credits'), UNCHANGED remote
    PROVE  Exact'
<1>1. \A q \in Requests : req'[q] = IF q = r THEN y ELSE req[q]
  OBVIOUS
<1>2. \A q \in Requests, g \in Fetchers : fetch'[q][g] = IF q = r /\ g = f THEN z ELSE fetch[q][g]
  BY DEF Inv, Shape
<1>3. \A q \in Requests : Served(req'[q])
  BY <1>1 DEF Exact
<1>4. ASSUME NEW q \in Requests, NEW g \in Fetchers PROVE Fetched(req'[q], fetch'[q][g])
  <2>1. CASE q = r /\ g = f
    BY <1>1, <1>2, <2>1
  <2>2. CASE q = r /\ g # f
    <3>1. Current(y) = Current(req[r])
      BY DEF Current
    <3>2. Fetched(req[r], fetch[r][g])
      BY DEF Exact
    <3>3. Fetched(y, fetch[r][g])
      BY <3>1, <3>2 DEF Fetched
    <3> QED
      BY <1>1, <1>2, <2>2, <3>3
  <2>3. CASE q # r
    BY <1>1, <1>2, <2>3 DEF Exact
  <2> QED
    BY <2>1, <2>2, <2>3
<1> QED
  BY <1>3, <1>4 DEF Exact

(* The same for a step that leaves the request alone.                      *)
LEMMA FetcherAloneExact ==
    ASSUME Inv, Exact, NEW r \in Requests, NEW f \in Fetchers, NEW z,
           UNCHANGED req, fetch' = [fetch EXCEPT ![r][f] = z], Fetched(req[r], z),
           Accounted(link', credits'), UNCHANGED remote
    PROVE  Exact'
<1>1. \A q \in Requests : req'[q] = IF q = r THEN req[r] ELSE req[q]
  OBVIOUS
<1> QED
  BY <1>1, FetcherExact DEF Exact

(* The fields that have no part in what is sent.                           *)
Plain == {"kind", "ref", "active", "ctx", "chg", "pool", "bad", "stuck"}

(* Their change leaves a request and its fetchers sound.                   *)
LEMMA PlainField ==
    ASSUME Inv, NEW r \in Requests, NEW i \in Plain, NEW v
    PROVE  LET y == [req[r] EXCEPT ![i] = v] IN
           /\ y.ranges = req[r].ranges /\ y.k = req[r].k
           /\ Served(req[r]) => Served(y)
           /\ \A x : Fetched(req[r], x) => Fetched(y, x)
<1> DEFINE y == [req[r] EXCEPT ![i] = v]
<1>1. /\ y["at"] = req[r]["at"] /\ y["size"] = req[r]["size"] /\ y["ranges"] = req[r]["ranges"] /\ y["k"] = req[r]["k"]
      /\ y["sent"] = req[r]["sent"] /\ y["job"] = req[r]["job"] /\ y["next"] = req[r]["next"]
  BY DEF Inv, Shape, ReqFields, Plain
<1>2. /\ y.at = req[r].at /\ y.size = req[r].size /\ y.ranges = req[r].ranges /\ y.k = req[r].k
      /\ y.sent = req[r].sent /\ y.job = req[r].job /\ y.next = req[r].next
  BY <1>1
<1> HIDE DEF y
<1>3. Current(y) = Current(req[r])
  BY <1>2 DEF Current
<1>4. Served(req[r]) => Served(y)
  BY <1>2, <1>3, Zenon DEF Served
<1>5. \A x : Fetched(req[r], x) => Fetched(y, x)
  BY <1>3, Zenon DEF Fetched
<1> QED
  BY <1>2, <1>4, <1>5 DEF y

(* A fetcher fails.                                                        *)
LEMMA FailExact ==
    ASSUME Inv, Exact, NEW r \in Requests, NEW f \in Fetchers, FetchFails(r, f),
           Accounted(link', credits'), UNCHANGED remote
    PROVE  Exact'
<1> DEFINE y == [req[r] EXCEPT !["bad"] = TRUE]
<1>1. \A q \in Requests : req'[q] = IF q = r THEN y ELSE req[q]
  BY DEF FetchFails, Inv, Shape
<1>2. "bad" \in Plain
  BY DEF Plain
<1>3. Served(y) /\ y.ranges = req[r].ranges /\ y.k = req[r].k
  BY <1>2, PlainField DEF Exact
<1> HIDE DEF y
<1>4. Fetched(y, NoFetch)
  BY FetchedNothing, ConstantShapes
<1>5. fetch' = [fetch EXCEPT ![r][f] = NoFetch]
  BY DEF FetchFails
<1> QED
  BY <1>1, <1>3, <1>4, <1>5, FetcherExact

-----------------------------------------------------------------------------
(* The link *)

(* taskStore.Get deletes or touches the link.                              *)
LEMMA GotSound ==
    ASSUME Accounted(link, credits)
    PROVE  /\ Stored(Got) => Accounted(link', credits')
           /\ Got # NoLink => Got.size \in Nat
<1>1. CASE Got = NoLink
  BY <1>1 DEF Stored, Accounted
<1>2. CASE Got # NoLink
  <2>1. link # NoLink /\ Got = Touched(link)
    BY <1>2 DEF Got, Swept
  <2>2. LinkSound(link, credits)
    BY <2>1 DEF Accounted
  <2>3. LinkSound(Got, credits)
    <3>1. CASE Got = link
      BY <2>2, <3>1
    <3>2. CASE Got = [link EXCEPT !.active = now]
      <4> DEFINE y == [link EXCEPT !.active = now]
      <4>1. /\ DOMAIN y = LinkFields /\ y.size = link.size /\ y.dsize = link.dsize /\ y.done = link.done
            /\ y.ranges = link.ranges
        BY <2>2 DEF LinkSound, LinkFields
      <4> HIDE DEF y
      <4>2. LinkSound(y, credits)
        BY <2>2, <4>1, Zenon DEF LinkSound
      <4> QED
        BY <3>2, <4>2 DEF y
    <3> QED
      BY <2>1, <3>1, <3>2 DEF Touched
  <2> QED
    BY <1>2, <2>3 DEF Stored, Accounted, LinkSound
<1> QED
  BY <1>1, <1>2

(* taskStore.Add keeps the record of the delivery, or starts a new one.    *)
LEMMA AddedSound ==
    ASSUME Accounted(link, credits), NEW size \in Nat, NEW ref, NEW active,
           link' = Added(size, ref, active),
           credits' = IF Swept(link) = NoLink THEN {} ELSE credits
    PROVE  Accounted(link', credits')
<1>1. CASE Swept(link) = NoLink
  <2> DEFINE y == [size |-> size, ref |-> ref, active |-> active, dsize |-> 0, ranges |-> <<>>, done |-> FALSE]
  <2>1. link' = y /\ credits' = {}
    BY <1>1 DEF Added, Merge
  <2>2. DOMAIN y = LinkFields /\ y.size = size /\ y.dsize = 0 /\ y.ranges = <<>> /\ y.done = FALSE
    BY DEF LinkFields
  <2> HIDE DEF y
  <2>3. Said({}, 0) = {}
    BY DEF Said
  <2>4. y.done \in BOOLEAN
    BY <2>2, Zenon
  <2>5. LinkSound(y, {})
    <3>1. y.size \in Nat /\ y.dsize \in Nat /\ y.ranges \in Seq(Cuts(y.dsize))
      BY <2>2, NoPositions
    <3>2. Said({}, y.dsize) = IF y.done THEN 0..(y.dsize - 1) ELSE Positions(y.ranges)
      BY <2>2, <2>3, NoPositions
    <3>3. ~(y.dsize > 0)
      BY <2>2
    <3> QED
      BY <2>2, <2>4, <3>1, <3>2, <3>3, Zenon DEF LinkSound
  <2>6. y # NoLink
    BY <2>2 DEF NoLink
  <2> QED
    BY <2>1, <2>5, <2>6 DEF Accounted
<1>2. CASE Swept(link) # NoLink
  <2>1. link # NoLink /\ Swept(link) = link /\ credits' = credits
    BY <1>2 DEF Swept
  <2>2. LinkSound(link, credits)
    BY <2>1 DEF Accounted
  <2> DEFINE t == Max({link.active, active})
             y == [link EXCEPT !.size = size, !.ref = ref, !.active = t]
  <2>3. link' = y
    BY <2>1 DEF Added, Merge
  <2> HIDE DEF t
  <2>4. /\ DOMAIN y = LinkFields /\ y.size = size /\ y.dsize = link.dsize /\ y.done = link.done
        /\ y.ranges = link.ranges
    BY <2>2 DEF LinkSound, LinkFields
  <2> HIDE DEF y
  <2>5. LinkSound(y, credits)
    BY <2>2, <2>4, Zenon DEF LinkSound
  <2>6. y # NoLink
    BY <2>4 DEF NoLink
  <2> QED
    BY <2>1, <2>3, <2>5, <2>6 DEF Accounted
<1> QED
  BY <1>1, <1>2

(* A whole response is recorded.                                           *)
LEMMA ReportedSound ==
    ASSUME Exact, NEW r \in Requests, ReportFinished(r)
    PROVE  Accounted(link', credits')
<1>1. CASE link = NoLink
  <2>1. link' = link /\ credits' = credits
    BY <1>1 DEF ReportFinished
  <2> QED
    BY <2>1 DEF Exact
<1>2. CASE link # NoLink
  <2> DEFINE told == {c \in credits : c[1] = req[r].size} \cup {<<req[r].size, b>> : b \in ToSet(req[r].sent)}
             y == Recorded(link, req[r].size, req[r].ranges)
  <2>1. link' = y /\ credits' = told
    BY <1>2 DEF ReportFinished
  <2>2. LinkSound(link, credits) /\ Served(req[r]) /\ req[r].at = "report"
    BY <1>2 DEF Exact, Accounted, ReportFinished
  <2>3. /\ req[r].size \in Nat /\ req[r].ranges \in Seq(Cuts(req[r].size))
        /\ req[r].sent = Upto(req[r].ranges)[Len(req[r].ranges)]
    BY <2>2 DEF Served
  <2>4. ToSet(req[r].sent) = Positions(req[r].ranges)
    BY <2>3, UptoPositions
  <2>5. LinkSound(y, told)
    BY <2>2, <2>3, <2>4, RecordedSound
  <2> HIDE DEF y, told
  <2>6. y # NoLink
    BY <2>5 DEF LinkSound, NoLink
  <2> QED
    BY <2>1, <2>5, <2>6 DEF Accounted
<1> QED
  BY <1>1, <1>2

-----------------------------------------------------------------------------
(* Requests *)

(* A request is let in.                                                    *)
LEMMA ArriveExact ==
    ASSUME Inv, Exact, NEW r \in Requests, NEW kind, Arrive(r, kind)
    PROVE  Exact'
<1> DEFINE y == [req[r] EXCEPT !.at = "open", !.kind = kind]
<1>1. req' = [req EXCEPT ![r] = y]
  BY DEF Arrive, Inv, Shape, ReqFields
<1>2. y.at = "open" /\ y.size = req[r].size /\ y.ranges = req[r].ranges /\ y.k = req[r].k /\ y.sent = req[r].sent
  BY DEF Inv, Shape, ReqFields
<1> HIDE DEF y
<1>3. req[r].at = "idle" /\ UNCHANGED <<fetch, link, credits, remote>>
  BY DEF Arrive, storeVars, outside
<1>4. Served(y)
  BY <1>2, <1>3 DEF Served, Exact
<1> QED
  BY <1>1, <1>3, <1>4, RequestExact DEF Exact

(* The stages before the stream of a range.                                *)
Early == {"ready", "waiting", "stream"}

(* A request that moves between them.                                      *)
LEMMA EarlyExact ==
    ASSUME Inv, Exact, NEW r \in Requests, req[r].at \in Early, NEW y, req' = [req EXCEPT ![r] = y],
           y.at \in Early, y.size = req[r].size, y.ranges = req[r].ranges, y.k = req[r].k, y.sent = req[r].sent,
           UNCHANGED <<fetch, link, credits, remote>>
    PROVE  Exact'
<1>1. Served(y)
  BY DEF Served, Exact, Early
<1> QED
  BY <1>1, RequestExact DEF Exact, Early

(* A request that ends without a stream.                                   *)
LEMMA EndExact ==
    ASSUME Inv, Exact, NEW r \in Requests, req[r].at # "chunks", req' = [req EXCEPT ![r] = Ended(r)],
           UNCHANGED <<fetch, remote>>, Accounted(link', credits')
    PROVE  Exact'
BY ServedNothing, RequestExact

(* Opening fixes the ranges of the answer, cut to the file.                *)
LEMMA OpenExact ==
    ASSUME Inv, Exact, NEW r \in Requests, NEW ask, Open(r, ask)
    PROVE  Exact'
<1> DEFINE l == Got
           kind == IF l # NoLink /\ req[r].kind = "get" /\ file = l.size THEN "file" ELSE req[r].kind
           ranges == IF kind = "worker" THEN <<<<0, l.size - 1>>>> ELSE ResponseRanges(ask, l.size)
           a == IF l.size = 0 THEN "report" ELSE "ready"
           g == IF l.size = 0 THEN <<>> ELSE ranges
           y == [req[r] EXCEPT !.at = a, !.kind = kind, !.size = l.size, !.ref = l.ref,
                               !.active = l.active, !.ranges = g]
<1>1. req[r].at = "open" /\ ask \in Asks /\ Stored(l) /\ UNCHANGED <<fetch, remote>>
  BY DEF Open, outside
<1>2. Accounted(link', credits')
  BY <1>1, GotSound DEF Exact
<1>3. CASE req' = [req EXCEPT ![r] = Ended(r)]
  BY <1>1, <1>2, <1>3, EndExact
<1>4. CASE req' # [req EXCEPT ![r] = Ended(r)]
  <2>1. req' = [req EXCEPT ![r] = y] /\ l # NoLink /\ ranges # <<>>
    BY <1>4 DEF Open
  <2>2. l.size \in Nat
    BY <2>1, GotSound DEF Exact
  <2>3. g \in Seq(Cuts(l.size)) /\ (l.size # 0 => Len(g) >= 1)
    <3>1. CASE l.size = 0
      BY <3>1, NoPositions
    <3>2. CASE l.size # 0
      <4>1. g = ranges
        BY <3>2
      <4>2. CASE kind = "worker"
        <5>1. ranges = <<<<0, l.size - 1>>>>
          BY <4>2
        <5> HIDE DEF l, kind, ranges, g
        <5>2. <<0, l.size - 1>> \in Cuts(l.size)
          BY <2>2, <3>2 DEF Cuts
        <5> QED
          BY <4>1, <5>1, <5>2
      <4>3. CASE kind # "worker"
        <5>1. ranges = ResponseRanges(ask, l.size)
          BY <4>3
        <5> HIDE DEF l, kind, ranges, g
        <5>2. ranges \in Seq(Cuts(l.size))
          BY <1>1, <2>2, <3>2, <5>1, ResponseAre
        <5> QED
          BY <2>1, <4>1, <5>2
      <4> QED
        BY <4>2, <4>3
    <3> QED
      BY <3>1, <3>2
  <2>4. a \in {"report", "ready"} /\ (a = "report" <=> l.size = 0) /\ (l.size = 0 => g = <<>>)
    OBVIOUS
  <2> HIDE DEF l, kind, ranges, a, g
  <2>5. y.at = a /\ y.size = l.size /\ y.ranges = g /\ y.k = req[r].k /\ y.sent = req[r].sent
    BY DEF Inv, Shape, ReqFields
  <2> HIDE DEF y
  <2>6. req[r].k = 1 /\ req[r].sent = <<>>
    <3>1. Served(req[r]) /\ req[r].k = 1
      BY <1>1 DEF Exact, Served
    <3>2. req[r].size \in Nat /\ req[r].ranges \in Seq(Cuts(req[r].size)) /\ req[r].sent = Upto(req[r].ranges)[0]
      BY <1>1, <3>1 DEF Served
    <3> QED
      BY <3>1, <3>2, UptoNothing
  <2>7. Upto(g)[0] = <<>>
    BY <2>2, <2>3, UptoNothing
  <2>8. Served(y)
    BY <2>2, <2>3, <2>4, <2>5, <2>6, <2>7 DEF Served
  <2> QED
    BY <1>1, <1>2, <2>1, <2>8, RequestExact
<1> QED
  BY <1>3, <1>4

(* The waits before the stream.                                            *)
LEMMA WaitExact ==
    ASSUME Inv, Exact, NEW r \in Requests, Ready(r) \/ Woken(r) \/ WaitEnds(r)
    PROVE  Exact'
<1>1. UNCHANGED <<fetch, link, credits, remote>> /\ req[r].at \in Early
  BY DEF Ready, Woken, WaitEnds, storeVars, outside, Early
<1>2. Accounted(link', credits') /\ req[r].at # "chunks"
  BY <1>1 DEF Exact, Early
<1>3. CASE req' = [req EXCEPT ![r] = Ended(r)]
  BY <1>1, <1>2, <1>3, EndExact
<1>4. CASE req' = [req EXCEPT ![r].at = "stream"]
  <2> DEFINE y == [req[r] EXCEPT !.at = "stream"]
  <2>1. req' = [req EXCEPT ![r] = y]
    BY <1>4
  <2>2. y.at = "stream" /\ y.size = req[r].size /\ y.ranges = req[r].ranges /\ y.k = req[r].k /\ y.sent = req[r].sent
    BY DEF Inv, Shape, ReqFields
  <2> HIDE DEF y
  <2> QED
    BY <1>1, <2>1, <2>2, EarlyExact DEF Early
<1>5. ASSUME NEW c, NEW a \in Early, req' = [req EXCEPT ![r].at = a, ![r].chg = c]
      PROVE  Exact'
  <2> DEFINE y == [req[r] EXCEPT !.at = a, !.chg = c]
  <2>2. req' = [req EXCEPT ![r] = y]
    BY <1>5 DEF Inv, Shape, ReqFields
  <2>3. y.at = a /\ y.size = req[r].size /\ y.ranges = req[r].ranges /\ y.k = req[r].k /\ y.sent = req[r].sent
    BY DEF Inv, Shape, ReqFields
  <2> HIDE DEF y
  <2> QED
    BY <1>1, <2>2, <2>3, EarlyExact
<1>6. Ready(r) => \/ req' = [req EXCEPT ![r] = Ended(r)] \/ req' = [req EXCEPT ![r].at = "stream"]
                  \/ req' = [req EXCEPT ![r].at = "waiting", ![r].chg = pool'.changed]
  BY DEF Ready
<1>7. Woken(r) => req' = [req EXCEPT ![r].at = "ready", ![r].chg = 0]
  BY DEF Woken
<1>8. WaitEnds(r) => req' = [req EXCEPT ![r] = Ended(r)]
  BY DEF WaitEnds
<1>9. "waiting" \in Early /\ "ready" \in Early
  BY DEF Early
<1> QED
  BY <1>3, <1>4, <1>5, <1>6, <1>7, <1>8, <1>9

(* A span of a request that streams.                                       *)
LEMMA CurrentSpan ==
    ASSUME NEW q, Served(q), q.at \in {"stream", "chunks"}
    PROVE  /\ q.k \in 1..Len(q.ranges) /\ Len(q.ranges) \in Nat /\ q.ranges \in Seq(Nat \X Nat)
           /\ Current(q) \in Nat \X Nat /\ Current(q)[1] <= Current(q)[2]
           /\ Upto(q.ranges)[q.k - 1] \in Seq(Nat)
           /\ Upto(q.ranges)[q.k] = Upto(q.ranges)[q.k - 1] \o Bytes(Current(q))
<1>1. q.size \in Nat /\ q.ranges \in Seq(Cuts(q.size)) /\ q.k \in 1..Len(q.ranges) /\ Len(q.ranges) \in Nat
  BY DEF Served
<1>2. q.ranges \in Seq(Nat \X Nat)
  BY <1>1, CutsAre
<1>3. q.k - 1 \in 0..Len(q.ranges)
  BY <1>1
<1>4. q.ranges[q.k] \in Nat \X Nat /\ q.ranges[q.k][1] <= q.ranges[q.k][2]
  BY <1>1, CutsAre
<1> QED
  BY <1>1, <1>2, <1>3, <1>4, UptoRuns DEF Current

(* After a range: the next one, the report of all, or the end.             *)
LEMMA NextRangeServed ==
    ASSUME Inv, NEW r \in Requests, Served(req[r]), req[r].at \in {"stream", "chunks"}, NEW y, DOMAIN y = ReqFields,
           NextRange(r) # Ended(r),
           y.at = NextRange(r).at, y.k = NextRange(r).k, y.size = req[r].size, y.ranges = req[r].ranges,
           y.sent = Upto(req[r].ranges)[req[r].k]
    PROVE  Served(y)
<1> DEFINE q == req[r]
<1>1. /\ q.k \in 1..Len(q.ranges) /\ Len(q.ranges) \in Nat /\ q.size \in Nat
      /\ q.ranges \in Seq(Cuts(q.size))
  BY CurrentSpan DEF Served
<1>2. CASE q.k < Len(q.ranges)
  <2>1. NextRange(r) = [q EXCEPT !.at = "stream", !.k = @ + 1]
    BY <1>2 DEF NextRange
  <2>2. y.at = "stream" /\ y.k = q.k + 1
    BY <2>1 DEF Inv, Shape, ReqFields
  <2> HIDE DEF q
  <2>3. y.size = q.size /\ y.ranges = q.ranges /\ y.sent = Upto(q.ranges)[q.k]
    BY DEF q
  <2>4. y.k - 1 = q.k /\ y.k \in 1..(Len(q.ranges) + 1) /\ y.k <= Len(q.ranges)
    BY <1>1, <1>2, <2>2
  <2> QED
    BY <1>1, <2>2, <2>3, <2>4 DEF Served
<1>3. CASE ~(q.k < Len(q.ranges))
  <2>1. NextRange(r) = [q EXCEPT !.at = "report"]
    BY <1>3 DEF NextRange
  <2>2. y.at = "report" /\ y.k = q.k
    BY <2>1 DEF Inv, Shape, ReqFields
  <2> HIDE DEF q
  <2>3. y.size = q.size /\ y.ranges = q.ranges /\ y.sent = Upto(q.ranges)[q.k]
    BY DEF q
  <2>4. q.k = Len(q.ranges)
    BY <1>1, <1>3
  <2>5. y.k \in 1..(Len(y.ranges) + 1) /\ y.sent = Upto(y.ranges)[Len(y.ranges)]
        /\ y.size \in Nat /\ y.ranges \in Seq(Cuts(y.size))
    BY <1>1, <2>2, <2>3, <2>4
  <2> QED
    BY <2>2, <2>5 DEF Served
<1> QED
  BY <1>2, <1>3

(* A local file is copied range by range.                                  *)
LEMMA StreamFileExact ==
    ASSUME Inv, Exact, NEW r \in Requests, StreamFile(r)
    PROVE  Exact'
<1> DEFINE s == req[r].sent \o Bytes(req[r].ranges[req[r].k])
           y == [NextRange(r) EXCEPT !.sent = s]
<1>1. UNCHANGED <<fetch, link, credits, remote>> /\ req[r].at = "stream" /\ req[r].kind = "file"
  BY DEF StreamFile, storeVars, outside
<1>2. Accounted(link', credits') /\ Served(req[r])
  BY <1>1 DEF Exact
<1>3. CASE req' = [req EXCEPT ![r] = Ended(r)]
  BY <1>1, <1>2, <1>3, EndExact
<1>4. CASE req' = [req EXCEPT ![r] = y]
  <2>1. s = Upto(req[r].ranges)[req[r].k]
    <3>1. req[r].sent = Upto(req[r].ranges)[req[r].k - 1]
      BY <1>1, <1>2 DEF Served
    <3> QED
      BY <1>1, <1>2, <3>1, CurrentSpan DEF Current
  <2> HIDE DEF s
  <2>2. /\ NextRange(r) = [req[r] EXCEPT !.at = "stream", !.k = @ + 1]
        \/ NextRange(r) = [req[r] EXCEPT !.at = "report"]
    BY <1>1 DEF NextRange
  <2>3. /\ DOMAIN NextRange(r) = ReqFields /\ NextRange(r).size = req[r].size /\ NextRange(r).ranges = req[r].ranges
        /\ NextRange(r).at # "ended"
    BY <2>2 DEF Inv, Shape, ReqFields
  <2>4. /\ DOMAIN y = ReqFields /\ y.at = NextRange(r).at /\ y.k = NextRange(r).k /\ y.size = req[r].size
        /\ y.ranges = req[r].ranges /\ y.sent = s
    BY <2>3 DEF ReqFields
  <2> HIDE DEF y
  <2>5. NextRange(r) # Ended(r)
    BY <2>3, ConstantShapes
  <2>6. Served(y)
    BY <1>1, <1>2, <2>1, <2>4, <2>5, NextRangeServed
  <2> QED
    BY <1>1, <1>2, <1>4, <2>6, RequestExact
<1> QED
  BY <1>3, <1>4 DEF StreamFile

(* The stream of a range starts with its first job.                        *)
LEMMA StartStreamExact ==
    ASSUME Inv, Exact, NEW r \in Requests, StartStream(r)
    PROVE  Exact'
<1>1. UNCHANGED <<fetch, link, credits, remote>> /\ req[r].at = "stream"
  BY DEF StartStream, storeVars, outside
<1>2. Accounted(link', credits') /\ Served(req[r])
  BY <1>1 DEF Exact
<1>3. CASE pool.cur = 0
  <2>1. req' = [req EXCEPT ![r] = Ended(r)]
    BY <1>3 DEF StartStream
  <2> QED
    BY <1>1, <1>2, <2>1, EndExact
<1>4. CASE pool.cur # 0
  <2> DEFINE y == [req[r] EXCEPT !.at = "chunks", !.pool = pool.cur, !.job = 1, !.next = 1]
  <2>1. req' = [req EXCEPT ![r].at = "chunks", ![r].pool = pool.cur, ![r].job = 1, ![r].next = 1]
    BY <1>4 DEF StartStream
  <2>2. req' = [req EXCEPT ![r] = y]
    BY <2>1 DEF Inv, Shape, ReqFields
  <2>3. /\ y.at = "chunks" /\ y.size = req[r].size /\ y.ranges = req[r].ranges /\ y.k = req[r].k
        /\ y.sent = req[r].sent /\ y.job = 1 /\ y.next = 1
    BY DEF Inv, Shape, ReqFields
  <2> HIDE DEF y
  <2>4. PICK range \in Nat \X Nat : range = Current(req[r])
    BY <1>1, <1>2, CurrentSpan
  <2>5. range[1] <= range[2] /\ Current(y) = range
    BY <1>1, <1>2, <2>3, <2>4, CurrentSpan DEF Current
  <2>6. Jobs(range) \in Nat \ {0} /\ Reached(range, 1) = range[1]
    BY <2>5, JobsFollow
  <2>7. Bytes(<<range[1], range[1] - 1>>) = <<>>
    <3>1. Length(<<range[1], range[1] - 1>>) = 0
      BY DEF Length
    <3> QED
      BY <3>1 DEF Bytes
  <2>8. y.sent = Upto(y.ranges)[y.k - 1] \o Bytes(<<range[1], Reached(range, 1) - 1>>)
    <3>1. req[r].sent = Upto(req[r].ranges)[req[r].k - 1] /\ Upto(req[r].ranges)[req[r].k - 1] \in Seq(Nat)
      BY <1>1, <1>2, CurrentSpan DEF Served
    <3>2. PICK u \in Seq(Nat) : u = Upto(req[r].ranges)[req[r].k - 1]
      BY <3>1
    <3>3. u \o <<>> = u
      OBVIOUS
    <3>4. Bytes(<<range[1], Reached(range, 1) - 1>>) = <<>>
      BY <2>6, <2>7
    <3> QED
      BY <2>3, <3>1, <3>2, <3>3, <3>4
  <2>9. y.size \in Nat /\ y.ranges \in Seq(Cuts(y.size)) /\ y.k \in 1..(Len(y.ranges) + 1) /\ y.k <= Len(y.ranges)
    BY <1>1, <1>2, <2>3 DEF Served
  <2>10. Served(y)
    <3>1. y.job \in Nat \ {0} /\ y.next \in 1..(Jobs(range) + 1)
      BY <2>3, <2>6
    <3>2. y.at \notin {"idle", "open"} /\ y.at \in {"chunks", "report"} /\ y.at # "report"
      BY <2>3
    <3>3. y.sent = Upto(y.ranges)[y.k - 1] \o Bytes(<<range[1], Reached(range, y.next) - 1>>)
      BY <2>3, <2>8
    <3> QED
      BY <2>5, <2>9, <3>1, <3>2, <3>3, Zenon DEF Served
  <2> QED
    BY <1>1, <1>2, <2>2, <2>10, RequestExact
<1> QED
  BY <1>3, <1>4

(* The stream of a range returns with its last job written, or failed.     *)
LEMMA StreamReturnsExact ==
    ASSUME Inv, Exact, NEW r \in Requests, StreamReturns(r)
    PROVE  Exact'
<1>1. /\ UNCHANGED <<fetch, link, credits, remote>> /\ req[r].at = "chunks"
      /\ \A f \in Fetchers : fetch[r][f].at = "idle"
  BY DEF StreamReturns, storeVars, outside
<1>2. ASSUME NEW y, Served(y), req' = [req EXCEPT ![r] = y] PROVE Exact'
  <2>1. \A q \in Requests : req'[q] = IF q = r THEN y ELSE req[q]
    BY <1>2 DEF Inv, Shape
  <2>2. \A q \in Requests : Served(req'[q])
    BY <1>2, <2>1 DEF Exact
  <2>3. ASSUME NEW q \in Requests, NEW f \in Fetchers PROVE Fetched(req'[q], fetch'[q][f])
    <3>1. CASE q = r
      BY <1>1, <3>1, FetchedNothing
    <3>2. CASE q # r
      BY <1>1, <2>1, <3>2 DEF Exact
    <3> QED
      BY <3>1, <3>2
  <2> QED
    BY <1>1, <2>2, <2>3 DEF Exact
<1>3. CASE req' = [req EXCEPT ![r] = Ended(r)]
  BY <1>2, <1>3, ServedNothing
<1>4. CASE req' # [req EXCEPT ![r] = Ended(r)]
  <2>1. req' = [req EXCEPT ![r] = NextRange(r)] /\ ~req[r].bad
    BY <1>4 DEF StreamReturns
  <2>2. req[r].next > Jobs(req[r].ranges[req[r].k]) /\ NextRange(r) # Ended(r)
    BY <1>4, <2>1 DEF StreamReturns
  <2>3. Served(req[r])
    BY DEF Exact
  <2>4. PICK range \in Nat \X Nat : range = Current(req[r])
    BY <1>1, <2>3, CurrentSpan
  <2>5. req[r].sent = Upto(req[r].ranges)[req[r].k]
    <3>1. Jobs(range) \in Nat /\ range[1] <= range[2]
      BY <1>1, <2>3, <2>4, CurrentSpan, JobsFollow
    <3>2. Reached(range, req[r].next) = range[2] + 1
      BY <2>2, <2>4 DEF Reached, Current
    <3>3. Bytes(<<range[1], Reached(range, req[r].next) - 1>>) = Bytes(range)
      <4>1. Reached(range, req[r].next) - 1 = range[2] /\ range = <<range[1], range[2]>>
        BY <3>2
      <4> QED
        BY <4>1
    <3> QED
      BY <1>1, <2>3, <2>4, <3>3, CurrentSpan DEF Served
  <2>6. \/ NextRange(r) = [req[r] EXCEPT !.at = "stream", !.k = @ + 1]
        \/ NextRange(r) = [req[r] EXCEPT !.at = "report"]
    BY <2>2 DEF NextRange
  <2>7. /\ DOMAIN NextRange(r) = ReqFields /\ NextRange(r).size = req[r].size /\ NextRange(r).ranges = req[r].ranges
        /\ NextRange(r).sent = req[r].sent
    BY <2>6 DEF Inv, Shape, ReqFields
  <2>8. Served(NextRange(r))
    BY <1>1, <2>2, <2>3, <2>5, <2>7, NextRangeServed
  <2> QED
    BY <1>2, <2>1, <2>8
<1> QED
  BY <1>3, <1>4

-----------------------------------------------------------------------------
(* Fetchers *)

(* A fetcher that has its job and is neither at its answer nor storing.    *)
LEMMA FetchedWaits ==
    ASSUME NEW q, NEW x, NEW y, Fetched(q, x), x.at # "idle", y.job = x.job, y.at \notin {"data", "store"}
    PROVE  Fetched(q, y)
BY DEF Fetched

(* A fetcher takes the next job.                                           *)
LEMMA TakeJobExact ==
    ASSUME Inv, Exact, NEW r \in Requests, NEW f \in Fetchers, TakeJob(r, f)
    PROVE  Exact'
<1> DEFINE z == FromMedia(r, f, req[r].job, source)
           n == req[r].job + 1
           y == [req[r] EXCEPT !.job = n]
<1>1. /\ fetch' = [fetch EXCEPT ![r][f] = z] /\ UNCHANGED <<link, credits, remote>>
      /\ req[r].at = "chunks" /\ req[r].job <= Jobs(req[r].ranges[req[r].k])
  BY DEF TakeJob, storeVars, outside
<1>2. \A q \in Requests : req'[q] = IF q = r THEN y ELSE req[q]
  BY DEF TakeJob, Inv, Shape
<1>3. z.at = "permit" /\ z.job = req[r].job
  BY DEF FromMedia, NoFetch
<1> HIDE DEF z
<1>4. Served(req[r])
  BY DEF Exact
<1>5. req[r].job \in Nat \ {0} /\ n \in Nat \ {0}
  <2>1. req[r].job \in Nat \ {0}
    BY <1>1, <1>4, Zenon DEF Served
  <2> QED
    BY <2>1
<1> HIDE DEF n
<1>6. /\ y.at = req[r].at /\ y.size = req[r].size /\ y.ranges = req[r].ranges /\ y.k = req[r].k
      /\ y.sent = req[r].sent /\ y.next = req[r].next /\ y.job = n
  BY DEF Inv, Shape, ReqFields
<1> HIDE DEF y
<1>7. Current(y) = Current(req[r])
  BY <1>6 DEF Current
<1>8. Served(y)
  BY <1>1, <1>4, <1>5, <1>6, <1>7, Zenon DEF Served
<1>9. Fetched(y, z)
  <2>1. PICK range \in Nat \X Nat : range = Current(req[r])
    BY <1>1, <1>4, CurrentSpan
  <2>2. Jobs(range) \in Nat
    BY <1>1, <1>4, <2>1, CurrentSpan, JobsFollow
  <2>3. z.job \in 1..Jobs(Current(y))
    BY <1>1, <1>3, <1>5, <1>7, <2>1, <2>2 DEF Current
  <2> QED
    BY <1>3, <2>3 DEF Fetched
<1> QED
  BY <1>1, <1>2, <1>6, <1>8, <1>9, FetcherExact DEF Exact

(* A fetcher that goes on with its job, before its answer.                 *)
LEMMA WaitsExact ==
    ASSUME Inv, Exact, NEW r \in Requests, NEW f \in Fetchers, NEW z, UNCHANGED <<req, remote>>,
           fetch' = [fetch EXCEPT ![r][f] = z], z.job = fetch[r][f].job, z.at \notin {"data", "store"},
           fetch[r][f].at # "idle", Accounted(link', credits')
    PROVE  Exact'
<1>1. Fetched(req[r], z)
  BY FetchedWaits DEF Exact
<1> QED
  BY <1>1, FetcherAloneExact

(* A call is made for the job the fetcher has.                             *)
LEMMA AcquireExact ==
    ASSUME Inv, Exact, NEW r \in Requests, NEW f \in Fetchers, AcquireChunk(r, f)
    PROVE  Exact'
<1> DEFINE g == IF Alive(r) THEN conns.cur ELSE 0
           z == [fetch[r][f] EXCEPT !.at = "call", !.gen = g]
<1>1. fetch' = [fetch EXCEPT ![r][f] = z]
  BY DEF AcquireChunk, Inv, Shape, FetchFields
<1>2. UNCHANGED <<req, link, credits, remote>> /\ fetch[r][f].at = "permit"
  BY DEF AcquireChunk, storeVars, outside
<1> HIDE DEF g
<1>3. z.at = "call" /\ z.job = fetch[r][f].job
  BY DEF Inv, Shape, FetchFields
<1> HIDE DEF z
<1> QED
  BY <1>1, <1>2, <1>3, WaitsExact DEF Exact

(* A transient error is retried with the same job, or ends the stream.     *)
LEMMA RetryExact ==
    ASSUME Inv, Exact, NEW r \in Requests, NEW f \in Fetchers, RetryTransient(r, f), fetch[r][f].at = "call",
           UNCHANGED <<link, credits, remote>>
    PROVE  Exact'
<1>1. CASE fetch[r][f].tries < MaxRetries
  <2> DEFINE t == fetch[r][f].tries + 1
             z == [fetch[r][f] EXCEPT !.at = "permit", !.gen = 0, !.tries = t]
  <2>1. UNCHANGED req
    BY <1>1 DEF RetryTransient
  <2>2. fetch' = [fetch EXCEPT ![r][f].at = "permit", ![r][f].gen = 0, ![r][f].tries = @ + 1]
    BY <1>1 DEF RetryTransient
  <2>3. fetch' = [fetch EXCEPT ![r][f] = z]
    BY <2>2 DEF Inv, Shape, FetchFields
  <2> HIDE DEF t
  <2>4. z.at = "permit" /\ z.job = fetch[r][f].job
    BY DEF Inv, Shape, FetchFields
  <2> HIDE DEF z
  <2> QED
    BY <2>1, <2>3, <2>4, WaitsExact DEF Exact
<1>2. CASE ~(fetch[r][f].tries < MaxRetries)
  BY <1>2, FailExact DEF RetryTransient, Exact
<1> QED
  BY <1>1, <1>2

(* A full answer has the bytes of its job.                                 *)
LEMMA CallReturnsExact ==
    ASSUME Inv, Exact, NEW r \in Requests, NEW f \in Fetchers, CallReturns(r, f)
    PROVE  Exact'
<1> DEFINE job == JobOf(r, f)
           d == Slice(Reply(job), job)
           x == [fetch[r][f] EXCEPT !.at = "renew", !.gen = 0]
           z == [fetch[r][f] EXCEPT !.at = "data", !.tries = 0, !.gen = 0, !.data = d]
<1>1. fetch[r][f].at = "call" /\ UNCHANGED <<link, credits, remote>>
  BY DEF CallReturns, storeVars, outside
<1>2. \/ RetryTransient(r, f)
      \/ FetchFails(r, f)
      \/ /\ fetch' = [fetch EXCEPT ![r][f].at = "renew", ![r][f].gen = 0]
         /\ UNCHANGED req
      \/ /\ fetch' = [fetch EXCEPT ![r][f] = z]
         /\ UNCHANGED req /\ ~Short(Reply(job), job)
  BY DEF CallReturns
<1>3. CASE RetryTransient(r, f)
  BY <1>1, <1>3, RetryExact
<1>4. CASE FetchFails(r, f)
  BY <1>1, <1>4, FailExact DEF Exact
<1>5. CASE /\ fetch' = [fetch EXCEPT ![r][f].at = "renew", ![r][f].gen = 0]
           /\ UNCHANGED req
  <2>1. fetch' = [fetch EXCEPT ![r][f] = x]
    BY <1>5 DEF Inv, Shape, FetchFields
  <2>2. x.at = "renew" /\ x.job = fetch[r][f].job
    BY DEF Inv, Shape, FetchFields
  <2> HIDE DEF x
  <2> QED
    BY <1>1, <1>5, <2>1, <2>2, WaitsExact DEF Exact
<1>6. CASE /\ fetch' = [fetch EXCEPT ![r][f] = z]
           /\ UNCHANGED req /\ ~Short(Reply(job), job)
  <2>1. Fetched(req[r], fetch[r][f]) /\ Served(req[r]) /\ req[r].at = "chunks" /\ remote.size \in Nat
    BY <1>1 DEF Exact, Inv, Inside
  <2>2. PICK range \in Nat \X Nat : range = Current(req[r])
    BY <2>1, CurrentSpan
  <2>3. PICK j \in 1..Jobs(range) : j = fetch[r][f].job
    BY <1>1, <2>1, <2>2 DEF Fetched
  <2>4. job = Job(range, j)
    BY <2>2, <2>3 DEF JobOf, Current
  <2>5. range[1] <= range[2]
    BY <2>1, <2>2, CurrentSpan
  <2>6. ~Short(Reply(Job(range, j)), Job(range, j))
    BY <1>6, <2>4
  <2>7. Slice(Reply(Job(range, j)), Job(range, j)) = Bytes(<<First(range, j), Final(range, j)>>)
    BY <2>1, <2>5, <2>6, SliceIs
  <2>8. d = Bytes(<<First(range, j), Final(range, j)>>)
    BY <2>4, <2>7
  <2> HIDE DEF d, job
  <2>9. fetch' = [fetch EXCEPT ![r][f] = z]
    BY <1>6
  <2>10. z.at = "data" /\ z.job = fetch[r][f].job /\ z.data = d
    BY DEF Inv, Shape, FetchFields
  <2> HIDE DEF z
  <2>11. Fetched(req[r], z)
    BY <2>2, <2>3, <2>8, <2>10 DEF Fetched
  <2> QED
    BY <1>1, <1>6, <2>9, <2>11, FetcherAloneExact DEF Exact
<1> QED
  BY <1>2, <1>3, <1>4, <1>5, <1>6

(* A call that fails, and a cancelled fetcher.                             *)
LEMMA CallFailsExact ==
    ASSUME Inv, Exact, NEW r \in Requests, NEW f \in Fetchers, CallFails(r, f) \/ Interrupted(r, f)
    PROVE  Exact'
<1> DEFINE z == [fetch[r][f] EXCEPT !.at = "permit", !.gen = 0]
<1>1. UNCHANGED <<link, credits, remote>>
  BY DEF CallFails, Interrupted, storeVars, outside
<1>2. CASE FetchFails(r, f)
  BY <1>1, <1>2, FailExact DEF Exact
<1>3. CASE ~FetchFails(r, f)
  <2>1. fetch[r][f].at = "call"
    BY <1>3 DEF CallFails, Interrupted
  <2>2. CASE RetryTransient(r, f)
    BY <1>1, <2>1, <2>2, RetryExact
  <2>3. CASE ~RetryTransient(r, f)
    <3>1. fetch' = [fetch EXCEPT ![r][f].at = "permit", ![r][f].gen = 0] /\ UNCHANGED req
      BY <1>3, <2>3 DEF CallFails, Interrupted
    <3>2. fetch' = [fetch EXCEPT ![r][f] = z]
      BY <3>1 DEF Inv, Shape, FetchFields
    <3>3. z.at = "permit" /\ z.job = fetch[r][f].job
      BY DEF Inv, Shape, FetchFields
    <3> HIDE DEF z
    <3> QED
      BY <1>1, <2>1, <3>1, <3>2, <3>3, WaitsExact DEF Exact
  <2> QED
    BY <2>2, <2>3
<1> QED
  BY <1>2, <1>3

(* A fetcher that reads the media again keeps its job.                     *)
LEMMA FromMediaJob ==
    \A r, f, job, media : FromMedia(r, f, job, media).at = "permit" /\ FromMedia(r, f, job, media).job = job
BY DEF FromMedia, NoFetch

(* The refresh lock is taken, or another fetcher has renewed the media.    *)
LEMMA RenewLockExact ==
    ASSUME Inv, Exact, NEW r \in Requests, NEW f \in Fetchers, RenewLock(r, f)
    PROVE  Exact'
<1>1. UNCHANGED <<req, link, credits, remote>> /\ fetch[r][f].at = "renew"
  BY DEF RenewLock, storeVars, outside
<1>2. CASE source.ver # fetch[r][f].ver
  <2> DEFINE z == FromMedia(r, f, fetch[r][f].job, source)
  <2>1. fetch' = [fetch EXCEPT ![r][f] = z]
    BY <1>2 DEF RenewLock, Inv, Shape
  <2>2. z.at = "permit" /\ z.job = fetch[r][f].job
    BY FromMediaJob
  <2> HIDE DEF z
  <2> QED
    BY <1>1, <2>1, <2>2, WaitsExact DEF Exact
<1>3. CASE source.ver = fetch[r][f].ver
  <2> DEFINE z == [fetch[r][f] EXCEPT !.at = "ask"]
  <2>1. fetch' = [fetch EXCEPT ![r][f] = z]
    BY <1>3 DEF RenewLock, Inv, Shape, FetchFields
  <2>2. z.at = "ask" /\ z.job = fetch[r][f].job
    BY DEF Inv, Shape, FetchFields
  <2> HIDE DEF z
  <2> QED
    BY <1>1, <2>1, <2>2, WaitsExact DEF Exact
<1> QED
  BY <1>2, <1>3

(* The size of the new media is that of the file.                          *)
LEMMA RenewAskExact ==
    ASSUME Inv, Exact, NEW r \in Requests, NEW f \in Fetchers, RenewAsk(r, f)
    PROVE  Exact'
<1>1. UNCHANGED <<link, credits, remote>> /\ fetch[r][f].at = "ask"
  BY DEF RenewAsk, storeVars, outside
<1>2. CASE FetchFails(r, f)
  BY <1>1, <1>2, FailExact DEF Exact
<1>3. CASE ~FetchFails(r, f)
  <2> DEFINE z == [fetch[r][f] EXCEPT !.at = "store", !.ref = remote.ref, !.size = remote.size]
  <2>1. /\ fetch' = [fetch EXCEPT ![r][f].at = "store", ![r][f].ref = remote.ref, ![r][f].size = remote.size]
        /\ UNCHANGED req
    BY <1>3 DEF RenewAsk
  <2>2. fetch' = [fetch EXCEPT ![r][f] = z]
    BY <2>1 DEF Inv, Shape, FetchFields
  <2>3. z.at = "store" /\ z.job = fetch[r][f].job /\ z.size = remote.size
    BY DEF Inv, Shape, FetchFields
  <2> HIDE DEF z
  <2>4. Fetched(req[r], z)
    BY <1>1, <2>3 DEF Exact, Fetched
  <2> QED
    BY <1>1, <2>1, <2>2, <2>4, FetcherAloneExact DEF Exact
<1> QED
  BY <1>2, <1>3

(* A renewal that fails ends its fetcher.                                  *)
LEMMA RenewFailsExact ==
    ASSUME Inv, Exact, NEW r \in Requests, NEW f \in Fetchers, RenewFails(r, f)
    PROVE  Exact'
BY FailExact DEF RenewFails, storeVars, outside, Exact

(* The task is saved: the record of the delivery stays.                    *)
LEMMA RenewStoreExact ==
    ASSUME Inv, Exact, NEW r \in Requests, NEW f \in Fetchers, RenewStore(r, f)
    PROVE  Exact'
<1>1. UNCHANGED <<req, remote>> /\ fetch[r][f].at = "store"
  BY DEF RenewStore, outside
<1>2. Accounted(link', credits')
  <2>1. fetch[r][f].size \in Nat /\ Accounted(link, credits)
    BY <1>1 DEF Exact, Fetched
  <2>2. /\ link' = Added(fetch[r][f].size, fetch[r][f].ref, req[r].active)
        /\ credits' = IF Swept(link) = NoLink THEN {} ELSE credits
    BY DEF RenewStore
  <2> QED
    BY <2>1, <2>2, AddedSound
<1> DEFINE z == [fetch[r][f] EXCEPT !.at = "load"]
<1>3. fetch' = [fetch EXCEPT ![r][f] = z]
  BY DEF RenewStore, Inv, Shape, FetchFields
<1>4. z.at = "load" /\ z.job = fetch[r][f].job
  BY DEF Inv, Shape, FetchFields
<1> HIDE DEF z
<1> QED
  BY <1>1, <1>2, <1>3, <1>4, WaitsExact

(* The task is loaded again.                                               *)
LEMMA RenewLoadExact ==
    ASSUME Inv, Exact, NEW r \in Requests, NEW f \in Fetchers, RenewLoad(r, f)
    PROVE  Exact'
<1>1. UNCHANGED remote /\ fetch[r][f].at = "load" /\ Stored(Got)
  BY DEF RenewLoad, outside
<1>2. Accounted(link', credits')
  BY <1>1, GotSound DEF Exact
<1>3. CASE FetchFails(r, f)
  BY <1>1, <1>2, <1>3, FailExact
<1>4. CASE ~FetchFails(r, f)
  <2> DEFINE m == [ref |-> Got.ref, ver |-> source.ver + 1]
             z == FromMedia(r, f, fetch[r][f].job, m)
  <2>1. UNCHANGED req
    BY <1>4 DEF RenewLoad
  <2>2. fetch' = [fetch EXCEPT ![r][f] = z]
    BY <1>4 DEF RenewLoad, Inv, Shape
  <2> HIDE DEF m
  <2>3. z.at = "permit" /\ z.job = fetch[r][f].job
    BY FromMediaJob
  <2> HIDE DEF z
  <2> QED
    BY <1>1, <1>2, <2>1, <2>2, <2>3, WaitsExact
<1> QED
  BY <1>3, <1>4

(* The writer sends the bytes of the job it waits for.                     *)
LEMMA WriteExact ==
    ASSUME Inv, Exact, NEW r \in Requests, NEW f \in Fetchers, Write(r, f)
    PROVE  Exact'
<1>1. /\ UNCHANGED <<link, credits, remote>> /\ fetch[r][f].at = "data" /\ req[r].at = "chunks"
      /\ fetch[r][f].job = req[r].next
  BY DEF Write, Turn, storeVars, outside
<1>2. CASE FetchFails(r, f)
  BY <1>1, <1>2, FailExact DEF Exact
<1>3. CASE ~FetchFails(r, f)
  <2> DEFINE s == req[r].sent \o fetch[r][f].data
             n == req[r].next + 1
             y == [req[r] EXCEPT !.sent = s, !.next = n]
  <2>1. /\ fetch' = [fetch EXCEPT ![r][f] = NoFetch]
        /\ req' = [req EXCEPT ![r].sent = @ \o fetch[r][f].data, ![r].next = @ + 1]
    BY <1>3 DEF Write
  <2>2. req' = [req EXCEPT ![r] = y]
    BY <2>1 DEF Inv, Shape, ReqFields
  <2>3. Served(req[r]) /\ Fetched(req[r], fetch[r][f])
    BY DEF Exact
  <2>4. PICK range \in Nat \X Nat : range = Current(req[r])
    BY <1>1, <2>3, CurrentSpan
  <2>5. range[1] <= range[2]
    BY <1>1, <2>3, <2>4, CurrentSpan
  <2>6. PICK j \in 1..Jobs(range) : j = req[r].next
    BY <1>1, <2>3, <2>4 DEF Fetched
  <2>7. /\ Jobs(range) \in Nat /\ First(range, j) \in Nat /\ Final(range, j) \in Nat
        /\ range[1] <= First(range, j) /\ First(range, j) <= Final(range, j)
        /\ Reached(range, j) = First(range, j) /\ Reached(range, j + 1) = Final(range, j) + 1
    BY <2>5, JobsFollow
  <2>8. PICK a \in Nat, b \in Nat, c \in Nat : a = range[1] /\ b = First(range, j) /\ c = Final(range, j) + 1
    BY <2>7
  <2>9. a <= b /\ b <= c /\ c - 1 = Final(range, j)
    BY <2>7, <2>8
  <2>10. Bytes(<<a, b - 1>>) \o Bytes(<<b, c - 1>>) = Bytes(<<a, c - 1>>)
    BY <2>9, BytesJoin
  <2>11. Bytes(<<a, b - 1>>) \in Seq(Nat) /\ Bytes(<<b, c - 1>>) \in Seq(Nat)
    BY <2>8, BytesAre
  <2>12. PICK u \in Seq(Nat) : u = Upto(req[r].ranges)[req[r].k - 1]
    BY <1>1, <2>3, CurrentSpan
  <2>13. req[r].sent = u \o Bytes(<<a, b - 1>>)
    BY <1>1, <2>3, <2>4, <2>6, <2>7, <2>8, <2>12 DEF Served
  <2>14. fetch[r][f].data = Bytes(<<b, c - 1>>)
    BY <1>1, <2>3, <2>4, <2>6, <2>8, <2>9 DEF Fetched
  <2>15. s = u \o Bytes(<<a, c - 1>>)
    <3>1. PICK v \in Seq(Nat), w \in Seq(Nat) : v = Bytes(<<a, b - 1>>) /\ w = Bytes(<<b, c - 1>>)
      BY <2>11
    <3>2. (u \o v) \o w = u \o (v \o w)
      BY Associative
    <3>3. s = (u \o v) \o w
      BY <2>13, <2>14, <3>1
    <3> QED
      BY <2>10, <3>1, <3>2, <3>3
  <2>16. n = j + 1
    BY <2>6
  <2> HIDE DEF s, n
  <2>17. /\ y.at = req[r].at /\ y.size = req[r].size /\ y.ranges = req[r].ranges /\ y.k = req[r].k
         /\ y.sent = s /\ y.next = n /\ y.job = req[r].job
    BY DEF Inv, Shape, ReqFields
  <2> HIDE DEF y
  <2>18. Current(y) = range
    BY <2>4, <2>17 DEF Current
  <2>19. y.next \in 1..(Jobs(range) + 1) /\ Reached(range, y.next) = c
    <3>1. y.next = j + 1 /\ Reached(range, j + 1) = c
      BY <2>7, <2>8, <2>16, <2>17
    <3>2. j + 1 \in 1..(Jobs(range) + 1)
      BY <2>7
    <3> QED
      BY <3>1, <3>2
  <2>20. y.sent = Upto(y.ranges)[y.k - 1] \o Bytes(<<Current(y)[1], Reached(Current(y), y.next) - 1>>)
    BY <2>8, <2>12, <2>15, <2>17, <2>18, <2>19
  <2>21. Served(y)
    BY <1>1, <2>3, <2>17, <2>18, <2>19, <2>20 DEF Served
  <2>22. Fetched(y, NoFetch)
    BY FetchedNothing, ConstantShapes
  <2>23. \A q \in Requests : req'[q] = IF q = r THEN y ELSE req[q]
    BY <2>2 DEF Inv, Shape
  <2> QED
    BY <1>1, <2>1, <2>17, <2>21, <2>22, <2>23, FetcherExact DEF Exact
<1> QED
  BY <1>2, <1>3

-----------------------------------------------------------------------------
(* The server and what happens around it *)

(* A step that leaves requests, fetchers and what was sent alone.          *)
LEMMA NothingExact ==
    ASSUME Exact, UNCHANGED <<req, fetch>>, Accounted(link', credits'), remote'.size \in Nat
    PROVE  Exact'
BY DEF Exact

(* A step that changes of every request at most a field that has no part   *)
(* in what is sent.                                                        *)
LEMMA ContextExact ==
    ASSUME Inv, Exact, UNCHANGED <<fetch, link, credits, remote>>,
           \A q \in Requests : req'[q] = req[q] \/ \E i \in Plain : \E v : req'[q] = [req[q] EXCEPT ![i] = v]
    PROVE  Exact'
<1>1. ASSUME NEW q \in Requests
      PROVE  Served(req'[q]) /\ \A x : Fetched(req[q], x) => Fetched(req'[q], x)
  <2>1. Served(req[q])
    BY DEF Exact
  <2>2. CASE req'[q] = req[q]
    BY <2>1, <2>2
  <2>3. CASE \E i \in Plain : \E v : req'[q] = [req[q] EXCEPT ![i] = v]
    <3>1. PICK i \in Plain : \E v : req'[q] = [req[q] EXCEPT ![i] = v]
      BY <2>3
    <3>2. PICK v : req'[q] = [req[q] EXCEPT ![i] = v]
      BY <3>1
    <3> QED
      BY <2>1, <3>2, PlainField
  <2> QED
    BY <2>2, <2>3
<1> QED
  BY <1>1 DEF Exact

(* The server cancels its requests.                                        *)
LEMMA ServerExact ==
    ASSUME Inv, Exact, NEW c, req' = Cancelled(c), UNCHANGED <<fetch, link, credits, remote>>
    PROVE  Exact'
<1>1. ASSUME NEW q \in Requests PROVE req'[q] = req[q] \/ req'[q] = [req[q] EXCEPT !["ctx"] = c]
  BY DEF Cancelled
<1>2. "ctx" \in Plain
  BY DEF Plain
<1> QED
  BY <1>1, <1>2, ContextExact

(* A client leaves or stops reading.                                       *)
LEMMA ClientExact ==
    ASSUME Inv, Exact, NEW r \in Requests, Leaves(r) \/ Stalls(r)
    PROVE  Exact'
<1>1. UNCHANGED <<fetch, link, credits, remote>>
  BY DEF Leaves, Stalls, storeVars, outside
<1>2. "ctx" \in Plain /\ "stuck" \in Plain
  BY DEF Plain
<1>3. CASE Leaves(r)
  <2>1. PICK c : req' = [req EXCEPT ![r] = [req[r] EXCEPT !["ctx"] = c]]
    BY <1>3 DEF Leaves, Inv, Shape
  <2>2. ASSUME NEW q \in Requests PROVE req'[q] = req[q] \/ req'[q] = [req[q] EXCEPT !["ctx"] = c]
    BY <2>1 DEF Inv, Shape
  <2> QED
    BY <1>1, <1>2, <2>2, ContextExact
<1>4. CASE Stalls(r)
  <2>1. req' = [req EXCEPT ![r] = [req[r] EXCEPT !["stuck"] = TRUE]]
    BY <1>4 DEF Stalls, Inv, Shape
  <2>2. ASSUME NEW q \in Requests PROVE req'[q] = req[q] \/ req'[q] = [req[q] EXCEPT !["stuck"] = TRUE]
    BY <2>1 DEF Inv, Shape
  <2> QED
    BY <1>1, <1>2, <2>2, ContextExact
<1> QED
  BY <1>3, <1>4

(* The link is swept, removed or submitted again.                          *)
LEMMA LinkExact ==
    ASSUME Inv, Exact, CleanupExpired \/ RemoveLink \/ NewTask
    PROVE  Exact'
<1>1. UNCHANGED <<req, fetch, remote>>
  BY DEF CleanupExpired, RemoveLink, NewTask, outside
<1>2. CASE Stored(NoLink)
  BY <1>1, <1>2, NothingExact DEF Stored, Accounted, Exact
<1>3. CASE ~Stored(NoLink)
  <2>1. /\ link' = Added(remote.size, remote.ref, now)
        /\ credits' = IF Swept(link) = NoLink THEN {} ELSE credits
    BY <1>3 DEF CleanupExpired, RemoveLink, NewTask
  <2>2. Accounted(link', credits')
    BY <2>1, AddedSound DEF Exact
  <2> QED
    BY <1>1, <2>2, NothingExact DEF Exact
<1> QED
  BY <1>2, <1>3

(* The steps that change neither requests nor the link.                    *)
LEMMA OutsideExact ==
    ASSUME Inv, Exact,
           \/ HandlerStops \/ CloseGeneration \/ ClosePool \/ StartServer \/ PoolChanges \/ Resize
           \/ ReferenceExpires \/ FileChanges \/ LocalFile \/ Tick \/ UpdateConfig \/ CleanupIdle
    PROVE  Exact'
<1>1. UNCHANGED <<req, fetch, link, credits>>
  BY DEF HandlerStops, CloseGeneration, ClosePool, StartServer, PoolChanges, Resize, ReferenceExpires,
         FileChanges, LocalFile, Tick, UpdateConfig, CleanupIdle, storeVars
<1>2. remote'.size \in Nat
  <2>1. CASE UNCHANGED remote
    BY <2>1 DEF Exact
  <2>2. CASE ReferenceExpires
    BY <2>2 DEF ReferenceExpires, Exact
  <2>3. CASE FileChanges
    BY <2>3, DeliveryAssumption DEF FileChanges, Exact
  <2> QED
    BY <2>1, <2>2, <2>3 DEF HandlerStops, CloseGeneration, ClosePool, StartServer, PoolChanges, Resize,
       LocalFile, Tick, UpdateConfig, CleanupIdle, outside
<1> QED
  BY <1>1, <1>2, NothingExact DEF Exact

-----------------------------------------------------------------------------
(* The theorem *)

(* The first state.                                                        *)
LEMMA InitExact == Init => Exact
<1> SUFFICES ASSUME Init PROVE Exact
  OBVIOUS
<1>1. /\ req = [r \in Requests |-> NoReq] /\ fetch = [r \in Requests |-> [f \in Fetchers |-> NoFetch]]
      /\ credits = {}
  BY DEF Init
<1>2. PICK n \in Sizes : /\ link = [size |-> n, ref |-> 1, active |-> 0, dsize |-> 0, ranges |-> <<>>, done |-> FALSE]
                         /\ remote = [ref |-> 1, size |-> n]
  BY DEF Init
<1>3. n \in Nat
  BY DeliveryAssumption
<1>4. /\ DOMAIN link = LinkFields /\ link.size = n /\ link.dsize = 0 /\ link.ranges = <<>> /\ link.done = FALSE
      /\ remote.size = n
  BY <1>2 DEF LinkFields
<1>5. Said({}, 0) = {}
  BY DEF Said
<1>6. link.done \in BOOLEAN
  BY <1>4, Zenon
<1>7. LinkSound(link, {})
  <2>1. link.size \in Nat /\ link.dsize \in Nat /\ link.ranges \in Seq(Cuts(link.dsize))
    BY <1>3, <1>4, NoPositions
  <2>2. Said({}, link.dsize) = IF link.done THEN 0..(link.dsize - 1) ELSE Positions(link.ranges)
    BY <1>4, <1>5, NoPositions
  <2>3. ~(link.dsize > 0)
    BY <1>4
  <2> QED
    BY <1>4, <1>6, <2>1, <2>2, <2>3, Zenon DEF LinkSound
<1>8. link # NoLink
  BY <1>3, <1>4 DEF NoLink
<1>9. Accounted(link, credits)
  BY <1>1, <1>7, <1>8 DEF Accounted
<1>10. \A r \in Requests : Served(req[r])
  BY <1>1, ServedNothing
<1>11. \A r \in Requests, f \in Fetchers : Fetched(req[r], fetch[r][f])
  BY <1>1, ConstantShapes, FetchedNothing
<1> QED
  BY <1>3, <1>4, <1>9, <1>10, <1>11 DEF Exact

(* Every step keeps Exact.                                                 *)
LEMMA NextExact == Inv /\ Exact /\ [Next]_vars => Exact'
<1> SUFFICES ASSUME Inv, Exact, [Next]_vars PROVE Exact'
  OBVIOUS
<1>1. ASSUME NEW r \in Requests, RequestStep(r) PROVE Exact'
  <2>1. CASE ReportFinished(r)
    <3>1. req[r].at # "chunks" /\ req' = [req EXCEPT ![r] = Ended(r)] /\ UNCHANGED <<fetch, remote>>
      BY <2>1 DEF ReportFinished, outside
    <3> QED
      BY <2>1, <3>1, ReportedSound, EndExact
  <2> QED
    BY <1>1, <2>1, OpenExact, WaitExact, StreamFileExact, StartStreamExact, StreamReturnsExact DEF RequestStep
<1>2. ASSUME NEW r \in Requests, NEW f \in Fetchers, FetchStep(r, f) PROVE Exact'
  BY <1>2, TakeJobExact, AcquireExact, CallFailsExact, CallReturnsExact, RenewLockExact,
     RenewAskExact, RenewStoreExact, RenewLoadExact, WriteExact DEF FetchStep
<1>3. CASE StopServer \/ Shutdown
  <2>1. UNCHANGED <<fetch, link, credits, remote>>
    BY <1>3 DEF StopServer, Shutdown, storeVars, outside
  <2> QED
    BY <1>3, <2>1, ServerExact DEF StopServer, Shutdown
<1>4. CASE Internal
  BY <1>1, <1>2, <1>3, <1>4, OutsideExact DEF Internal, ServerStep
<1>5. ASSUME NEW r \in Requests,
             \/ Leaves(r) \/ Stalls(r)
             \/ \E kind \in {"get", "head", "worker"} : Arrive(r, kind)
             \/ \E f \in Fetchers : CallFails(r, f) \/ RenewFails(r, f)
      PROVE  Exact'
  BY <1>5, ClientExact, ArriveExact, CallFailsExact, RenewFailsExact
<1>6. CASE UNCHANGED vars
  <2>1. UNCHANGED <<req, fetch, link, credits, remote>>
    BY <1>6 DEF vars
  <2> QED
    BY <2>1, NothingExact DEF Exact
<1> QED
  BY <1>3, <1>4, <1>5, <1>6, OutsideExact, LinkExact DEF Next

(* What is sent is a prefix of what was promised, and all of it when it is *)
(* reported.                                                               *)
LEMMA ServedMeans ==
    ASSUME NEW q, Served(q)
    PROVE  /\ IsPrefix(q.sent, Upto(q.ranges)[Len(q.ranges)])
           /\ q.at = "report" => q.sent = Upto(q.ranges)[Len(q.ranges)]
<1>1. q.size \in Nat /\ q.ranges \in Seq(Cuts(q.size)) /\ q.k \in 1..(Len(q.ranges) + 1) /\ Len(q.ranges) \in Nat
  BY DEF Served
<1>2. q.ranges \in Seq(Nat \X Nat)
  BY <1>1, CutsAre
<1> DEFINE u == Upto(q.ranges)
           n == Len(q.ranges)
<1>3. ASSUME NEW i \in 0..n PROVE IsPrefix(u[i], u[n])
  <2>1. u[i] \in Seq(Nat)
    BY <1>2, UptoRuns
  <2>2. PICK rest \in Seq(Nat) : u[n] = u[i] \o rest
    BY <1>2, UptoGrows
  <2> HIDE DEF u, n
  <2>3. PICK s \in Seq(Nat) : s = u[i]
    BY <2>1
  <2> QED
    BY <2>2, <2>3, PrefixMeans
<1>4. CASE q.at = "chunks"
  <2>1. PICK range \in Nat \X Nat : range = Current(q)
    BY <1>4, CurrentSpan
  <2>2. q.k \in 1..n /\ u[q.k] = u[q.k - 1] \o Bytes(range) /\ u[q.k - 1] \in Seq(Nat) /\ range[1] <= range[2]
    BY <1>4, <2>1, CurrentSpan
  <2>3. q.next \in 1..(Jobs(range) + 1) /\ q.sent = u[q.k - 1] \o Bytes(<<range[1], Reached(range, q.next) - 1>>)
    BY <1>4, <2>1 DEF Served
  <2>4. PICK b \in Nat : b = Reached(range, q.next) /\ range[1] <= b /\ b <= range[2] + 1
    <3>1. /\ Jobs(range) \in Nat
          /\ \A j \in 1..Jobs(range) : /\ First(range, j) \in Nat /\ Reached(range, j) = First(range, j)
                                        /\ range[1] <= First(range, j) /\ First(range, j) <= Final(range, j)
                                        /\ Final(range, j) <= range[2] /\ Final(range, j) \in Nat
      BY <2>2, JobsFollow
    <3>2. CASE q.next \in 1..Jobs(range)
      <4>1. PICK b \in Nat, c \in Nat : b = First(range, q.next) /\ c = Final(range, q.next)
        BY <3>1, <3>2
      <4>2. b = Reached(range, q.next) /\ range[1] <= b /\ b <= c /\ c <= range[2]
        BY <3>1, <3>2, <4>1
      <4>3. range[1] \in Nat /\ range[2] \in Nat
        OBVIOUS
      <4>4. b <= range[2] + 1
        BY <4>2, <4>3
      <4> QED
        BY <4>2, <4>4
    <3>3. CASE q.next \notin 1..Jobs(range)
      <4>1. q.next > Jobs(range)
        BY <2>3, <3>1, <3>3
      <4>2. Reached(range, q.next) = range[2] + 1
        BY <4>1 DEF Reached
      <4>3. range[1] \in Nat /\ range[2] \in Nat
        OBVIOUS
      <4>4. PICK b \in Nat : b = range[2] + 1
        BY <4>3
      <4> QED
        BY <2>2, <4>2, <4>3, <4>4
    <3> QED
      BY <3>2, <3>3
  <2>5. PICK a \in Nat, c \in Nat : a = range[1] /\ c = range[2] + 1 /\ range = <<a, c - 1>>
    <3>1. range = <<range[1], range[2]>> /\ range[2] = (range[2] + 1) - 1
      OBVIOUS
    <3> QED
      BY <3>1
  <2>6. Bytes(<<a, b - 1>>) \o Bytes(<<b, c - 1>>) = Bytes(<<a, c - 1>>)
    <3>1. a <= b /\ b <= c
      BY <2>4, <2>5
    <3> QED
      BY <3>1, BytesJoin
  <2>7. PICK v \in Seq(Nat), w \in Seq(Nat) : v = Bytes(<<a, b - 1>>) /\ w = Bytes(<<b, c - 1>>)
    BY BytesAre
  <2>8. PICK x \in Seq(Nat) : x = u[q.k - 1]
    BY <2>2
  <2>9. PICK rest \in Seq(Nat) : u[n] = u[q.k] \o rest
    <3>1. q.k \in 0..n
      BY <2>2
    <3> QED
      BY <1>2, <3>1, UptoGrows
  <2> HIDE DEF u, n
  <2>10. q.sent = x \o v
    BY <2>3, <2>4, <2>5, <2>7, <2>8
  <2>11. u[n] = (x \o (v \o w)) \o rest
    BY <2>2, <2>5, <2>6, <2>7, <2>8, <2>9
  <2>12. x \o v \in Seq(Nat) /\ w \o rest \in Seq(Nat) /\ v \o w \in Seq(Nat)
    OBVIOUS
  <2>13. u[n] = (x \o v) \o (w \o rest)
    <3>1. x \o (v \o w) = (x \o v) \o w
      BY Associative
    <3>2. ((x \o v) \o w) \o rest = (x \o v) \o (w \o rest)
      <4>1. PICK s \in Seq(Nat) : s = x \o v
        BY <2>12
      <4>2. (s \o w) \o rest = s \o (w \o rest)
        BY Associative
      <4> QED
        BY <4>1, <4>2
    <3> QED
      BY <2>11, <3>1, <3>2
  <2>14. IsPrefix(q.sent, u[n])
    BY <2>10, <2>12, <2>13, PrefixMeans
  <2> QED
    BY <1>4, <2>14 DEF u, n
<1>5. CASE q.at = "report"
  <2>1. q.sent = u[n]
    BY <1>5 DEF Served
  <2>2. n \in 0..n
    BY <1>1
  <2> QED
    BY <1>3, <2>1, <2>2
<1>6. CASE q.at \notin {"chunks", "report"}
  <2>1. q.sent = u[q.k - 1] /\ q.k - 1 \in 0..n
    BY <1>1, <1>6 DEF Served
  <2> QED
    BY <1>3, <1>6, <2>1
<1> QED
  BY <1>4, <1>5, <1>6

(* The invariant has what the property says.                               *)
LEMMA ExactMeans == Exact => BytesExact
<1> SUFFICES ASSUME Exact PROVE BytesExact
  OBVIOUS
<1>1. StreamExact
  BY ServedMeans DEF StreamExact, Exact
<1>2. DeliveryExact
  <2>1. \A n : Delivered(n) = Said(credits, n)
    BY DEF Delivered, Said
  <2>2. link # NoLink => LinkSound(link, credits)
    BY DEF Exact, Accounted
  <2> QED
    BY <2>1, <2>2, Zenon DEF DeliveryExact, LinkSound
<1> QED
  BY <1>1, <1>2 DEF BytesExact

(* A client gets the bytes of the ranges it was promised, each once and in *)
(* their order, for any file, ranges, window, number of fetchers and       *)
(* retries, whatever is renewed, resized, cancelled or fetched in          *)
(* parallel; a response is reported only when all of them were written;    *)
(* and the record of the link says exactly what whole responses delivered  *)
(* of a file of this size, and is completed exactly when nothing of it is  *)
(* missing.                                                                *)
THEOREM DeliveryBytesExact == Spec => []BytesExact
<1>1. Spec => []Inv
  BY InitInv, NextInv, PTL DEF Spec
<1>2. Spec => [](Inv /\ Exact)
  BY <1>1, InitExact, NextExact, PTL DEF Spec
<1> QED
  BY <1>2, ExactMeans, PTL
=============================================================================
