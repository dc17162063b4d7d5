---------------------- MODULE DownloadSchedulerProofs ----------------------
(***************************************************************************)
(* Proofs about DownloadScheduler.                                         *)
(***************************************************************************)
EXTENDS DownloadScheduler, FiniteSetTheorems, SequenceTheorems, TLAPS

(* A request that counts in taskState.refs.                                *)
Registered == {"loop", "waitReady", "tokenTry", "tokenWait", "tokenOk",
               "tokenFail", "undo", "leased"}

-----------------------------------------------------------------------------
(* Sequences *)

(* Taking an element out of a list: dcTasks stays a list of the same kind. *)
LEMMA WithoutType ==
  ASSUME NEW S, NEW s \in Seq(S), NEW x
  PROVE  Without(s, x) \in Seq(S)
<1>1. CASE x \in Elems(s)
  <2> DEFINE i == CHOOSE j \in DOMAIN s : s[j] = x
  <2>1. i \in 1..Len(s)
    BY <1>1 DEF Elems
  <2>2. \A j \in 1..Len(s) : s[j] \in S
    BY ElementOfSeq
  <2> HIDE DEF i
  <2>3. SubSeq(s, 1, i - 1) \in Seq(S) /\ SubSeq(s, i + 1, Len(s)) \in Seq(S)
    BY <2>1, <2>2, SubSeqProperties
  <2> QED BY <1>1, <2>3, ConcatProperties DEF Without, i
<1>2. CASE x \notin Elems(s)
  BY <1>2 DEF Without
<1> QED BY <1>1, <1>2

(* A suffix of a queue is a queue of the same kind.                        *)
LEMMA SuffixType ==
  ASSUME NEW S, NEW s \in Seq(S), NEW k \in DOMAIN s
  PROVE  /\ k \in 1..Len(s)
         /\ SubSeq(s, k + 1, Len(s)) \in Seq(S)
         /\ Len(SubSeq(s, k + 1, Len(s))) = Len(s) - k
         /\ \A i \in 1..(Len(s) - k) : SubSeq(s, k + 1, Len(s))[i] = s[k + i]
<1>1. k \in 1..Len(s)
  OBVIOUS
<1>2. \A j \in 1..Len(s) : s[j] \in S
  BY ElementOfSeq
<1> QED BY <1>1, <1>2, SubSeqProperties

-----------------------------------------------------------------------------
(* Type correctness *)

(* What type correctness rests on: whoever follows the pointer to an       *)
(* object has one.                                                         *)
PointersSet ==
    /\ \A r \in Reqs : pc[r] \in Registered => obj[r] \in Reqs
    /\ \A c \in Chunks : cpc[c] # "idle" => HasLease(LeaseOf[c])

TInv == TypeOK /\ PointersSet

(* What a request and a chunk name exists.                                 *)
LEMMA ConstantTypes ==
  /\ \A r \in Reqs : TaskOf[r] \in Tasks /\ DCOf[r] \in DCs
  /\ \A c \in Chunks : LeaseOf[c] \in Reqs
  /\ None \notin Reqs
BY SchedulerAssumption

(* A configured limit is at least one.                                     *)
LEMMA NormalizeType ==
  ASSUME NEW v \in Int
  PROVE  normalizeLimit(v) \in Nat \ {0}
BY DEF normalizeLimit

(* A signal moves parked requests only.                                    *)
LEMMA SignalType ==
  ASSUME NEW p \in [Reqs -> ReqStates]
  PROVE  /\ Signal(p) \in [Reqs -> ReqStates]
         /\ \A r \in Reqs : /\ p[r] = "tokenWait" => Signal(p)[r] = "tokenTry"
                            /\ p[r] # "tokenWait" => Signal(p)[r] = p[r]
BY DEF Signal, ReqStates

(* A new scheduler is well typed.                                          *)
LEMMA TInvInit == Init => TInv
<1> SUFFICES ASSUME Init PROVE TInv
  OBVIOUS
<1>1. capacity \in Nat \ {0} /\ limit \in Nat \ {0}
  BY NormalizeType, SchedulerAssumption DEF Init
<1>2. /\ waiters \in [Reqs -> Seq(Chunks)]
      /\ dcTasks \in [DCs -> Seq(Reqs)]
  BY DEF Init
<1>3. /\ files \in [Tasks -> Reqs \cup {None}]
      /\ refs \in [Reqs -> Nat]
      /\ activating \in [Reqs -> Reqs \cup {None}]
      /\ inFlight \in [Reqs -> Nat]
      /\ dcInFlight \in [DCs -> Nat]
  BY DEF Init
<1>4. /\ pc \in [Reqs -> ReqStates]
      /\ obj \in [Reqs -> Reqs \cup {None}]
      /\ cpc \in [Chunks -> ChunkStates]
  BY DEF Init, ReqStates, ChunkStates
<1>5. /\ used \in Nat /\ dispatching \subseteq DCs /\ active \subseteq Reqs
      /\ granted \subseteq Chunks /\ canceled \subseteq Chunks
      /\ ctxDone \subseteq Cancelable
  BY DEF Init
<1>6. panicked \in BOOLEAN
  BY DEF Init
<1>7. reconfigs \in 0..MaxReconfigs
  BY SchedulerAssumption DEF Init
<1>8. TypeOK
  BY <1>1, <1>2, <1>3, <1>4, <1>5, <1>6, <1>7 DEF TypeOK
<1>9. PointersSet
  BY DEF Init, PointersSet, Registered
<1> QED BY <1>8, <1>9 DEF TInv

(* releaseTask keeps the types, for a registered caller.                   *)
LEMMA ReleaseTaskType ==
  ASSUME TInv, NEW r \in Reqs, pc[r] \in Registered,
         NEW ptr \in {None, obj[r]}, pc[r] = "leased" => ptr = obj[r],
         ReleaseTask(r, ptr)
  PROVE  TInv'
<1> DEFINE o == obj[r]
<1>1. o \in Reqs
  BY DEF TInv, PointersSet
<1>2. refs' \in [Reqs -> Nat]
  BY <1>1 DEF ReleaseTask, TInv, TypeOK
<1>3. waiters' \in [Reqs -> Seq(Chunks)]
  BY <1>1 DEF ReleaseTask, TInv, TypeOK
<1>4. canceled' \subseteq Chunks
  BY <1>1, ElementOfSeq DEF ReleaseTask, TInv, TypeOK, WaitersClosed, Elems
<1>5. dcTasks' \in [DCs -> Seq(Reqs)]
  <2>1. Without(dcTasks[DCOf[o]], o) \in Seq(Reqs)
    BY <1>1, WithoutType, ConstantTypes DEF TInv, TypeOK
  <2> QED BY <1>1, <2>1 DEF ReleaseTask, RemoveActiveTask, TInv, TypeOK
<1>6. /\ active' \subseteq Reqs
      /\ files' \in [Tasks -> Reqs \cup {None}]
      /\ dispatching' \subseteq DCs
  <2>1. active' \subseteq Reqs
    BY DEF ReleaseTask, RemoveActiveTask, TInv, TypeOK
  <2>2. files' \in [Tasks -> Reqs \cup {None}]
    BY DEF ReleaseTask, RemoveActiveTask, TInv, TypeOK
  <2>3. dispatching' \subseteq DCs
    BY <1>1, ConstantTypes DEF ReleaseTask, RemoveActiveTask, TInv, TypeOK
  <2> QED BY <2>1, <2>2, <2>3
<1>7. pc' \in [Reqs -> ReqStates] /\ obj' \in [Reqs -> Reqs \cup {None}]
  BY <1>1 DEF ReleaseTask, TInv, TypeOK, ReqStates
<1>8. TypeOK'
  BY <1>2, <1>3, <1>4, <1>5, <1>6, <1>7 DEF ReleaseTask, TInv, TypeOK, limiter, envVars
<1>9. PointersSet'
  BY <1>1 DEF ReleaseTask, PointersSet, TInv, TypeOK, Registered, HasLease
<1> QED BY <1>8, <1>9 DEF TInv

(* fileLimiter.release keeps the types.                                    *)
LEMMA ReleaseFileType ==
  ASSUME TInv, NEW p \in [Reqs -> ReqStates], ReleaseFile(p)
  PROVE  /\ pc' \in [Reqs -> ReqStates]
         /\ used' \in Nat /\ panicked' \in BOOLEAN
         /\ \A r \in Reqs : pc'[r] = p[r] \/ (p[r] = "tokenWait" /\ pc'[r] = "tokenTry")
<1>1. CASE used = 0
  BY <1>1 DEF ReleaseFile, TInv, TypeOK
<1>2. CASE used # 0
  BY <1>2, SignalType DEF ReleaseFile, TInv, TypeOK
<1> QED BY <1>1, <1>2

(* releaseChunkLocked keeps the types, for a chunk that was admitted or is *)
(* waiting.                                                                *)
LEMMA ReleaseChunkType ==
  ASSUME TInv, NEW c \in Chunks, cpc[c] \in {"waiting", "held"}, ReleaseChunkLocked(c)
  PROVE  TInv'
<1> DEFINE o == StateOf(c)
           d == DCOf[o]
<1>1. o \in Reqs /\ d \in DCs /\ TaskOf[o] \in Tasks
  BY ConstantTypes DEF TInv, TypeOK, PointersSet, HasLease, StateOf
<1> HIDE DEF o
<1>2. cpc' \in [Chunks -> ChunkStates]
  BY DEF ReleaseChunkLocked, TInv, TypeOK, ChunkStates
<1>3. inFlight' \in [Reqs -> Nat]
  <2>1. \/ inFlight' = inFlight
        \/ ~(inFlight[o] < 1) /\ inFlight' = [inFlight EXCEPT ![o] = @ - 1]
    BY DEF ReleaseChunkLocked, o
  <2>2. inFlight \in [Reqs -> Nat]
    BY DEF TInv, TypeOK
  <2> QED BY <1>1, <2>1, <2>2
<1>4. dcInFlight' \in [DCs -> Nat]
  <2>1. \/ dcInFlight' = dcInFlight
        \/ ~(dcInFlight[d] < 1) /\ dcInFlight' = [dcInFlight EXCEPT ![d] = @ - 1]
    BY DEF ReleaseChunkLocked, o
  <2>2. dcInFlight \in [DCs -> Nat]
    BY DEF TInv, TypeOK
  <2> QED BY <1>1, <2>1, <2>2
<1>5. dcTasks' \in [DCs -> Seq(Reqs)]
  <2>1. Without(dcTasks[d], o) \in Seq(Reqs)
    BY <1>1, WithoutType DEF TInv, TypeOK
  <2> QED BY <1>1, <2>1 DEF ReleaseChunkLocked, RemoveActiveTask, TInv, TypeOK, o
<1>6. active' \subseteq Reqs
  BY DEF ReleaseChunkLocked, RemoveActiveTask, TInv, TypeOK
<1>7. files' \in [Tasks -> Reqs \cup {None}]
  BY DEF ReleaseChunkLocked, RemoveActiveTask, TInv, TypeOK
<1>8. dispatching' \subseteq DCs
  BY <1>1 DEF ReleaseChunkLocked, RemoveActiveTask, TInv, TypeOK, o
<1>9. /\ pc' \in [Reqs -> ReqStates]
      /\ used' \in Nat /\ panicked' \in BOOLEAN
      /\ \A r \in Reqs : pc'[r] = pc[r] \/ (pc[r] = "tokenWait" /\ pc'[r] = "tokenTry")
  <2>1. pc \in [Reqs -> ReqStates] /\ used \in Nat
    BY DEF TInv, TypeOK
  <2>2. CASE ReleaseFile(pc)
    BY <2>1, <2>2, ReleaseFileType
  <2>3. CASE pc' = pc /\ used' = used /\ panicked' = TRUE
    BY <2>1, <2>3
  <2>4. CASE pc' = pc /\ used' = used /\ panicked' = panicked
    BY <2>1, <2>4 DEF TInv, TypeOK
  <2> QED BY <2>2, <2>3, <2>4 DEF ReleaseChunkLocked
<1>10. TypeOK'
  BY <1>2, <1>3, <1>4, <1>5, <1>6, <1>7, <1>8, <1>9
     DEF ReleaseChunkLocked, TInv, TypeOK, envVars
<1>11. PointersSet'
  BY <1>9, ConstantTypes DEF ReleaseChunkLocked, TInv, TypeOK, PointersSet, Registered, HasLease
<1> QED BY <1>10, <1>11 DEF TInv

(* Every step keeps the types.                                             *)
LEMMA TInvNext == TInv /\ [Next]_vars => TInv'
<1> SUFFICES ASSUME TInv, [Next]_vars PROVE TInv'
  OBVIOUS
<1>1. ASSUME NEW r \in Reqs, AcquireCanceled(r) PROVE TInv'
  <2>1. CASE pc[r] = "idle"
    <3>1. pc[r] # "loop"
      BY <2>1
    <3>2. TypeOK'
      BY <1>1, <3>1 DEF AcquireCanceled, TInv, TypeOK, ReqStates, stateVars, dcVars,
                        limiter, chunkVars, envVars
    <3>3. pc' = [pc EXCEPT ![r] = "done"] /\ cpc' = cpc /\ obj' = obj
      BY <1>1, <3>1 DEF AcquireCanceled, chunkVars
    <3>4. PointersSet'
      BY <3>3, <2>1 DEF TInv, TypeOK, PointersSet, HasLease, Registered
    <3> QED BY <3>2, <3>4 DEF TInv
  <2>2. CASE pc[r] = "loop" /\ ReleaseTask(r, None)
    BY <2>2, ReleaseTaskType DEF Registered
  <2> QED BY <1>1, <2>1, <2>2 DEF AcquireCanceled
<1>2. ASSUME NEW r \in Reqs, AcquireWrongDC(r) PROVE TInv'
  <2>1. TypeOK'
    BY <1>2 DEF AcquireWrongDC, TInv, TypeOK, ReqStates, stateVars, dcVars,
                limiter, chunkVars, envVars
  <2>2. PointersSet'
    BY <1>2 DEF AcquireWrongDC, TInv, TypeOK, PointersSet, HasLease, Registered, chunkVars
  <2> QED BY <2>1, <2>2 DEF TInv
<1>3. ASSUME NEW r \in Reqs, AcquireTask(r) PROVE TInv'
  <2> DEFINE t == TaskOf[r]
             o == IF files[t] = None THEN r ELSE files[t]
  <2>1. o \in Reqs /\ t \in Tasks
    BY ConstantTypes DEF TInv, TypeOK
  <2> HIDE DEF o
  <2>2. files' \in [Tasks -> Reqs \cup {None}] /\ obj' \in [Reqs -> Reqs \cup {None}]
    BY <1>3, <2>1 DEF AcquireTask, TInv, TypeOK, o
  <2>3. PICK x \in {"leased", "waitReady", "tokenTry"} : pc' = [pc EXCEPT ![r] = x]
    BY <1>3 DEF AcquireTask
  <2>4. activating' = activating \/ activating' = [activating EXCEPT ![o] = r]
    BY <1>3 DEF AcquireTask, o
  <2>5. \E n \in {refs[o], refs[o] + 1} : refs' = [refs EXCEPT ![o] = n]
    BY <1>3 DEF AcquireTask, o
  <2>6. /\ pc' \in [Reqs -> ReqStates]
        /\ activating' \in [Reqs -> Reqs \cup {None}]
        /\ refs' \in [Reqs -> Nat]
    <3>1. refs \in [Reqs -> Nat]
      BY DEF TInv, TypeOK
    <3>2. refs' \in [Reqs -> Nat]
      BY <2>1, <2>5, <3>1
    <3>3. pc' \in [Reqs -> ReqStates]
      BY <2>3 DEF TInv, TypeOK, ReqStates
    <3>4. activating' \in [Reqs -> Reqs \cup {None}]
      BY <2>1, <2>4 DEF TInv, TypeOK
    <3> QED BY <3>2, <3>3, <3>4
  <2>7. TypeOK'
    BY <1>3, <2>2, <2>6 DEF AcquireTask, TInv, TypeOK, dcVars, limiter,
                            chunkVars, envVars
  <2>8. obj' = [obj EXCEPT ![r] = o] /\ cpc' = cpc /\ pc[r] \in {"idle", "loop"}
    BY <1>3 DEF AcquireTask, chunkVars, o
  <2>9. PointersSet'
    <3>1. \A q \in Reqs : q # r => pc'[q] = pc[q] /\ obj'[q] = obj[q]
      BY <2>1, <2>3, <2>8 DEF TInv, TypeOK
    <3>2. obj'[r] \in Reqs
      BY <2>1, <2>8 DEF TInv, TypeOK
    <3>3. \A c \in Chunks : cpc[c] # "idle" => LeaseOf[c] # r
      BY <2>8 DEF TInv, PointersSet, HasLease
    <3> QED BY <2>8, <3>1, <3>2, <3>3, ConstantTypes DEF TInv, PointersSet, HasLease
  <2> QED BY <2>7, <2>9 DEF TInv
<1>4. ASSUME NEW r \in Reqs, WaitReadyCanceled(r) PROVE TInv'
  BY <1>4, ReleaseTaskType DEF WaitReadyCanceled, Registered
<1>5. ASSUME NEW r \in Reqs, TryFileToken(r) PROVE TInv'
  <2>1. PICK x \in {"tokenFail", "tokenOk", "tokenWait"} : pc' = [pc EXCEPT ![r] = x]
    BY <1>5 DEF TryFileToken
  <2>2. used' \in Nat
    BY <1>5 DEF TryFileToken, TInv, TypeOK
  <2>3. pc' \in [Reqs -> ReqStates]
    BY <2>1 DEF TInv, TypeOK, ReqStates
  <2>4. TypeOK'
    BY <1>5, <2>2, <2>3 DEF TryFileToken, TInv, TypeOK, stateVars, dcVars, chunkVars, envVars
  <2>5. PointersSet'
    BY <1>5, <2>1 DEF TryFileToken, TInv, TypeOK, PointersSet, HasLease, Registered, chunkVars
  <2> QED BY <2>4, <2>5 DEF TInv
<1>6. ASSUME NEW r \in Reqs, TokenWaitCanceled(r) PROVE TInv'
  <2>1. TypeOK'
    BY <1>6 DEF TokenWaitCanceled, TInv, TypeOK, ReqStates, stateVars, dcVars,
                limiter, chunkVars, envVars
  <2>2. PointersSet'
    BY <1>6 DEF TokenWaitCanceled, TInv, TypeOK, PointersSet, HasLease, Registered, chunkVars
  <2> QED BY <2>1, <2>2 DEF TInv
<1>7. ASSUME NEW r \in Reqs, CompleteActivation(r) PROVE TInv'
  <2> DEFINE o == obj[r]
             nxt == IF pc[r] = "tokenOk" THEN "loop" ELSE "undo"
  <2>1. o \in Reqs /\ pc[r] \in {"tokenOk", "tokenFail"} /\ DCOf[o] \in DCs
    BY <1>7, ConstantTypes DEF CompleteActivation, TInv, PointersSet, Registered
  <2>2. obj' = obj /\ cpc' = cpc
    BY <1>7 DEF CompleteActivation, chunkVars
  <2>3. active' \subseteq Reqs /\ dispatching' \subseteq DCs
    BY <1>7, <2>1 DEF CompleteActivation, TInv, TypeOK
  <2>4. activating' \in [Reqs -> Reqs \cup {None}]
    <3>1. activating \in [Reqs -> Reqs \cup {None}]
      BY DEF TInv, TypeOK
    <3>2. activating' = [activating EXCEPT ![o] = None] \/ activating' = activating
      BY <1>7 DEF CompleteActivation
    <3> QED
      BY <2>1, <3>1, <3>2
  <2>5. dcTasks' \in [DCs -> Seq(Reqs)]
    <3>1. Append(dcTasks[DCOf[o]], o) \in Seq(Reqs)
      BY <2>1 DEF TInv, TypeOK
    <3> QED BY <1>7, <2>1, <3>1 DEF CompleteActivation, TInv, TypeOK
  <2>6. /\ pc' \in [Reqs -> ReqStates]
        /\ used' \in Nat /\ panicked' \in BOOLEAN
        /\ \A q \in Reqs : \/ pc'[q] = pc[q]
                           \/ pc[q] \in {"waitReady", "tokenWait", "tokenOk", "tokenFail"}
                              /\ pc'[q] \in {"loop", "tokenTry", "undo"}
    <3>1. CASE ReleaseFile([pc EXCEPT ![r] = nxt])
      <4>1. [pc EXCEPT ![r] = nxt] \in [Reqs -> ReqStates]
        BY DEF TInv, TypeOK, ReqStates
      <4>2. /\ pc' \in [Reqs -> ReqStates]
            /\ used' \in Nat /\ panicked' \in BOOLEAN
        BY <3>1, <4>1, ReleaseFileType
      <4>3. \A q \in Reqs : \/ pc'[q] = [pc EXCEPT ![r] = nxt][q]
                            \/ /\ [pc EXCEPT ![r] = nxt][q] = "tokenWait"
                               /\ pc'[q] = "tokenTry"
        BY <3>1, <4>1, ReleaseFileType
      <4>4. \A q \in Reqs : \/ q = r /\ pc'[q] \in {"loop", "undo"}
                            \/ q # r /\ pc'[q] = pc[q]
                            \/ pc[q] = "tokenWait" /\ pc'[q] = "tokenTry"
        BY <4>3 DEF TInv, TypeOK
      <4> QED BY <2>1, <4>2, <4>4
    <3>2. CASE pc' = [pc EXCEPT ![r] = nxt] /\ UNCHANGED <<used, panicked>>
      BY <2>1, <3>2 DEF TInv, TypeOK, ReqStates
    <3>3. CASE /\ pc' = [q \in Reqs |->
                           IF q = r THEN nxt
                           ELSE IF pc[q] = "waitReady" /\ obj[q] = o THEN "loop"
                           ELSE pc[q]]
               /\ UNCHANGED <<used, panicked>>
      BY <2>1, <3>3 DEF TInv, TypeOK, ReqStates
    <3> QED BY <1>7, <3>1, <3>2, <3>3 DEF CompleteActivation
  <2>7. TypeOK'
    BY <1>7, <2>2, <2>3, <2>4, <2>5, <2>6 DEF CompleteActivation, TInv, TypeOK,
                                           chunkVars, envVars
  <2>8. PointersSet'
    BY <2>2, <2>6, ConstantTypes DEF TInv, PointersSet, HasLease, Registered
  <2> QED BY <2>7, <2>8 DEF TInv
<1>8. ASSUME NEW r \in Reqs, UndoActivation(r) PROVE TInv'
  BY <1>8, ReleaseTaskType DEF UndoActivation, Registered
<1>9. ASSUME NEW r \in Reqs, Release(r) PROVE TInv'
  BY <1>9, ReleaseTaskType DEF Release, Registered
<1>10. ASSUME NEW r \in Reqs, GiveFileBack(r) PROVE TInv'
  <2>1. [pc EXCEPT ![r] = "done"] \in [Reqs -> ReqStates]
    BY DEF TInv, TypeOK, ReqStates
  <2>2. /\ pc' \in [Reqs -> ReqStates]
        /\ used' \in Nat /\ panicked' \in BOOLEAN
        /\ \A q \in Reqs : \/ pc'[q] = [pc EXCEPT ![r] = "done"][q]
                           \/ pc[q] = "tokenWait" /\ pc'[q] = "tokenTry"
    BY <1>10, <2>1, ReleaseFileType DEF GiveFileBack, TInv, TypeOK
  <2>3. TypeOK'
    BY <1>10, <2>2 DEF GiveFileBack, TInv, TypeOK, stateVars, dcVars, chunkVars, envVars
  <2>4. cpc' = cpc /\ obj' = obj /\ pc[r] = "giveFile"
    BY <1>10 DEF GiveFileBack, chunkVars
  <2>5. \A q \in Reqs : \/ q # r /\ pc'[q] = pc[q]
                        \/ q = r /\ pc'[q] = "done"
                        \/ q # r /\ pc[q] = "tokenWait" /\ pc'[q] = "tokenTry"
    BY <2>2, <2>4 DEF TInv, TypeOK
  <2>6. PointersSet'
    BY <2>4, <2>5, ConstantTypes DEF TInv, TypeOK, PointersSet, HasLease, Registered
  <2> QED BY <2>3, <2>6 DEF TInv
<1>11. ASSUME NEW c \in Chunks, AcquireChunk(c) PROVE TInv'
  <2> DEFINE o == StateOf(c)
  <2>1. o \in Reqs /\ DCOf[o] \in DCs
    BY <1>11, ConstantTypes DEF AcquireChunk, StateOf, HasLease, TInv, TypeOK
  <2> HIDE DEF o
  <2>2. PICK x \in {"waiting", "done"} : cpc' = [cpc EXCEPT ![c] = x]
    BY <1>11 DEF AcquireChunk
  <2>3. waiters' \in [Reqs -> Seq(Chunks)]
    <3>1. Append(waiters[o], c) \in Seq(Chunks)
      BY <2>1 DEF TInv, TypeOK
    <3> QED BY <1>11, <2>1, <3>1 DEF AcquireChunk, TInv, TypeOK, o
  <2>4. dispatching' \subseteq DCs
    BY <1>11, <2>1 DEF AcquireChunk, TInv, TypeOK, o
  <2>5. cpc' \in [Chunks -> ChunkStates]
    BY <2>2 DEF TInv, TypeOK, ChunkStates
  <2>6. TypeOK'
    BY <1>11, <2>3, <2>4, <2>5 DEF AcquireChunk, TInv, TypeOK, dcVars, limiter, envVars
  <2>7. PointersSet'
    BY <1>11, <2>2 DEF AcquireChunk, TInv, TypeOK, PointersSet, HasLease
  <2> QED BY <2>6, <2>7 DEF TInv
<1>12. ASSUME NEW c \in Chunks, ChunkAdmitted(c) \/ ChunkRefused(c) PROVE TInv'
  <2>1. PICK x \in {"held", "done"} : cpc' = [cpc EXCEPT ![c] = x]
    BY <1>12 DEF ChunkAdmitted, ChunkRefused
  <2>2. cpc' \in [Chunks -> ChunkStates]
    BY <2>1 DEF TInv, TypeOK, ChunkStates
  <2>3. cpc[c] = "waiting" /\ pc' = pc /\ obj' = obj
    BY <1>12 DEF ChunkAdmitted, ChunkRefused
  <2>4. TypeOK'
    BY <1>12, <2>2 DEF ChunkAdmitted, ChunkRefused, TInv, TypeOK, stateVars, dcVars,
                       limiter, envVars
  <2>5. PointersSet'
    BY <2>1, <2>3 DEF TInv, TypeOK, PointersSet, HasLease
  <2> QED BY <2>4, <2>5 DEF TInv
<1>13. ASSUME NEW c \in Chunks, ChunkGrantReturned(c) \/ ReleaseChunk(c) PROVE TInv'
  BY <1>13, ReleaseChunkType DEF ChunkGrantReturned, ReleaseChunk
<1>14. ASSUME NEW c \in Chunks, ChunkCanceled(c) PROVE TInv'
  <2>1. DCOf[StateOf(c)] \in DCs
    BY <1>14, ConstantTypes DEF ChunkCanceled, StateOf, HasLease, TInv, TypeOK, PointersSet
  <2>2. TypeOK'
    BY <1>14, <2>1 DEF ChunkCanceled, TInv, TypeOK, ChunkStates, stateVars, dcVars,
                       limiter, envVars
  <2>3. PointersSet'
    BY <1>14 DEF ChunkCanceled, TInv, TypeOK, PointersSet, HasLease
  <2> QED BY <2>2, <2>3 DEF TInv
<1>15. ASSUME NEW d \in DCs, Grant(d) PROVE TInv'
  <2>1. PICK i \in DOMAIN dcTasks[d] : \E k \in DOMAIN waiters[dcTasks[d][i]] :
          LET o == dcTasks[d][i]
              passed == {dcTasks[d][j] : j \in 1..(i - 1)}
          IN /\ granted' = granted \cup {waiters[o][k]}
             /\ inFlight' = [inFlight EXCEPT ![o] = @ + 1]
             /\ dcInFlight' = [dcInFlight EXCEPT ![d] = @ + 1]
             /\ waiters' = [q \in Reqs |->
                              IF q = o THEN SubSeq(waiters[o], k + 1, Len(waiters[o]))
                              ELSE IF q \in passed THEN <<>> ELSE waiters[q]]
    BY <1>15 DEF Grant
  <2> DEFINE o == dcTasks[d][i]
  <2>2. o \in Reqs
    BY <2>1, ElementOfSeq DEF TInv, TypeOK
  <2>3. PICK k \in DOMAIN waiters[o] :
          /\ granted' = granted \cup {waiters[o][k]}
          /\ inFlight' = [inFlight EXCEPT ![o] = @ + 1]
          /\ dcInFlight' = [dcInFlight EXCEPT ![d] = @ + 1]
          /\ waiters' = [q \in Reqs |->
                           IF q = o THEN SubSeq(waiters[o], k + 1, Len(waiters[o]))
                           ELSE IF q \in {dcTasks[d][j] : j \in 1..(i - 1)}
                           THEN <<>> ELSE waiters[q]]
    BY <2>1
  <2> HIDE DEF o
  <2>4. granted' \subseteq Chunks
    BY <2>2, <2>3, ElementOfSeq DEF TInv, TypeOK
  <2>5. inFlight' \in [Reqs -> Nat] /\ dcInFlight' \in [DCs -> Nat]
    <3>1. inFlight \in [Reqs -> Nat] /\ dcInFlight \in [DCs -> Nat]
      BY DEF TInv, TypeOK
    <3>2. inFlight' \in [Reqs -> Nat]
      BY <2>2, <2>3, <3>1
    <3>3. dcInFlight' \in [DCs -> Nat]
      BY <2>3, <3>1
    <3> QED BY <3>2, <3>3
  <2>6. waiters' \in [Reqs -> Seq(Chunks)]
    <3>1. SubSeq(waiters[o], k + 1, Len(waiters[o])) \in Seq(Chunks)
      BY <2>2, SuffixType DEF TInv, TypeOK
    <3> QED BY <2>3, <3>1 DEF TInv, TypeOK
  <2>7. TypeOK'
    BY <1>15, <2>4, <2>5, <2>6 DEF Grant, TInv, TypeOK, limiter, envVars
  <2>8. PointersSet'
    BY <1>15 DEF Grant, TInv, PointersSet, HasLease
  <2> QED BY <2>7, <2>8 DEF TInv
<1>16. ASSUME NEW d \in DCs, DispatchEnd(d) PROVE TInv'
  <2>1. waiters' \in [Reqs -> Seq(Chunks)] /\ dispatching' \subseteq DCs
    BY <1>16 DEF DispatchEnd, TInv, TypeOK
  <2>2. TypeOK'
    BY <1>16, <2>1 DEF DispatchEnd, TInv, TypeOK, dcVars, limiter, chunkVars, envVars
  <2>3. PointersSet'
    BY <1>16 DEF DispatchEnd, TInv, PointersSet, HasLease, chunkVars
  <2> QED BY <2>2, <2>3 DEF TInv
<1>17. ASSUME NEW x \in Cancelable, Cancel(x) PROVE TInv'
  <2>1. TypeOK'
    BY <1>17 DEF Cancel, TInv, TypeOK, stateVars, dcVars, limiter, chunkVars
  <2>2. PointersSet'
    BY <1>17 DEF Cancel, TInv, PointersSet, HasLease, chunkVars
  <2> QED BY <2>1, <2>2 DEF TInv
<1>18. CASE Reconfigure
  <2>1. capacity' \in Nat \ {0} /\ limit' \in Nat \ {0}
    BY <1>18, NormalizeType, SchedulerAssumption DEF Reconfigure
  <2>2. reconfigs' \in 0..MaxReconfigs
    BY <1>18, SchedulerAssumption DEF Reconfigure, TInv, TypeOK
  <2>3. /\ pc' \in [Reqs -> ReqStates]
        /\ \A r \in Reqs : pc'[r] = pc[r] \/ (pc[r] = "tokenWait" /\ pc'[r] = "tokenTry")
    BY <1>18, SignalType DEF Reconfigure, TInv, TypeOK
  <2>4. TypeOK'
    BY <1>18, <2>1, <2>2, <2>3 DEF Reconfigure, TInv, TypeOK, stateVars, dcVars, chunkVars
  <2>5. PointersSet'
    BY <1>18, <2>3, ConstantTypes DEF Reconfigure, TInv, PointersSet, HasLease, Registered,
                                      chunkVars
  <2> QED BY <2>4, <2>5 DEF TInv
<1>19. CASE UNCHANGED vars
  BY <1>19 DEF vars, stateVars, dcVars, limiter, chunkVars, envVars, TInv, TypeOK,
               PointersSet, HasLease
<1> QED
  BY <1>1, <1>2, <1>3, <1>4, <1>5, <1>6, <1>7, <1>8, <1>9, <1>10, <1>11, <1>12,
     <1>13, <1>14, <1>15, <1>16, <1>17, <1>18, <1>19
     DEF Next, RequestStep, ChunkStep, DispatchStep, Terminated

(* Every reachable state of the scheduler, for any number of requests,     *)
(* chunks, files and DCs and any configured limits, is well typed: no      *)
(* counter goes negative and no step follows a nil pointer to a taskState. *)
THEOREM TypeCorrect == Spec => []TypeOK
<1>1. TInv => TypeOK
  BY DEF TInv
<1> QED BY TInvInit, TInvNext, <1>1, PTL DEF Spec
-----------------------------------------------------------------------------
(* The books *)

(* A request between taking the activation of an object and completing it. *)
Acting == {"tokenTry", "tokenWait", "tokenOk", "tokenFail"}
Users(o) == {r \in Reqs : pc[r] \in Registered /\ obj[r] = o}

(* taskState.refs counts the requests that point to the object, and they   *)
(* point to the registered object of their task.                           *)
RefsInv ==
    /\ \A r \in Reqs : pc[r] \in Registered =>
          TaskOf[obj[r]] = TaskOf[r] /\ files[TaskOf[r]] = obj[r]
    /\ \A t \in Tasks : files[t] # None => TaskOf[files[t]] = t
    /\ \A o \in Reqs : refs[o] = Cardinality(Users(o))

(* An object has at most one activator, which points to it; an active one  *)
(* has none, is registered, and is what the leases point to.               *)
ActivationInv ==
    /\ \A r \in Reqs : pc[r] \in Acting => activating[obj[r]] = r
    /\ \A o \in Reqs : activating[o] # None =>
          pc[activating[o]] \in Acting /\ obj[activating[o]] = o
    /\ \A o \in active : activating[o] = None /\ files[TaskOf[o]] = o
    /\ \A r \in Reqs : pc[r] = "leased" => obj[r] \in active

Distinct(s) == \A i, j \in DOMAIN s : s[i] = s[j] => i = j

(* A queued waiter is in the queue of its own object, once and ungranted,  *)
(* and leaves it only granted or cancelled; the object is in use.          *)
WaitersInv ==
    /\ \A o \in Reqs : Distinct(waiters[o])
    /\ \A o \in Reqs : \A c \in Elems(waiters[o]) :
          /\ cpc[c] # "idle" /\ StateOf(c) = o /\ c \notin granted
          /\ o \in active /\ refs[o] > 0
          /\ c \notin canceled => cpc[c] = "waiting"
    /\ \A c \in granted : cpc[c] # "idle"
    /\ \A c \in Chunks : Queued(c) => c \in Elems(waiters[StateOf(c)])

(* The files of a DC are its active objects, each listed once.             *)
DCInv ==
    \A d \in DCs :
        /\ Distinct(dcTasks[d])
        /\ Elems(dcTasks[d]) = {o \in active : DCOf[o] = d}
        /\ Len(dcTasks[d]) = Cardinality(Elems(dcTasks[d]))

(* Lanes are held on active objects only.                                  *)
LanesInv ==
    /\ \A o \in Reqs : inFlight[o] > 0 => o \in active
    /\ LanesConserved

TokensInv == FileTokensConserved /\ panicked = FALSE

(* A DC that is not being dispatched has no waiter or no free lane.        *)
WorkInv ==
    \A d \in DCs \ dispatching :
        Full(d) \/ \A o \in Elems(dcTasks[d]) : ~HasWaiter(o)

-----------------------------------------------------------------------------
(* Counting *)

(* A set of requests or of chunks is finite, and how its size changes.     *)
LEMMA Count ==
    ASSUME NEW S, NEW T, IsFiniteSet(T), S \subseteq T, NEW x
    PROVE  /\ IsFiniteSet(S) /\ Cardinality(S) \in Nat
           /\ x \in S => Cardinality(S) >= 1 /\ Cardinality(S \ {x}) = Cardinality(S) - 1
           /\ x \notin S => Cardinality(S \cup {x}) = Cardinality(S) + 1
           /\ x \in S /\ Cardinality(S) = 1 => S = {x}
           /\ Cardinality(S) = 0 => S = {}
<1>1. IsFiniteSet(S)
  BY FS_Subset
<1>2. Cardinality(S) \in Nat
  BY <1>1, FS_CardinalityType
<1>3. Cardinality(S) = 0 <=> S = {}
  BY <1>1, FS_EmptySet
<1>4. x \in S => Cardinality(S \ {x}) = Cardinality(S) - 1
  BY <1>1, FS_RemoveElement
<1>5. x \notin S => Cardinality(S \cup {x}) = Cardinality(S) + 1
  BY <1>1, FS_AddElement
<1>6. ASSUME x \in S, Cardinality(S) = 1 PROVE S = {x}
  <2>1. PICK y : S = {y}
    BY <1>1, <1>6, FS_Singleton
  <2> QED
    BY <1>6, <2>1
<1>7. x \in S => Cardinality(S) >= 1
  BY <1>2, <1>3
<1> QED
  BY <1>1, <1>2, <1>3, <1>4, <1>5, <1>6, <1>7

(* The references of an object, counted.                                   *)
LEMMA UsersCount ==
    ASSUME RefsInv, NEW o \in Reqs, NEW r \in Reqs
    PROVE  /\ refs[o] \in Nat
           /\ r \in Users(o) => refs[o] >= 1 /\ Cardinality(Users(o) \ {r}) = refs[o] - 1
           /\ r \notin Users(o) => Cardinality(Users(o) \cup {r}) = refs[o] + 1
           /\ r \in Users(o) /\ refs[o] = 1 => Users(o) = {r}
           /\ refs[o] = 0 => Users(o) = {}
<1> DEFINE S == Users(o)
<1>1. S \subseteq Reqs /\ IsFiniteSet(Reqs)
  BY SchedulerAssumption DEF Users
<1>2. refs[o] = Cardinality(S)
  BY DEF RefsInv
<1> HIDE DEF S
<1>3. /\ Cardinality(S) \in Nat
      /\ r \in S => Cardinality(S) >= 1 /\ Cardinality(S \ {r}) = Cardinality(S) - 1
      /\ r \notin S => Cardinality(S \cup {r}) = Cardinality(S) + 1
      /\ r \in S /\ Cardinality(S) = 1 => S = {r}
      /\ Cardinality(S) = 0 => S = {}
  BY <1>1, Count
<1> QED
  BY <1>2, <1>3 DEF S

-----------------------------------------------------------------------------
(* References and activation *)

(* A step that registers and unregisters nobody keeps the references.      *)
LEMMA RefsSame ==
    ASSUME TInv, RefsInv, files' = files, refs' = refs,
           \A q \in Reqs : /\ pc'[q] \in Registered <=> pc[q] \in Registered
                           /\ pc[q] \in Registered => obj'[q] = obj[q]
    PROVE  RefsInv'
<1>1. \A o \in Reqs : Users(o)' = Users(o)
  BY DEF Users
<1> QED
  BY <1>1 DEF RefsInv

(* A step that moves no activator and no lease keeps the activations.      *)
LEMMA ActivationSame ==
    ASSUME TInv, ActivationInv, files' = files, active' = active, activating' = activating,
           \A q \in Reqs : /\ pc'[q] \in Acting <=> pc[q] \in Acting
                           /\ pc[q] \in Acting => obj'[q] = obj[q]
                           /\ pc'[q] = "leased" => pc[q] = "leased" /\ obj'[q] = obj[q]
    PROVE  ActivationInv'
<1>1. \A o \in Reqs : activating[o] # None => activating[o] \in Reqs
  BY DEF TInv, TypeOK
<1> QED
  BY <1>1 DEF ActivationInv, TInv, TypeOK

(* releaseTask by a request that is registered and activates nothing: the  *)
(* registered object loses one reference; the last one may take it out.    *)
LEMMA ReleaseTaskBooks ==
    ASSUME TInv, RefsInv, ActivationInv, NEW r \in Reqs,
           pc[r] \in Registered \ Acting, NEW ptr, ReleaseTask(r, ptr)
    PROVE  RefsInv' /\ ActivationInv'
<1>o. PICK o : o = obj[r]
  OBVIOUS
<1> DEFINE t == TaskOf[o]
<1>0. /\ o \in Reqs /\ t \in Tasks /\ files[t] = o /\ r \in Users(o) /\ refs[o] >= 1
      /\ refs[o] \in Nat /\ TaskOf[r] = t
  <2>1. o \in Reqs
    BY <1>o DEF TInv, PointersSet
  <2>2. t \in Tasks /\ files[t] = o /\ r \in Users(o) /\ TaskOf[r] = t
    BY <1>o, <2>1, ConstantTypes DEF RefsInv, Users
  <2> QED
    BY <2>1, <2>2, UsersCount
<1>1. refs' = [refs EXCEPT ![o] = refs[o] - 1]
  BY <1>o, <1>0 DEF ReleaseTask
<1>2. pc' = [pc EXCEPT ![r] = pc'[r]] /\ pc'[r] \in {"giveFile", "done"}
      /\ obj' = [obj EXCEPT ![r] = ptr] /\ activating' = activating
  BY DEF ReleaseTask, TInv, TypeOK
<1>3. \A q \in Reqs : /\ q # r => pc'[q] = pc[q] /\ obj'[q] = obj[q]
                      /\ pc'[r] \notin Registered
  BY <1>2 DEF TInv, TypeOK, Registered
<1>4. \A p \in Reqs : Users(p)' = IF p = o THEN Users(o) \ {r} ELSE Users(p)
  BY <1>3, <1>o, <1>0 DEF Users
<1>5. \/ files' = files /\ active' = active
      \/ /\ refs[o] = 1 /\ files' = [files EXCEPT ![t] = None]
         /\ \/ o \in active /\ active' = active \ {o}
            \/ o \notin active /\ activating[o] = None /\ active' = active
  BY <1>o, <1>0 DEF ReleaseTask, RemoveActiveTask, Removable, Forgettable
<1>6. refs[o] = 1 => Users(o) = {r}
  BY <1>0, UsersCount
<1>7. \A p \in Reqs : refs'[p] = Cardinality(Users(p)')
  <2>1. ASSUME NEW p \in Reqs, p # o PROVE refs'[p] = Cardinality(Users(p)')
    BY <1>1, <1>4, <2>1 DEF RefsInv, TInv, TypeOK
  <2>2. refs'[o] = Cardinality(Users(o)')
    <3>1. refs'[o] = refs[o] - 1
      BY <1>0, <1>1 DEF TInv, TypeOK
    <3>2. Cardinality(Users(o) \ {r}) = refs[o] - 1
      BY <1>0, UsersCount
    <3> QED
      BY <1>0, <1>4, <3>1, <3>2
  <2> QED
    BY <2>1, <2>2
<1>8. ASSUME NEW q \in Reqs, pc'[q] \in Registered
      PROVE  TaskOf[obj'[q]] = TaskOf[q] /\ files'[TaskOf[q]] = obj'[q]
  <2>1. q # r /\ pc[q] \in Registered /\ obj'[q] = obj[q]
    BY <1>3, <1>8
  <2>2. TaskOf[obj[q]] = TaskOf[q] /\ files[TaskOf[q]] = obj[q] /\ TaskOf[q] \in Tasks
    BY <2>1, ConstantTypes DEF RefsInv
  <2>3. refs[o] = 1 => TaskOf[q] # t
    BY <1>0, <1>6, <2>1, <2>2 DEF Users
  <2> QED
    BY <1>5, <2>1, <2>2, <2>3 DEF TInv, TypeOK
<1>9. \A u \in Tasks : files'[u] # None => TaskOf[files'[u]] = u
  BY <1>5 DEF RefsInv, TInv, TypeOK
<1>10. RefsInv'
  BY <1>7, <1>8, <1>9 DEF RefsInv
<1>11. /\ \A q \in Reqs : pc'[q] \in Acting <=> pc[q] \in Acting
       /\ \A q \in Reqs : pc[q] \in Acting => q # r /\ obj'[q] = obj[q]
  BY <1>2, <1>3 DEF Acting
<1>12. /\ \A q \in Reqs : pc'[q] \in Acting => activating'[obj'[q]] = q
       /\ \A p \in Reqs : activating'[p] # None =>
             pc'[activating'[p]] \in Acting /\ obj'[activating'[p]] = p
  <2>1. \A p \in Reqs : activating[p] # None => activating[p] \in Reqs
    BY DEF TInv, TypeOK
  <2> QED
    BY <1>2, <1>11, <2>1 DEF ActivationInv
<1>13. ASSUME NEW p \in active' PROVE activating'[p] = None /\ files'[TaskOf[p]] = p
  <2>1. p \in active /\ p \in Reqs /\ TaskOf[p] \in Tasks
    BY <1>5, <1>13, ConstantTypes DEF TInv, TypeOK
  <2>2. activating[p] = None /\ files[TaskOf[p]] = p
    BY <2>1 DEF ActivationInv
  <2>3. files' # files => TaskOf[p] # t
    BY <1>0, <1>5, <1>13, <2>2
  <2> QED
    BY <1>2, <1>5, <2>1, <2>2, <2>3 DEF TInv, TypeOK
<1>14. ASSUME NEW q \in Reqs, pc'[q] = "leased" PROVE obj'[q] \in active'
  <2>1. q # r /\ pc[q] = "leased" /\ obj'[q] = obj[q]
    BY <1>2, <1>3, <1>14 DEF Registered
  <2>2. obj[q] \in active /\ q \in Users(obj[q])
    BY <2>1 DEF ActivationInv, Users, Registered
  <2> QED
    BY <1>5, <1>6, <2>1, <2>2
<1> QED
  BY <1>10, <1>12, <1>13, <1>14 DEF ActivationInv

(* acquireTask: the request joins the registered object of its task or     *)
(* registers itself as a new one, which nobody can point to yet.           *)
LEMMA AcquireTaskBooks ==
    ASSUME TInv, RefsInv, ActivationInv, NEW r \in Reqs, AcquireTask(r)
    PROVE  RefsInv' /\ ActivationInv'
<1> DEFINE t == TaskOf[r]
<1>o. PICK o : o = IF files[t] = None THEN r ELSE files[t]
  OBVIOUS
<1>1. /\ o \in Reqs /\ t \in Tasks /\ TaskOf[o] = t /\ None \notin Reqs
      /\ pc[r] \in {"idle", "loop"}
  BY <1>o, ConstantTypes DEF TInv, TypeOK, RefsInv, AcquireTask
<1>2. /\ files' = [files EXCEPT ![t] = o]
      /\ obj' = [obj EXCEPT ![r] = o]
      /\ refs' = [refs EXCEPT ![o] = IF pc[r] = "idle" THEN refs[o] + 1 ELSE refs[o]]
      /\ active' = active
  BY <1>o DEF AcquireTask
<1>3. \/ o \in active /\ pc' = [pc EXCEPT ![r] = "leased"] /\ activating' = activating
      \/ /\ o \notin active /\ pc' = [pc EXCEPT ![r] = "waitReady"]
         /\ activating' = activating
      \/ /\ o \notin active /\ activating[o] = None
         /\ pc' = [pc EXCEPT ![r] = "tokenTry"]
         /\ activating' = [activating EXCEPT ![o] = r]
  BY <1>o DEF AcquireTask
<1>4. /\ pc'[r] \in Registered
      /\ \A q \in Reqs : q # r => pc'[q] = pc[q] /\ obj'[q] = obj[q]
      /\ obj'[r] = o
  BY <1>1, <1>2, <1>3 DEF TInv, TypeOK, Registered
<1>5. \A u \in Tasks : files[u] # None => files'[u] = files[u]
  BY <1>o, <1>1, <1>2 DEF TInv, TypeOK
<1>6. \A q \in Reqs : pc[q] \in Registered =>
         /\ obj[q] \in Reqs /\ TaskOf[q] \in Tasks
         /\ TaskOf[obj[q]] = TaskOf[q] /\ files[TaskOf[q]] = obj[q]
  BY ConstantTypes DEF TInv, PointersSet, RefsInv
<1>7. pc[r] = "loop" => obj[r] = o
  BY <1>o, <1>1, <1>6 DEF Registered
<1>8. pc[r] = "idle" => r \notin Users(o)
  BY DEF Users, Registered
<1>9. \A p \in Reqs : Users(p)' = IF p = o THEN Users(o) \cup {r} ELSE Users(p)
  <2>1. \A p \in Reqs : p # o => r \notin Users(p)
    BY <1>1, <1>7 DEF Users, Registered
  <2> QED
    BY <1>4, <2>1 DEF Users
<1>10. ASSUME NEW p \in Reqs PROVE refs'[p] = Cardinality(Users(p)')
  <2>1. CASE p # o
    BY <1>1, <1>2, <1>9, <2>1 DEF RefsInv, TInv, TypeOK
  <2>2. CASE p = o /\ pc[r] = "idle"
    <3>1. refs'[o] = refs[o] + 1
      BY <1>1, <1>2, <2>2 DEF TInv, TypeOK
    <3>2. Cardinality(Users(o) \cup {r}) = refs[o] + 1
      BY <1>1, <1>8, <2>2, UsersCount
    <3> QED
      BY <1>9, <2>2, <3>1, <3>2
  <2>3. CASE p = o /\ pc[r] = "loop"
    <3>1. refs'[o] = refs[o]
      BY <1>1, <1>2, <2>3 DEF TInv, TypeOK
    <3>2. Users(o) \cup {r} = Users(o)
      BY <1>7, <2>3 DEF Users, Registered
    <3> QED
      BY <1>9, <2>3, <3>1, <3>2 DEF RefsInv
  <2> QED
    BY <1>1, <2>1, <2>2, <2>3
<1>11. ASSUME NEW q \in Reqs, pc'[q] \in Registered
       PROVE  TaskOf[obj'[q]] = TaskOf[q] /\ files'[TaskOf[q]] = obj'[q]
  <2>1. CASE q = r
    BY <1>1, <1>2, <1>4, <2>1 DEF TInv, TypeOK
  <2>2. CASE q # r
    BY <1>1, <1>4, <1>5, <1>6, <1>11, <2>2
  <2> QED
    BY <2>1, <2>2
<1>12. \A u \in Tasks : files'[u] # None => TaskOf[files'[u]] = u
  BY <1>1, <1>2 DEF RefsInv, TInv, TypeOK
<1>13. RefsInv'
  BY <1>10, <1>11, <1>12 DEF RefsInv
<1>14. ASSUME NEW q \in Reqs, pc'[q] \in Acting PROVE activating'[obj'[q]] = q
  <2>1. CASE q = r
    BY <1>1, <1>3, <1>4, <1>14, <2>1 DEF TInv, TypeOK, Acting
  <2>2. CASE q # r
    <3>1. activating[obj[q]] = q /\ obj[q] \in Reqs /\ obj'[q] = obj[q]
      BY <1>4, <1>6, <1>14, <2>2 DEF ActivationInv, Acting, Registered
    <3> QED
      BY <1>1, <1>3, <3>1 DEF TInv, TypeOK
  <2> QED
    BY <2>1, <2>2
<1>15. ASSUME NEW p \in Reqs, activating'[p] # None
       PROVE  pc'[activating'[p]] \in Acting /\ obj'[activating'[p]] = p
  <2>1. CASE activating'[p] = activating[p]
    <3>1. /\ activating[p] \in Reqs /\ pc[activating[p]] \in Acting
          /\ obj[activating[p]] = p
      BY <1>15, <2>1 DEF ActivationInv, TInv, TypeOK
    <3>2. activating[p] # r
      BY <1>1, <3>1 DEF Acting
    <3> QED
      BY <1>4, <2>1, <3>1, <3>2
  <2>2. CASE activating'[p] # activating[p]
    <3>1. p = o /\ activating'[p] = r /\ pc' = [pc EXCEPT ![r] = "tokenTry"]
      BY <1>1, <1>3, <2>2 DEF TInv, TypeOK
    <3> QED
      BY <1>4, <3>1 DEF Acting, TInv, TypeOK
  <2> QED
    BY <2>1, <2>2
<1>16. ASSUME NEW p \in active PROVE activating'[p] = None /\ files'[TaskOf[p]] = p
  <2>1. activating[p] = None /\ files[TaskOf[p]] = p /\ p \in Reqs /\ TaskOf[p] \in Tasks
    BY ConstantTypes DEF ActivationInv, TInv, TypeOK
  <2> QED
    BY <1>1, <1>3, <1>5, <2>1 DEF TInv, TypeOK
<1>17. ASSUME NEW q \in Reqs, pc'[q] = "leased" PROVE obj'[q] \in active
  <2>1. CASE q = r
    BY <1>1, <1>3, <1>4, <1>17, <2>1 DEF TInv, TypeOK
  <2>2. CASE q # r
    BY <1>4, <1>17, <2>2 DEF ActivationInv
  <2> QED
    BY <2>1, <2>2
<1> QED
  BY <1>2, <1>13, <1>14, <1>15, <1>16, <1>17 DEF ActivationInv

(* completeActivation always finds itself the activator of the registered  *)
(* object: the branch that hands a won token back is not reachable.        *)
LEMMA ActivatorCurrent ==
    ASSUME TInv, RefsInv, ActivationInv, NEW r \in Reqs, pc[r] \in Acting
    PROVE  obj[r] \in Reqs /\ files[TaskOf[obj[r]]] = obj[r] /\ activating[obj[r]] = r
           /\ obj[r] \notin active
BY ConstantTypes DEF TInv, PointersSet, RefsInv, ActivationInv, Acting, Registered

(* completeActivation: the object becomes active or free to be activated   *)
(* again, and those who wait for it look again.                            *)
LEMMA CompleteActivationBooks ==
    ASSUME TInv, RefsInv, ActivationInv, NEW r \in Reqs, CompleteActivation(r)
    PROVE  RefsInv' /\ ActivationInv'
<1>o. PICK o : o = obj[r]
  OBVIOUS
<1>1. /\ pc[r] \in {"tokenOk", "tokenFail"} /\ pc[r] \in Acting
      /\ files' = files /\ refs' = refs /\ obj' = obj
  BY DEF CompleteActivation, Acting
<1>2. o \in Reqs /\ files[TaskOf[o]] = o /\ activating[o] = r /\ o \notin active
  BY <1>o, <1>1, ActivatorCurrent
<1>3. /\ activating' = [activating EXCEPT ![o] = None]
      /\ pc' = [q \in Reqs |->
                  IF q = r THEN IF pc[r] = "tokenOk" THEN "loop" ELSE "undo"
                  ELSE IF pc[q] = "waitReady" /\ obj[q] = o THEN "loop" ELSE pc[q]]
      /\ active' = active \/ active' = active \cup {o}
  BY <1>o, <1>2 DEF CompleteActivation
<1>4. \A q \in Reqs : /\ pc'[q] \in Registered <=> pc[q] \in Registered
                      /\ pc'[q] \in Acting <=> pc[q] \in Acting /\ q # r
                      /\ pc'[q] = "leased" => pc[q] = "leased"
  BY <1>1, <1>3 DEF Registered, Acting
<1>5. RefsInv'
  BY <1>1, <1>4, RefsSame
<1>6. \A q \in Reqs : pc'[q] \in Acting => activating'[obj'[q]] = q
  <2>1. ASSUME NEW q \in Reqs, pc'[q] \in Acting PROVE activating'[obj[q]] = q
    <3>1. activating[obj[q]] = q /\ obj[q] \in Reqs /\ q # r
      BY <1>4, <2>1, ActivatorCurrent
    <3> QED
      BY <1>2, <1>3, <3>1 DEF TInv, TypeOK
  <2> QED
    BY <1>1, <2>1
<1>7. ASSUME NEW p \in Reqs, activating'[p] # None
      PROVE  pc'[activating'[p]] \in Acting /\ obj'[activating'[p]] = p
  <2>1. p # o /\ activating'[p] = activating[p]
    BY <1>2, <1>3, <1>7 DEF TInv, TypeOK
  <2>2. /\ activating[p] \in Reqs /\ pc[activating[p]] \in Acting
        /\ obj[activating[p]] = p
    BY <1>7, <2>1 DEF ActivationInv, TInv, TypeOK
  <2>3. activating[p] # r
    BY <1>o, <2>1, <2>2
  <2> QED
    BY <1>1, <1>4, <2>1, <2>2, <2>3
<1>8. \A p \in active' : activating'[p] = None /\ files'[TaskOf[p]] = p
  BY <1>1, <1>2, <1>3 DEF ActivationInv, TInv, TypeOK
<1>9. \A q \in Reqs : pc'[q] = "leased" => obj'[q] \in active'
  BY <1>1, <1>3, <1>4 DEF ActivationInv
<1> QED
  BY <1>5, <1>6, <1>7, <1>8, <1>9 DEF ActivationInv

(* How a step may move the requests it only wakes.                         *)
Woken(q) == pc'[q] = pc[q] \/ (pc[q] = "tokenWait" /\ pc'[q] = "tokenTry")

(* An object that nobody references is taken out.                          *)
LEMMA RemoveUnusedBooks ==
    ASSUME TInv, RefsInv, ActivationInv, NEW o \in active, refs[o] = 0,
           files' = [files EXCEPT ![TaskOf[o]] = None], active' = active \ {o},
           refs' = refs, activating' = activating, obj' = obj,
           \A q \in Reqs : Woken(q)
    PROVE  RefsInv' /\ ActivationInv'
<1>1. o \in Reqs /\ TaskOf[o] \in Tasks /\ files[TaskOf[o]] = o
  BY ConstantTypes DEF TInv, TypeOK, ActivationInv
<1>2. Users(o) = {}
  BY <1>1, UsersCount
<1>3. \A q \in Reqs : /\ pc'[q] \in Registered <=> pc[q] \in Registered
                      /\ pc'[q] \in Acting <=> pc[q] \in Acting
                      /\ pc'[q] = "leased" => pc[q] = "leased"
  BY DEF Woken, Registered, Acting
<1>4. \A p \in Reqs : Users(p)' = Users(p)
  BY <1>3 DEF Users
<1>5. \A q \in Reqs : pc[q] \in Registered =>
         /\ TaskOf[q] \in Tasks /\ TaskOf[obj[q]] = TaskOf[q]
         /\ files[TaskOf[q]] = obj[q] /\ obj[q] # o
  BY <1>2, ConstantTypes DEF RefsInv, Users
<1>6. \A q \in Reqs : pc'[q] \in Registered =>
         TaskOf[obj'[q]] = TaskOf[q] /\ files'[TaskOf[q]] = obj'[q]
  BY <1>1, <1>3, <1>5 DEF TInv, TypeOK
<1>7. \A u \in Tasks : files'[u] # None => TaskOf[files'[u]] = u
  BY <1>1 DEF RefsInv, TInv, TypeOK
<1>8. RefsInv'
  BY <1>4, <1>6, <1>7 DEF RefsInv
<1>9. ASSUME NEW p \in active' PROVE activating'[p] = None /\ files'[TaskOf[p]] = p
  <2>1. p \in active /\ p \in Reqs /\ p # o /\ TaskOf[p] \in Tasks
        /\ activating[p] = None /\ files[TaskOf[p]] = p
    BY <1>9, ConstantTypes DEF TInv, TypeOK, ActivationInv
  <2> QED
    BY <1>1, <2>1 DEF TInv, TypeOK
<1>10. \A q \in Reqs : pc'[q] = "leased" => obj'[q] \in active'
  BY <1>3, <1>5 DEF ActivationInv, Registered
<1>11. \A p \in Reqs : activating[p] # None => activating[p] \in Reqs
  BY DEF TInv, TypeOK
<1>12. /\ \A q \in Reqs : pc'[q] \in Acting => activating'[obj'[q]] = q
       /\ \A p \in Reqs : activating'[p] # None =>
             pc'[activating'[p]] \in Acting /\ obj'[activating'[p]] = p
  BY <1>3, <1>11 DEF ActivationInv
<1> QED
  BY <1>8, <1>9, <1>10, <1>12 DEF ActivationInv

-----------------------------------------------------------------------------
(* What a step leaves of the pointers *)

(* A chunk that has been asked for points to an object for good.           *)
Anchored(c) == cpc[c] # "idle" => StateOf(c)' = StateOf(c)

(* The object of a chunk is an object of a DC.                             *)
LEMMA StateOfType ==
    ASSUME TInv, NEW c \in Chunks, cpc[c] # "idle"
    PROVE  StateOf(c) \in Reqs /\ DCOf[StateOf(c)] \in DCs
BY ConstantTypes DEF TInv, TypeOK, PointersSet, HasLease, StateOf

(* A step that keeps the pointers of the leases keeps those of the chunks. *)
LEMMA AnchoredKept ==
    ASSUME TInv, \A r \in Reqs : HasLease(r) => obj'[r] = obj[r]
    PROVE  \A c \in Chunks : Anchored(c)
BY ConstantTypes DEF TInv, PointersSet, Anchored, StateOf

-----------------------------------------------------------------------------
(* File tokens *)

(* A step that moves no token.                                             *)
LEMMA TokensSame ==
    ASSUME TokensInv, used' = used, active' = active, panicked' = panicked,
           \A q \in Reqs : pc'[q] \in {"tokenOk", "giveFile"} <=> pc[q] \in {"tokenOk", "giveFile"}
    PROVE  TokensInv'
<1>1. TokenHolders' = TokenHolders
  BY DEF TokenHolders
<1> QED
  BY <1>1 DEF TokensInv, FileTokensConserved

(* How the two kinds of token holders are counted.                         *)
LEMMA TokenCount ==
    ASSUME TInv, NEW S \in {active, TokenHolders}, NEW x
    PROVE  /\ Cardinality(S) \in Nat
           /\ x \in S => Cardinality(S) >= 1 /\ Cardinality(S \ {x}) = Cardinality(S) - 1
           /\ x \notin S => Cardinality(S \cup {x}) = Cardinality(S) + 1
<1>1. S \subseteq Reqs /\ IsFiniteSet(Reqs)
  BY SchedulerAssumption DEF TInv, TypeOK, TokenHolders
<1> QED
  BY <1>1, Count

(* TryFileToken takes one token for the request.                           *)
LEMMA TryFileTokenTokens ==
    ASSUME TInv, TokensInv, NEW r \in Reqs, TryFileToken(r)
    PROVE  TokensInv'
<1>1. /\ active' = active /\ panicked' = panicked /\ pc[r] = "tokenTry"
      /\ used \in Nat
  BY DEF TryFileToken, stateVars, TInv, TypeOK
<1>2. CASE used' = used /\ \E x \in {"tokenFail", "tokenWait"} : pc' = [pc EXCEPT ![r] = x]
  BY <1>1, <1>2, TokensSame DEF TInv, TypeOK
<1>3. CASE used' = used + 1 /\ pc' = [pc EXCEPT ![r] = "tokenOk"]
  <2>1. TokenHolders' = TokenHolders \cup {r} /\ r \notin TokenHolders
    BY <1>1, <1>3 DEF TokenHolders, TInv, TypeOK
  <2>2. Cardinality(TokenHolders \cup {r}) = Cardinality(TokenHolders) + 1
    BY <2>1, TokenCount
  <2>3. Cardinality(TokenHolders) \in Nat /\ Cardinality(active) \in Nat
    BY TokenCount
  <2> QED
    BY <1>1, <1>3, <2>1, <2>2, <2>3 DEF TokensInv, FileTokensConserved
<1> QED
  BY <1>2, <1>3 DEF TryFileToken

(* completeActivation hands the token of the request to the object.        *)
LEMMA CompleteActivationTokens ==
    ASSUME TInv, RefsInv, ActivationInv, TokensInv, NEW r \in Reqs, CompleteActivation(r)
    PROVE  TokensInv'
<1>o. PICK o : o = obj[r]
  OBVIOUS
<1>1. pc[r] \in {"tokenOk", "tokenFail"} /\ pc[r] \in Acting
  BY DEF CompleteActivation, Acting
<1>2. o \in Reqs /\ files[TaskOf[o]] = o /\ activating[o] = r /\ o \notin active
  BY <1>o, <1>1, ActivatorCurrent
<1>3. /\ used' = used /\ panicked' = panicked
      /\ pc' = [q \in Reqs |->
                  IF q = r THEN IF pc[r] = "tokenOk" THEN "loop" ELSE "undo"
                  ELSE IF pc[q] = "waitReady" /\ obj[q] = o THEN "loop" ELSE pc[q]]
      /\ active' = IF pc[r] = "tokenOk" THEN active \cup {o} ELSE active
  BY <1>o, <1>2 DEF CompleteActivation
<1>4. TokenHolders' = TokenHolders \ {r}
  BY <1>1, <1>3 DEF TokenHolders
<1>5. CASE pc[r] = "tokenFail"
  <2>1. TokenHolders' = TokenHolders /\ active' = active
    BY <1>3, <1>4, <1>5 DEF TokenHolders
  <2> QED
    BY <1>3, <2>1 DEF TokensInv, FileTokensConserved
<1>6. CASE pc[r] = "tokenOk"
  <2>1. r \in TokenHolders /\ active' = active \cup {o}
    BY <1>3, <1>6 DEF TokenHolders
  <2>2. Cardinality(TokenHolders \ {r}) = Cardinality(TokenHolders) - 1
    BY <2>1, TokenCount
  <2>3. Cardinality(active \cup {o}) = Cardinality(active) + 1
    BY <1>2, TokenCount
  <2>4. Cardinality(TokenHolders) \in Nat /\ Cardinality(active) \in Nat
    BY TokenCount
  <2> QED
    BY <1>3, <1>4, <2>1, <2>2, <2>3, <2>4 DEF TokensInv, FileTokensConserved
<1> QED
  BY <1>1, <1>5, <1>6

(* releaseTask hands the token of a removed object to the request.         *)
LEMMA ReleaseTaskTokens ==
    ASSUME TInv, TokensInv, NEW r \in Reqs, pc[r] \in Registered \ Acting,
           NEW ptr, ReleaseTask(r, ptr)
    PROVE  TokensInv'
<1>o. PICK o : o = obj[r]
  OBVIOUS
<1>1. used' = used /\ panicked' = panicked
  BY DEF ReleaseTask, limiter
<1>2. CASE active' = active /\ pc' = [pc EXCEPT ![r] = "done"]
  BY <1>1, <1>2, TokensSame DEF TInv, TypeOK, Registered, Acting
<1>3. CASE o \in active /\ active' = active \ {o} /\ pc' = [pc EXCEPT ![r] = "giveFile"]
  <2>1. TokenHolders' = TokenHolders \cup {r} /\ r \notin TokenHolders
    BY <1>3 DEF TokenHolders, TInv, TypeOK, Registered, Acting
  <2>2. Cardinality(TokenHolders \cup {r}) = Cardinality(TokenHolders) + 1
    BY <2>1, TokenCount
  <2>3. Cardinality(active \ {o}) = Cardinality(active) - 1
    BY <1>3, TokenCount
  <2>4. Cardinality(TokenHolders) \in Nat /\ Cardinality(active) \in Nat
    BY TokenCount
  <2> QED
    BY <1>1, <1>3, <2>1, <2>2, <2>3, <2>4 DEF TokensInv, FileTokensConserved
<1> QED
  BY <1>o, <1>2, <1>3 DEF ReleaseTask, RemoveActiveTask, Removable

(* fileLimiter.release by a request that holds a token does not panic.     *)
LEMMA GiveFileBackTokens ==
    ASSUME TInv, TokensInv, NEW r \in Reqs, GiveFileBack(r)
    PROVE  TokensInv' /\ \A q \in Reqs : q # r => Woken(q)
<1>1. active' = active /\ pc[r] = "giveFile" /\ r \in TokenHolders /\ used \in Nat
  BY DEF GiveFileBack, stateVars, TokenHolders, TInv, TypeOK
<1>2. Cardinality(TokenHolders \ {r}) = Cardinality(TokenHolders) - 1
      /\ Cardinality(TokenHolders) >= 1
  BY <1>1, TokenCount
<1>3. Cardinality(TokenHolders) \in Nat /\ Cardinality(active) \in Nat
  BY TokenCount
<1>4. used # 0
  BY <1>2, <1>3 DEF TokensInv, FileTokensConserved
<1>5. /\ used' = used - 1 /\ panicked' = panicked
      /\ pc' = Signal([pc EXCEPT ![r] = "done"])
  BY <1>4 DEF GiveFileBack, ReleaseFile
<1>6. /\ pc'[r] = "done"
      /\ \A q \in Reqs : q # r => Woken(q)
  BY <1>5 DEF Signal, TInv, TypeOK, Woken
<1>7. TokenHolders' = TokenHolders \ {r}
  BY <1>6 DEF TokenHolders, Woken
<1> QED
  BY <1>1, <1>2, <1>3, <1>5, <1>6, <1>7 DEF TokensInv, FileTokensConserved

(* The token of an object that is taken out goes back to the limiter.      *)
LEMMA LastUseTokens ==
    ASSUME TInv, TokensInv, NEW o \in active, active' = active \ {o}, ReleaseFile(pc)
    PROVE  TokensInv' /\ \A q \in Reqs : Woken(q)
<1>1. Cardinality(active \ {o}) = Cardinality(active) - 1 /\ Cardinality(active) >= 1
  BY TokenCount
<1>2. Cardinality(TokenHolders) \in Nat /\ Cardinality(active) \in Nat
  BY TokenCount
<1>3. used # 0
  BY <1>1, <1>2 DEF TokensInv, FileTokensConserved
<1>4. used' = used - 1 /\ panicked' = panicked /\ pc' = Signal(pc)
  BY <1>3 DEF ReleaseFile
<1>5. \A q \in Reqs : Woken(q)
  BY <1>4 DEF Signal, Woken
<1>6. TokenHolders' = TokenHolders
  BY <1>5 DEF TokenHolders, Woken
<1> QED
  BY <1>1, <1>2, <1>4, <1>5, <1>6 DEF TokensInv, FileTokensConserved

-----------------------------------------------------------------------------
(* The files of a DC *)

(* What Append does to a list without repetition.                          *)
LEMMA AppendDistinct ==
    ASSUME NEW S, NEW s \in Seq(S), NEW x \in S, Distinct(s), x \notin Elems(s)
    PROVE  /\ Distinct(Append(s, x)) /\ Elems(Append(s, x)) = Elems(s) \cup {x}
           /\ Len(Append(s, x)) = Len(s) + 1
<1> DEFINE a == Append(s, x)
<1>1. /\ Len(s) \in Nat /\ DOMAIN s = 1..Len(s) /\ a \in Seq(S) /\ Len(a) = Len(s) + 1
      /\ DOMAIN a = 1..(Len(s) + 1)
      /\ \A i \in 1..Len(s) : a[i] = s[i]
      /\ a[Len(s) + 1] = x
  BY AppendProperties, LenProperties
<1> HIDE DEF a
<1>2. Elems(a) = Elems(s) \cup {x}
  <2>1. Elems(a) \subseteq Elems(s) \cup {x}
    BY <1>1 DEF Elems
  <2>2. \A i \in 1..Len(s) : i \in DOMAIN a /\ s[i] = a[i]
    BY <1>1
  <2>3. Len(s) + 1 \in DOMAIN a
    BY <1>1
  <2>4. Elems(s) \subseteq Elems(a) /\ x \in Elems(a)
    BY <1>1, <2>2, <2>3 DEF Elems
  <2> QED
    BY <2>1, <2>4
<1>3. ASSUME NEW i \in DOMAIN a, NEW j \in DOMAIN a, a[i] = a[j] PROVE i = j
  <2>1. CASE i \in 1..Len(s) /\ j \in 1..Len(s)
    BY <1>1, <1>3, <2>1 DEF Distinct
  <2>2. \A k \in 1..Len(s) : a[k] # x
    BY <1>1 DEF Elems
  <2> QED
    BY <1>1, <1>3, <2>1, <2>2
<1> QED
  BY <1>1, <1>2, <1>3 DEF Distinct, a

(* What Without does to a list without repetition.                         *)
LEMMA WithoutDistinct ==
    ASSUME NEW S, NEW s \in Seq(S), NEW x, Distinct(s), x \in Elems(s)
    PROVE  /\ Distinct(Without(s, x)) /\ Elems(Without(s, x)) = Elems(s) \ {x}
           /\ Len(Without(s, x)) = Len(s) - 1
<1> DEFINE i == CHOOSE j \in DOMAIN s : s[j] = x
           w == SubSeq(s, 1, i - 1) \o SubSeq(s, i + 1, Len(s))
<1>1. i \in 1..Len(s) /\ s[i] = x /\ Len(s) \in Nat /\ DOMAIN s = 1..Len(s)
  BY LenProperties DEF Elems
<1>2. \A j \in 1..Len(s) : s[j] \in S
  BY ElementOfSeq
<1> HIDE DEF i
<1>3. /\ SubSeq(s, 1, i - 1) \in Seq(S) /\ Len(SubSeq(s, 1, i - 1)) = i - 1
      /\ \A j \in 1..(i - 1) : SubSeq(s, 1, i - 1)[j] = s[j]
  BY <1>1, <1>2, SubSeqProperties
<1>4. /\ SubSeq(s, i + 1, Len(s)) \in Seq(S) /\ Len(SubSeq(s, i + 1, Len(s))) = Len(s) - i
      /\ \A j \in 1..(Len(s) - i) : SubSeq(s, i + 1, Len(s))[j] = s[i + j]
  BY <1>1, SuffixType
<1>5. /\ w \in Seq(S) /\ Len(w) = Len(s) - 1 /\ DOMAIN w = 1..(Len(s) - 1)
      /\ \A j \in 1..(Len(s) - 1) : w[j] = IF j < i THEN s[j] ELSE s[j + 1]
  <2>1. /\ w \in Seq(S) /\ Len(w) = (i - 1) + (Len(s) - i)
        /\ \A j \in 1..Len(w) : w[j] = IF j <= i - 1 THEN SubSeq(s, 1, i - 1)[j]
                                       ELSE SubSeq(s, i + 1, Len(s))[j - (i - 1)]
    <3>1. PICK A, B : A = SubSeq(s, 1, i - 1) /\ B = SubSeq(s, i + 1, Len(s))
      OBVIOUS
    <3>2. A \in Seq(S) /\ B \in Seq(S) /\ Len(A) = i - 1 /\ Len(B) = Len(s) - i
      BY <1>3, <1>4, <3>1
    <3>3. /\ A \o B \in Seq(S) /\ Len(A \o B) = Len(A) + Len(B)
          /\ \A j \in 1..(Len(A) + Len(B)) :
                (A \o B)[j] = IF j <= Len(A) THEN A[j] ELSE B[j - Len(A)]
      BY <3>2, ConcatProperties
    <3>4. w = A \o B
      BY <3>1
    <3> HIDE DEF w
    <3> QED
      BY <3>1, <3>2, <3>3, <3>4
  <2> HIDE DEF w
  <2>2. Len(w) = Len(s) - 1
    BY <1>1, <2>1
  <2>3. DOMAIN w = 1..(Len(s) - 1)
    BY <2>1, <2>2, LenProperties
  <2>4. ASSUME NEW j \in 1..(Len(s) - 1) PROVE w[j] = IF j < i THEN s[j] ELSE s[j + 1]
    <3>1. CASE j < i
      <4>1. j \in 1..Len(w) /\ j <= i - 1 /\ j \in 1..(i - 1)
        BY <1>1, <2>2, <3>1
      <4>2. w[j] = SubSeq(s, 1, i - 1)[j]
        BY <2>1, <4>1
      <4> QED
        BY <1>3, <3>1, <4>1, <4>2
    <3>2. CASE ~(j < i)
      <4>1. w[j] = SubSeq(s, i + 1, Len(s))[j - (i - 1)]
        <5>1. j \in 1..Len(w) /\ ~(j <= i - 1)
          BY <1>1, <2>2, <3>2
        <5> QED
          BY <2>1, <5>1
      <4>2. j - (i - 1) \in 1..(Len(s) - i) /\ i + (j - (i - 1)) = j + 1
        BY <1>1, <3>2
      <4> QED
        BY <1>4, <3>2, <4>1, <4>2
    <3> QED
      BY <3>1, <3>2
  <2> QED
    BY <2>1, <2>2, <2>3, <2>4
<1>6. Without(s, x) = w
  BY DEF Without, i
<1> HIDE DEF w
<1>7. Distinct(w)
  <2>1. ASSUME NEW j \in DOMAIN w, NEW k \in DOMAIN w, w[j] = w[k] PROVE j = k
    <3> DEFINE a == IF j < i THEN j ELSE j + 1
               b == IF k < i THEN k ELSE k + 1
    <3>1. a \in 1..Len(s) /\ b \in 1..Len(s)
      BY <1>1, <1>5
    <3>2. w[j] = s[a] /\ w[k] = s[b]
      BY <1>5
    <3>3. a = b
      <4> HIDE DEF a, b
      <4> QED
        BY <1>1, <2>1, <3>1, <3>2, LenProperties DEF Distinct
    <3> QED
      BY <1>1, <1>5, <3>3
  <2> QED
    BY <2>1 DEF Distinct
<1>8. Elems(w) = Elems(s) \ {x}
  <2>1. ASSUME NEW j \in DOMAIN w PROVE w[j] \in Elems(s) /\ w[j] # x
    <3>1. PICK k \in DOMAIN s : k # i /\ w[j] = s[k]
      BY <1>1, <1>5
    <3> QED
      BY <1>1, <3>1 DEF Distinct, Elems
  <2>2. ASSUME NEW k \in DOMAIN s, s[k] # x PROVE s[k] \in Elems(w)
    <3>1. k # i
      BY <1>1, <2>2
    <3>2. PICK j \in DOMAIN w : w[j] = s[k]
      <4>1. CASE k < i
        <5>1. k \in DOMAIN w /\ w[k] = s[k]
          BY <1>1, <1>5, <4>1
        <5> QED
          BY <5>1
      <4>2. CASE k > i
        <5>1. k - 1 \in DOMAIN w /\ w[k - 1] = s[k]
          BY <1>1, <1>5, <4>2
        <5> QED
          BY <5>1
      <4> QED
        BY <1>1, <3>1, <4>1, <4>2
    <3> QED
      BY <3>2 DEF Elems
  <2> QED
    BY <2>1, <2>2 DEF Elems
<1> QED
  BY <1>5, <1>6, <1>7, <1>8

(* An object becomes active: it joins the list of its DC.                  *)
LEMMA JoinDC ==
    ASSUME TInv, DCInv, NEW o \in Reqs, o \notin active, active' = active \cup {o},
           dcTasks' = [dcTasks EXCEPT ![DCOf[o]] = Append(dcTasks[DCOf[o]], o)]
    PROVE  DCInv'
<1>1. DCOf[o] \in DCs
  BY ConstantTypes
<1>2. ASSUME NEW d \in DCs, d # DCOf[o]
      PROVE  dcTasks'[d] = dcTasks[d]
             /\ {p \in active' : DCOf[p] = d} = {p \in active : DCOf[p] = d}
  BY <1>2 DEF TInv, TypeOK
<1>3. PICK d : d = DCOf[o]
  OBVIOUS
<1>4. /\ dcTasks[d] \in Seq(Reqs) /\ Distinct(dcTasks[d]) /\ o \notin Elems(dcTasks[d])
      /\ dcTasks'[d] = Append(dcTasks[d], o) /\ d \in DCs
      /\ Elems(dcTasks[d]) \subseteq Reqs /\ Len(dcTasks[d]) = Cardinality(Elems(dcTasks[d]))
  BY <1>1, <1>3 DEF DCInv, TInv, TypeOK
<1>5. /\ Distinct(dcTasks'[d]) /\ Elems(dcTasks'[d]) = Elems(dcTasks[d]) \cup {o}
      /\ Len(dcTasks'[d]) = Len(dcTasks[d]) + 1
  BY <1>4, AppendDistinct
<1>6. Cardinality(Elems(dcTasks[d]) \cup {o}) = Cardinality(Elems(dcTasks[d])) + 1
  <2>1. PICK E : E = Elems(dcTasks[d])
    OBVIOUS
  <2>2. Cardinality(E \cup {o}) = Cardinality(E) + 1
    BY <1>4, <2>1, Count, SchedulerAssumption
  <2> QED
    BY <2>1, <2>2
<1>7. Elems(dcTasks'[d]) = {p \in active' : DCOf[p] = d}
  BY <1>3, <1>4, <1>5 DEF DCInv
<1> QED
  BY <1>2, <1>3, <1>4, <1>5, <1>6, <1>7 DEF DCInv

(* An active object is taken out of the list of its DC.                    *)
LEMMA LeaveDC ==
    ASSUME TInv, DCInv, NEW o \in active, active' = active \ {o},
           dcTasks' = [dcTasks EXCEPT ![DCOf[o]] = Without(dcTasks[DCOf[o]], o)]
    PROVE  DCInv'
<1>1. DCOf[o] \in DCs /\ o \in Reqs
  BY ConstantTypes DEF TInv, TypeOK
<1>2. ASSUME NEW d \in DCs, d # DCOf[o]
      PROVE  dcTasks'[d] = dcTasks[d]
             /\ {p \in active' : DCOf[p] = d} = {p \in active : DCOf[p] = d}
  BY <1>2 DEF TInv, TypeOK
<1>3. PICK d : d = DCOf[o]
  OBVIOUS
<1>4. /\ dcTasks[d] \in Seq(Reqs) /\ Distinct(dcTasks[d]) /\ o \in Elems(dcTasks[d])
      /\ dcTasks'[d] = Without(dcTasks[d], o) /\ d \in DCs
      /\ Elems(dcTasks[d]) \subseteq Reqs /\ Len(dcTasks[d]) = Cardinality(Elems(dcTasks[d]))
  BY <1>1, <1>3 DEF DCInv, TInv, TypeOK
<1>5. /\ Distinct(dcTasks'[d]) /\ Elems(dcTasks'[d]) = Elems(dcTasks[d]) \ {o}
      /\ Len(dcTasks'[d]) = Len(dcTasks[d]) - 1
  BY <1>4, WithoutDistinct
<1>6. Cardinality(Elems(dcTasks[d]) \ {o}) = Cardinality(Elems(dcTasks[d])) - 1
  <2>1. PICK E : E = Elems(dcTasks[d])
    OBVIOUS
  <2>2. Cardinality(E \ {o}) = Cardinality(E) - 1
    <3>1. E \subseteq Reqs /\ IsFiniteSet(Reqs) /\ o \in E
      BY <1>4, <2>1, SchedulerAssumption
    <3> QED
      BY <3>1, Count
  <2> QED
    BY <2>1, <2>2
<1>7. Elems(dcTasks'[d]) = {p \in active' : DCOf[p] = d}
  BY <1>3, <1>4, <1>5 DEF DCInv
<1> QED
  BY <1>2, <1>3, <1>4, <1>5, <1>6, <1>7 DEF DCInv

-----------------------------------------------------------------------------
(* Lanes *)

(* A step that grants and returns no lane.                                 *)
LEMMA LanesSame ==
    ASSUME TInv, LanesInv, \A c \in Chunks : Anchored(c),
           inFlight' = inFlight, dcInFlight' = dcInFlight,
           \A o \in Reqs : inFlight[o] > 0 /\ o \in active => o \in active',
           \A c \in Chunks : Holds(c)' <=> Holds(c)
    PROVE  LanesInv'
<1>1. \A c \in Chunks : Holds(c) => StateOf(c)' = StateOf(c)
  BY DEF Holds, Anchored
<1>2. \A o \in Reqs : Holders(o)' = Holders(o)
  BY <1>1 DEF Holders
<1>3. \A d \in DCs : LaneHolders(d)' = LaneHolders(d)
  BY <1>1 DEF LaneHolders
<1> QED
  BY <1>2, <1>3 DEF LanesInv, LanesConserved

(* The chunks that hold a lane, counted.                                   *)
LEMMA HolderCount ==
    ASSUME NEW S, S \subseteq Chunks, NEW c \in Chunks
    PROVE  /\ Cardinality(S) \in Nat
           /\ c \in S => Cardinality(S) >= 1 /\ Cardinality(S \ {c}) = Cardinality(S) - 1
           /\ c \notin S => Cardinality(S \cup {c}) = Cardinality(S) + 1
BY Count, SchedulerAssumption

(* A chunk of the active object o gets a lane of its DC.                   *)
LEMMA LaneIn ==
    ASSUME TInv, LanesInv, \A q \in Chunks : Anchored(q),
           NEW c \in Chunks, NEW o \in active, NEW d \in DCs,
           cpc[c] # "idle", StateOf(c) = o, DCOf[o] = d, ~Holds(c), Holds(c)',
           \A q \in Chunks : q # c => (Holds(q)' <=> Holds(q)),
           inFlight' = [inFlight EXCEPT ![o] = inFlight[o] + 1],
           dcInFlight' = [dcInFlight EXCEPT ![d] = dcInFlight[d] + 1],
           active' = active
    PROVE  LanesInv'
<1>1. o \in Reqs
  BY DEF TInv, TypeOK
<1>2. \A q \in Chunks : Holds(q) \/ q = c => StateOf(q)' = StateOf(q)
  BY DEF Holds, Anchored
<1>3. \A p \in Reqs : Holders(p)' = IF p = o THEN Holders(o) \cup {c} ELSE Holders(p)
  BY <1>2 DEF Holders
<1>4. \A e \in DCs : LaneHolders(e)' = IF e = d THEN LaneHolders(d) \cup {c} ELSE LaneHolders(e)
  BY <1>1, <1>2 DEF LaneHolders
<1>5. Cardinality(Holders(o) \cup {c}) = Cardinality(Holders(o)) + 1
  <2>1. Holders(o) \subseteq Chunks /\ c \notin Holders(o)
    BY DEF Holders
  <2> QED
    BY <2>1, HolderCount
<1>6. Cardinality(LaneHolders(d) \cup {c}) = Cardinality(LaneHolders(d)) + 1
  <2>1. LaneHolders(d) \subseteq Chunks /\ c \notin LaneHolders(d)
    BY DEF LaneHolders
  <2> QED
    BY <2>1, HolderCount
<1>7. \A p \in Reqs : inFlight'[p] = Cardinality(Holders(p)')
  BY <1>1, <1>3, <1>5 DEF LanesInv, LanesConserved, TInv, TypeOK
<1>8. \A e \in DCs : dcInFlight'[e] = Cardinality(LaneHolders(e)')
  BY <1>4, <1>6 DEF LanesInv, LanesConserved, TInv, TypeOK
<1>9. \A p \in Reqs : inFlight'[p] > 0 => p \in active'
  BY <1>1 DEF LanesInv, TInv, TypeOK
<1> QED
  BY <1>7, <1>8, <1>9 DEF LanesInv, LanesConserved

(* What a chunk that holds a lane finds in the books.                      *)
LEMMA HolderFinds ==
    ASSUME TInv, LanesInv, NEW c \in Chunks, Holds(c)
    PROVE  /\ StateOf(c) \in active /\ DCOf[StateOf(c)] \in DCs
           /\ inFlight[StateOf(c)] >= 1 /\ dcInFlight[DCOf[StateOf(c)]] >= 1
<1>o. PICK o, d : o = StateOf(c) /\ d = DCOf[o]
  OBVIOUS
<1>1. o \in Reqs /\ d \in DCs
  BY <1>o, StateOfType DEF Holds
<1>2. Holders(o) \subseteq Chunks /\ c \in Holders(o)
  BY <1>o DEF Holders
<1>3. LaneHolders(d) \subseteq Chunks /\ c \in LaneHolders(d)
  BY <1>o, <1>1 DEF LaneHolders
<1>4. inFlight[o] >= 1
  BY <1>1, <1>2, HolderCount DEF LanesInv, LanesConserved
<1>5. dcInFlight[d] >= 1
  BY <1>1, <1>3, HolderCount DEF LanesInv, LanesConserved
<1>6. o \in active
  BY <1>1, <1>4 DEF LanesInv, TInv, TypeOK
<1> QED
  BY <1>o, <1>1, <1>4, <1>5, <1>6

(* A chunk returns its lane; its object may leave with the last one.       *)
LEMMA LaneOut ==
    ASSUME TInv, LanesInv, \A q \in Chunks : Anchored(q),
           NEW c \in Chunks, NEW o \in Reqs, NEW d \in DCs,
           StateOf(c) = o, DCOf[o] = d, Holds(c), ~Holds(c)',
           \A q \in Chunks : q # c => (Holds(q)' <=> Holds(q)),
           inFlight' = [inFlight EXCEPT ![o] = inFlight[o] - 1],
           dcInFlight' = [dcInFlight EXCEPT ![d] = dcInFlight[d] - 1],
           active' = active \/ (active' = active \ {o} /\ inFlight[o] = 1)
    PROVE  LanesInv'
<1>2. \A q \in Chunks : Holds(q) => StateOf(q)' = StateOf(q)
  BY DEF Holds, Anchored
<1>3. \A p \in Reqs : Holders(p)' = IF p = o THEN Holders(o) \ {c} ELSE Holders(p)
  BY <1>2 DEF Holders
<1>4. \A e \in DCs : LaneHolders(e)' = IF e = d THEN LaneHolders(d) \ {c} ELSE LaneHolders(e)
  BY <1>2 DEF LaneHolders
<1>5. Cardinality(Holders(o) \ {c}) = Cardinality(Holders(o)) - 1
  <2>1. Holders(o) \subseteq Chunks /\ c \in Holders(o)
    BY DEF Holders
  <2> QED
    BY <2>1, HolderCount
<1>6. Cardinality(LaneHolders(d) \ {c}) = Cardinality(LaneHolders(d)) - 1
  <2>1. LaneHolders(d) \subseteq Chunks /\ c \in LaneHolders(d)
    BY DEF LaneHolders
  <2> QED
    BY <2>1, HolderCount
<1>7. \A p \in Reqs : inFlight'[p] = Cardinality(Holders(p)')
  BY <1>3, <1>5 DEF LanesInv, LanesConserved, TInv, TypeOK
<1>8. \A e \in DCs : dcInFlight'[e] = Cardinality(LaneHolders(e)')
  BY <1>4, <1>6 DEF LanesInv, LanesConserved, TInv, TypeOK
<1>9. \A p \in Reqs : inFlight'[p] > 0 => p \in active'
  BY DEF LanesInv, TInv, TypeOK
<1> QED
  BY <1>7, <1>8, <1>9 DEF LanesInv, LanesConserved

-----------------------------------------------------------------------------
(* Waiters *)

(* A step that queues nobody: what may leave a queue, and who may stay.    *)
LEMMA WaitersShrink ==
    ASSUME TInv, WaitersInv, \A c \in Chunks : Anchored(c),
           \A o \in Reqs : /\ Distinct(waiters'[o])
                           /\ Elems(waiters'[o]) \subseteq Elems(waiters[o]),
           \A o \in Reqs : \A c \in Elems(waiters'[o]) :
              /\ o \in active' /\ refs'[o] > 0 /\ c \notin granted'
              /\ c \notin canceled' => cpc'[c] = "waiting",
           \A c \in Chunks : cpc[c] # "idle" => cpc'[c] # "idle",
           \A c \in granted' : cpc'[c] # "idle",
           \A c \in Chunks : Queued(c)' =>
              Queued(c) /\ c \in Elems(waiters'[StateOf(c)])
    PROVE  WaitersInv'
<1>1. \A o \in Reqs : \A c \in Elems(waiters[o]) : c \in Chunks
  BY ElementOfSeq DEF TInv, TypeOK, Elems
<1>2. ASSUME NEW o \in Reqs, NEW c \in Elems(waiters'[o])
      PROVE  cpc'[c] # "idle" /\ StateOf(c)' = o
  <2>1. c \in Elems(waiters[o]) /\ c \in Chunks
    BY <1>1, <1>2
  <2>2. cpc[c] # "idle" /\ StateOf(c) = o
    BY <2>1 DEF WaitersInv
  <2> QED
    BY <2>1, <2>2 DEF Anchored
<1>3. ASSUME NEW c \in Chunks, Queued(c)' PROVE c \in Elems(waiters[StateOf(c)])'
  <2>1. StateOf(c)' = StateOf(c)
    BY <1>3 DEF Queued, Anchored
  <2>2. c \in Elems(waiters'[StateOf(c)])
    BY <1>3
  <2> QED
    BY <2>1, <2>2 DEF Elems
<1> QED
  BY <1>2, <1>3 DEF WaitersInv, Elems

(* A step that leaves the queues alone: a chunk that stops waiting is not  *)
(* queued, or is cancelled with the same step.                             *)
LEMMA WaitersSame ==
    ASSUME TInv, WaitersInv, \A c \in Chunks : Anchored(c),
           waiters' = waiters, granted' = granted, canceled \subseteq canceled',
           \A o \in Reqs : o \in active /\ refs[o] > 0 => o \in active' /\ refs'[o] > 0,
           \A c \in Chunks : \/ cpc'[c] = cpc[c]
                             \/ /\ cpc'[c] \in {"held", "done"}
                                /\ c \in granted \/ c \in canceled' \/ cpc[c] # "waiting"
                                /\ c \notin granted \/ cpc[c] # "idle"
    PROVE  WaitersInv'
<1>1. \A o \in Reqs : \A c \in Elems(waiters[o]) :
         /\ c \in Chunks /\ cpc[c] # "idle" /\ c \notin granted /\ o \in active /\ refs[o] > 0
         /\ c \notin canceled => cpc[c] = "waiting"
  BY ElementOfSeq DEF TInv, TypeOK, Elems, WaitersInv
<1>2. \A c \in Chunks : Queued(c) => c \in Elems(waiters[StateOf(c)])
  BY DEF WaitersInv
<1>3. \A o \in Reqs : Distinct(waiters[o])
  BY DEF WaitersInv
<1>4. \A o \in Reqs : \A c \in Elems(waiters'[o]) :
         /\ o \in active' /\ refs'[o] > 0 /\ c \notin granted'
         /\ c \notin canceled' => cpc'[c] = "waiting"
  BY <1>1
<1>5. \A c \in Chunks : cpc[c] # "idle" => cpc'[c] # "idle"
  OBVIOUS
<1>6. \A c \in granted' : cpc'[c] # "idle"
  BY <1>5 DEF WaitersInv, TInv, TypeOK
<1>7. \A c \in Chunks : Queued(c)' => Queued(c)
  BY DEF Queued
<1> QED
  BY <1>2, <1>3, <1>4, <1>5, <1>6, <1>7, WaitersShrink

-----------------------------------------------------------------------------
(* Work conservation *)

(* A step after which every DC outside a dispatch has the lanes in use,    *)
(* the files and at most the waiters it had outside one before.            *)
LEMMA WorkSame ==
    ASSUME WorkInv, capacity' = capacity,
           \A d \in DCs \ dispatching' :
              /\ d \notin dispatching /\ dcInFlight'[d] = dcInFlight[d]
              /\ dcTasks'[d] = dcTasks[d]
              /\ \A o \in Elems(dcTasks[d]) : HasWaiter(o)' => HasWaiter(o)
    PROVE  WorkInv'
<1>1. ASSUME NEW d \in DCs \ dispatching'
      PROVE  Full(d)' \/ \A o \in Elems(dcTasks'[d]) : ~HasWaiter(o)'
  BY <1>1 DEF WorkInv, Full
<1> QED
  BY <1>1 DEF WorkInv, Elems

-----------------------------------------------------------------------------
(* The books, step by step *)

Books == /\ RefsInv /\ ActivationInv /\ TokensInv
         /\ DCInv /\ LanesInv /\ WaitersInv /\ WorkInv

(* A step of a request that takes no object out of use leaves the lanes    *)
(* and the waiters as they are.                                            *)
LEMMA ChunksUntouched ==
    ASSUME TInv, LanesInv, WaitersInv,
           \A r \in Reqs : HasLease(r) => obj'[r] = obj[r],
           UNCHANGED <<inFlight, dcInFlight, waiters, chunkVars>>,
           active \subseteq active', \A o \in Reqs : refs[o] > 0 => refs'[o] > 0
    PROVE  LanesInv' /\ WaitersInv'
<1>1. \A c \in Chunks : Anchored(c)
  BY AnchoredKept
<1>2. cpc' = cpc /\ granted' = granted /\ canceled' = canceled
  BY DEF chunkVars
<1>3. \A c \in Chunks : Holds(c)' <=> Holds(c)
  BY <1>2 DEF Holds
<1>4. LanesInv'
  BY <1>1, <1>3, LanesSame
<1>5. WaitersInv'
  BY <1>1, <1>2, WaitersSame
<1> QED
  BY <1>4, <1>5

(* A step that moves requests without touching objects, lists or lanes.    *)
LEMMA QuietBooks ==
    ASSUME TInv, Books, TokensInv',
           UNCHANGED <<files, stateVars, dcVars, obj, chunkVars>>,
           \A q \in Reqs : /\ pc'[q] \in Registered <=> pc[q] \in Registered
                           /\ pc'[q] \in Acting <=> pc[q] \in Acting
                           /\ pc'[q] = "leased" => pc[q] = "leased",
           \/ capacity' = capacity /\ dispatching' = dispatching
           \/ dispatching' = DCs
    PROVE  Books'
<1>1. /\ files' = files /\ refs' = refs /\ active' = active /\ activating' = activating
      /\ inFlight' = inFlight /\ waiters' = waiters /\ obj' = obj
      /\ dcTasks' = dcTasks /\ dcInFlight' = dcInFlight
      /\ cpc' = cpc /\ granted' = granted /\ canceled' = canceled
  BY DEF stateVars, dcVars, chunkVars
<1>2. RefsInv'
  BY <1>1, RefsSame DEF Books
<1>3. ActivationInv'
  BY <1>1, ActivationSame DEF Books
<1>4. DCInv'
  BY <1>1 DEF Books, DCInv
<1>5. LanesInv' /\ WaitersInv'
  BY <1>1, ChunksUntouched DEF Books, chunkVars
<1>6. WorkInv'
  BY <1>1 DEF Books, WorkInv, Full, HasWaiter
<1> QED
  BY <1>2, <1>3, <1>4, <1>5, <1>6 DEF Books

(* acquireTask finds its context cancelled or another DC, before it        *)
(* registers.                                                              *)
LEMMA TurnedAwayBooks ==
    ASSUME TInv, Books, NEW r \in Reqs, pc[r] = "idle", pc' = [pc EXCEPT ![r] = "done"],
           UNCHANGED <<files, stateVars, dcVars, capacity, limiter, dispatching, obj,
                       chunkVars, panicked>>
    PROVE  Books'
<1>1. \A q \in Reqs : pc'[q] = pc[q] \/ (pc[q] = "idle" /\ pc'[q] = "done")
  BY DEF TInv, TypeOK
<1>2. TokensInv'
  BY <1>1, TokensSame DEF Books, limiter, stateVars
<1> QED
  BY <1>1, <1>2, QuietBooks DEF Registered, Acting

(* acquireTask registers, and returns, waits or becomes the activator.     *)
LEMMA AcquireTaskKeepsBooks ==
    ASSUME TInv, Books, NEW r \in Reqs, AcquireTask(r)
    PROVE  Books'
<1> DEFINE t == TaskOf[r]
<1>o. PICK o : o = IF files[t] = None THEN r ELSE files[t]
  OBVIOUS
<1>1. /\ o \in Reqs /\ pc[r] \in {"idle", "loop"}
      /\ obj' = [obj EXCEPT ![r] = o]
      /\ refs' = [refs EXCEPT ![o] = IF pc[r] = "idle" THEN refs[o] + 1 ELSE refs[o]]
      /\ active' = active /\ inFlight' = inFlight /\ waiters' = waiters
      /\ dcTasks' = dcTasks /\ dcInFlight' = dcInFlight
      /\ capacity' = capacity /\ used' = used /\ panicked' = panicked
      /\ dispatching' = dispatching
      /\ cpc' = cpc /\ granted' = granted /\ canceled' = canceled
  BY <1>o, ConstantTypes DEF AcquireTask, TInv, TypeOK, dcVars, limiter, chunkVars
<1>2. PICK x \in {"leased", "waitReady", "tokenTry"} : pc' = [pc EXCEPT ![r] = x]
  BY DEF AcquireTask
<1>3. RefsInv' /\ ActivationInv'
  BY AcquireTaskBooks DEF Books
<1>4. TokensInv'
  BY <1>1, <1>2, TokensSame DEF Books, TInv, TypeOK
<1>5. DCInv'
  BY <1>1 DEF Books, DCInv
<1>6. \A q \in Reqs : HasLease(q) => obj'[q] = obj[q]
  BY <1>1 DEF HasLease, TInv, TypeOK
<1>7. \A p \in Reqs : refs[p] > 0 => refs'[p] > 0
  <2>1. refs \in [Reqs -> Nat]
    BY DEF TInv, TypeOK
  <2> QED
    BY <1>1, <2>1
<1>8. LanesInv' /\ WaitersInv'
  BY <1>1, <1>6, <1>7, ChunksUntouched DEF Books, chunkVars
<1>9. WorkInv'
  BY <1>1 DEF Books, WorkInv, Full, HasWaiter
<1> QED
  BY <1>3, <1>4, <1>5, <1>8, <1>9 DEF Books

(* completeActivation puts the object into use or gives the attempt up.    *)
LEMMA CompleteActivationKeepsBooks ==
    ASSUME TInv, Books, NEW r \in Reqs, CompleteActivation(r)
    PROVE  Books'
<1>o. PICK o : o = obj[r]
  OBVIOUS
<1>1. pc[r] \in {"tokenOk", "tokenFail"} /\ pc[r] \in Acting
  BY DEF CompleteActivation, Acting
<1>2. o \in Reqs /\ files[TaskOf[o]] = o /\ activating[o] = r /\ o \notin active
      /\ DCOf[o] \in DCs
  BY <1>o, <1>1, ActivatorCurrent, ConstantTypes DEF Books
<1>3. /\ refs' = refs /\ inFlight' = inFlight /\ waiters' = waiters
      /\ dcInFlight' = dcInFlight /\ capacity' = capacity /\ obj' = obj
      /\ cpc' = cpc /\ granted' = granted /\ canceled' = canceled /\ dispatching = {}
  BY DEF CompleteActivation, chunkVars, Unlocked
<1>4. \/ active' = active /\ dcTasks' = dcTasks /\ dispatching' = dispatching
      \/ /\ active' = active \cup {o} /\ dispatching' = {DCOf[o]}
         /\ dcTasks' = [dcTasks EXCEPT ![DCOf[o]] = Append(dcTasks[DCOf[o]], o)]
  BY <1>o, <1>2 DEF CompleteActivation
<1>5. RefsInv' /\ ActivationInv' /\ TokensInv'
  BY CompleteActivationBooks, CompleteActivationTokens DEF Books
<1>6. DCInv'
  <2>1. CASE active' = active /\ dcTasks' = dcTasks
    BY <2>1 DEF Books, DCInv
  <2>2. CASE /\ active' = active \cup {o}
             /\ dcTasks' = [dcTasks EXCEPT ![DCOf[o]] = Append(dcTasks[DCOf[o]], o)]
    BY <1>2, <2>2, JoinDC DEF Books
  <2> QED
    BY <1>4, <2>1, <2>2
<1>7. LanesInv' /\ WaitersInv'
  <2>1. active \subseteq active'
    BY <1>4
  <2> QED
    BY <1>3, <2>1, ChunksUntouched DEF Books, chunkVars
<1>8. WorkInv'
  <2>1. \A p \in Reqs : HasWaiter(p)' <=> HasWaiter(p)
    BY <1>3 DEF HasWaiter
  <2>2. ASSUME NEW d \in DCs \ dispatching'
        PROVE /\ d \notin dispatching /\ dcTasks'[d] = dcTasks[d]
              /\ dcInFlight'[d] = dcInFlight[d]
              /\ \A p \in Elems(dcTasks[d]) : HasWaiter(p)' => HasWaiter(p)
    BY <1>2, <1>3, <1>4 DEF TInv, TypeOK, HasWaiter
  <2> QED
    BY <1>3, <2>2, WorkSame DEF Books
<1> QED
  BY <1>5, <1>6, <1>7, <1>8 DEF Books

(* releaseTask, by any caller it has.                                      *)
LEMMA ReleaseTaskKeepsBooks ==
    ASSUME TInv, Books, NEW r \in Reqs, pc[r] \in Registered \ Acting,
           NEW ptr, ReleaseTask(r, ptr), pc[r] = "leased" => ptr = obj[r]
    PROVE  Books'
<1>o. PICK o : o = obj[r]
  OBVIOUS
<1>1. o \in Reqs /\ files[TaskOf[o]] = o /\ refs[o] >= 1 /\ refs[o] \in Nat /\ DCOf[o] \in DCs
  <2>1. o \in Reqs /\ DCOf[o] \in DCs
    BY <1>o, ConstantTypes DEF TInv, PointersSet
  <2>2. files[TaskOf[o]] = o /\ r \in Users(o)
    BY <1>o, <2>1 DEF Books, RefsInv, Users
  <2> QED
    BY <2>1, <2>2, UsersCount DEF Books
<1>2. /\ refs' = [refs EXCEPT ![o] = refs[o] - 1]
      /\ obj' = [obj EXCEPT ![r] = ptr]
      /\ inFlight' = inFlight /\ dcInFlight' = dcInFlight /\ capacity' = capacity
      /\ cpc' = cpc /\ granted' = granted /\ dispatching = {}
  BY <1>o, <1>1 DEF ReleaseTask, Unlocked
<1>3. \/ refs[o] # 1 /\ canceled' = canceled /\ waiters' = waiters
      \/ /\ refs[o] = 1 /\ canceled' = canceled \cup Elems(waiters[o])
         /\ waiters' = [waiters EXCEPT ![o] = <<>>]
  BY <1>o, <1>1 DEF ReleaseTask, WaitersClosed
<1>4. \/ active' = active /\ dcTasks' = dcTasks /\ dispatching' = dispatching
      \/ /\ refs[o] = 1 /\ inFlight[o] = 0 /\ o \in active
         /\ active' = active \ {o} /\ dispatching' = {DCOf[o]}
         /\ dcTasks' = [dcTasks EXCEPT ![DCOf[o]] = Without(dcTasks[DCOf[o]], o)]
  BY <1>o, <1>1 DEF ReleaseTask, RemoveActiveTask, Removable
<1>5. RefsInv' /\ ActivationInv' /\ TokensInv'
  BY ReleaseTaskBooks, ReleaseTaskTokens DEF Books
<1>6. DCInv'
  <2>1. CASE active' = active /\ dcTasks' = dcTasks
    BY <2>1 DEF Books, DCInv
  <2>2. CASE /\ o \in active /\ active' = active \ {o}
             /\ dcTasks' = [dcTasks EXCEPT ![DCOf[o]] = Without(dcTasks[DCOf[o]], o)]
    BY <2>2, LeaveDC DEF Books
  <2> QED
    BY <1>4, <2>1, <2>2
<1>7. \A q \in Reqs : HasLease(q) => obj'[q] = obj[q]
  BY <1>2 DEF HasLease, Registered, TInv, TypeOK
<1>8. \A c \in Chunks : Anchored(c)
  BY <1>7, AnchoredKept
<1>9. LanesInv'
  <2>1. \A c \in Chunks : Holds(c)' <=> Holds(c)
    BY <1>2 DEF Holds
  <2>2. \A p \in Reqs : inFlight[p] > 0 /\ p \in active => p \in active'
    BY <1>1, <1>4
  <2> QED
    BY <1>2, <1>8, <2>1, <2>2, LanesSame DEF Books
<1>10. WaitersInv'
  <2>1. CASE refs[o] # 1
    <3>1. active' = active /\ waiters' = waiters /\ canceled' = canceled
      BY <1>3, <1>4, <2>1
    <3>2. \A p \in Reqs : refs[p] > 0 => refs'[p] > 0
      BY <1>1, <1>2, <2>1 DEF TInv, TypeOK
    <3> QED
      BY <1>2, <1>8, <3>1, <3>2, WaitersSame DEF Books
  <2>2. CASE refs[o] = 1
    <3>1. /\ canceled' = canceled \cup Elems(waiters[o])
          /\ \A p \in Reqs : p # o => waiters'[p] = waiters[p]
          /\ waiters'[o] = <<>>
      BY <1>1, <1>3, <2>2 DEF TInv, TypeOK
    <3>2. Elems(<<>>) = {} /\ Distinct(<<>>)
      BY DEF Elems, Distinct
    <3>3. \A p \in Reqs : /\ Distinct(waiters'[p])
                          /\ Elems(waiters'[p]) \subseteq Elems(waiters[p])
      BY <3>1, <3>2 DEF Books, WaitersInv
    <3>4. \A p \in Reqs : p # o => refs'[p] = refs[p] /\ (p \in active => p \in active')
      BY <1>1, <1>2, <1>4 DEF TInv, TypeOK
    <3>5. \A p \in Reqs : \A c \in Elems(waiters'[p]) :
             /\ p \in active' /\ refs'[p] > 0 /\ c \notin granted'
             /\ c \notin canceled' => cpc'[c] = "waiting"
      <4>1. ASSUME NEW p \in Reqs, NEW c \in Elems(waiters'[p])
            PROVE  /\ p \in active' /\ refs'[p] > 0 /\ c \notin granted'
                   /\ c \notin canceled' => cpc'[c] = "waiting"
        <5>1. p # o /\ c \in Elems(waiters[p])
          BY <3>1, <3>2, <4>1
        <5>2. /\ p \in active /\ refs[p] > 0 /\ c \notin granted
              /\ c \notin canceled => cpc[c] = "waiting"
          BY <5>1 DEF Books, WaitersInv
        <5> QED
          BY <1>2, <3>1, <3>4, <5>1, <5>2
      <4> QED
        BY <4>1
    <3>6. ASSUME NEW c \in Chunks, Queued(c)'
          PROVE  Queued(c) /\ c \in Elems(waiters'[StateOf(c)])
      <4>1. Queued(c) /\ c \notin Elems(waiters[o])
        BY <1>2, <3>1, <3>6 DEF Queued
      <4>2. c \in Elems(waiters[StateOf(c)]) /\ StateOf(c) \in Reqs
        BY <4>1, StateOfType DEF Books, WaitersInv, Queued
      <4> QED
        BY <3>1, <4>1, <4>2
    <3>7. \A c \in granted' : cpc'[c] # "idle"
      BY <1>2 DEF Books, WaitersInv
    <3> QED
      BY <1>2, <1>8, <3>3, <3>5, <3>6, <3>7, WaitersShrink DEF Books
  <2> QED
    BY <2>1, <2>2
<1>11. WorkInv'
  <2>1. \A p \in Reqs : HasWaiter(p)' => HasWaiter(p)
    <3>1. ASSUME NEW p \in Reqs, HasWaiter(p)' PROVE HasWaiter(p)
      <4>1. DOMAIN waiters'[p] # {}
        BY <3>1 DEF HasWaiter
      <4>2. waiters'[p] # <<>>
        BY <4>1
      <4>3. waiters'[p] = waiters[p]
        BY <1>1, <1>3, <4>2 DEF TInv, TypeOK
      <4> QED
        BY <1>3, <3>1, <4>3 DEF HasWaiter
    <3> QED
      BY <3>1
  <2>2. ASSUME NEW d \in DCs \ dispatching'
        PROVE /\ d \notin dispatching /\ dcTasks'[d] = dcTasks[d]
              /\ dcInFlight'[d] = dcInFlight[d]
              /\ \A p \in Elems(dcTasks[d]) : HasWaiter(p)' => HasWaiter(p)
    <3>1. Elems(dcTasks[d]) \subseteq Reqs
      BY <2>2, ElementOfSeq DEF TInv, TypeOK, Elems
    <3> QED
      BY <1>1, <1>2, <1>4, <2>1, <3>1 DEF TInv, TypeOK
  <2> QED
    BY <1>2, <2>2, WorkSame DEF Books
<1> QED
  BY <1>5, <1>6, <1>9, <1>10, <1>11 DEF Books

(* AcquireChunk is refused, or queues the chunk once.                      *)
LEMMA AcquireChunkKeepsBooks ==
    ASSUME TInv, Books, NEW c \in Chunks, AcquireChunk(c)
    PROVE  Books'
<1>o. PICK o : o = StateOf(c)
  OBVIOUS
<1>1. /\ o \in Reqs /\ DCOf[o] \in DCs /\ cpc[c] = "idle" /\ dispatching = {}
      /\ files' = files /\ refs' = refs /\ active' = active /\ activating' = activating
      /\ inFlight' = inFlight /\ dcTasks' = dcTasks /\ dcInFlight' = dcInFlight
      /\ capacity' = capacity /\ used' = used /\ pc' = pc /\ obj' = obj
      /\ granted' = granted /\ canceled' = canceled /\ panicked' = panicked
  BY <1>o, ConstantTypes DEF AcquireChunk, StateOf, HasLease, TInv, TypeOK, dcVars, limiter,
                             Unlocked
<1>2. c \notin granted /\ \A p \in Reqs : c \notin Elems(waiters[p])
  BY <1>1 DEF Books, WaitersInv
<1>3. RefsInv' /\ ActivationInv' /\ TokensInv' /\ DCInv'
  <2>1. RefsInv' /\ ActivationInv' /\ TokensInv'
    BY <1>1, RefsSame, ActivationSame, TokensSame DEF Books
  <2> QED
    BY <1>1, <2>1 DEF Books, DCInv
<1>4. \A q \in Chunks : Anchored(q)
  BY <1>1, AnchoredKept
<1>5. PICK x \in {"waiting", "done"} : cpc' = [cpc EXCEPT ![c] = x]
  BY DEF AcquireChunk
<1>6. LanesInv'
  <2>1. \A q \in Chunks : Holds(q)' <=> Holds(q)
    BY <1>1, <1>2, <1>5 DEF Holds, TInv, TypeOK
  <2> QED
    BY <1>1, <1>4, <2>1, LanesSame DEF Books
<1>7. CASE waiters' = waiters /\ dispatching' = dispatching /\ cpc' = [cpc EXCEPT ![c] = "done"]
  <2>1. WaitersInv'
    BY <1>1, <1>2, <1>4, <1>7, WaitersSame DEF Books, TInv, TypeOK
  <2>2. WorkInv'
    BY <1>1, <1>7 DEF Books, WorkInv, Full, HasWaiter
  <2> QED
    BY <1>3, <1>6, <2>1, <2>2 DEF Books
<1>8. CASE /\ o \in active /\ refs[o] >= 1 /\ cpc' = [cpc EXCEPT ![c] = "waiting"]
           /\ waiters' = [waiters EXCEPT ![o] = Append(waiters[o], c)]
           /\ dispatching' = {DCOf[o]}
  <2>1. /\ waiters[o] \in Seq(Chunks) /\ Distinct(waiters[o]) /\ c \notin Elems(waiters[o])
        /\ waiters'[o] = Append(waiters[o], c)
        /\ \A p \in Reqs : p # o => waiters'[p] = waiters[p]
    BY <1>1, <1>2, <1>8 DEF Books, WaitersInv, TInv, TypeOK
  <2>2. Distinct(waiters'[o]) /\ Elems(waiters'[o]) = Elems(waiters[o]) \cup {c}
    BY <2>1, AppendDistinct
  <2>3. \A q \in Chunks : q # c => cpc'[q] = cpc[q]
    BY <1>8 DEF TInv, TypeOK
  <2>4. cpc'[c] = "waiting"
    BY <1>8 DEF TInv, TypeOK
  <2>5. \A q \in Chunks : StateOf(q)' = StateOf(q)
    BY <1>1 DEF StateOf
  <2>6. ASSUME NEW p \in Reqs, NEW q \in Elems(waiters'[p])
        PROVE  /\ cpc'[q] # "idle" /\ StateOf(q)' = p /\ q \notin granted'
               /\ p \in active' /\ refs'[p] > 0
               /\ q \notin canceled' => cpc'[q] = "waiting"
    <3>1. CASE q = c
      <4>1. p = o
        BY <1>2, <2>1, <2>6, <3>1
      <4>2. refs[o] > 0
        BY <1>1, <1>8 DEF TInv, TypeOK
      <4> QED
        BY <1>o, <1>1, <1>2, <1>8, <2>4, <2>5, <3>1, <4>1, <4>2
    <3>2. CASE q # c
      <4>1. q \in Elems(waiters[p])
        BY <2>1, <2>2, <2>6, <3>2
      <4>2. q \in Chunks
        BY <4>1, ElementOfSeq DEF TInv, TypeOK, Elems
      <4>3. /\ cpc[q] # "idle" /\ StateOf(q) = p /\ q \notin granted
            /\ p \in active /\ refs[p] > 0
            /\ q \notin canceled => cpc[q] = "waiting"
        BY <4>1 DEF Books, WaitersInv
      <4> QED
        BY <1>1, <2>3, <2>5, <3>2, <4>2, <4>3
    <3> QED
      BY <3>1, <3>2
  <2>7. ASSUME NEW q \in Chunks, Queued(q)' PROVE q \in Elems(waiters[StateOf(q)])'
    <3>1. CASE q = c
      <4>1. q \in Elems(waiters'[StateOf(q)])
        BY <1>o, <2>2, <3>1
      <4> QED
        BY <2>5, <4>1 DEF Elems
    <3>2. CASE q # c
      <4>1. Queued(q)
        BY <1>1, <2>3, <2>7, <3>2 DEF Queued
      <4>2. q \in Elems(waiters[StateOf(q)]) /\ StateOf(q) \in Reqs
        BY <4>1, StateOfType DEF Books, WaitersInv, Queued
      <4>3. q \in Elems(waiters'[StateOf(q)])
        BY <2>1, <2>2, <4>2
      <4> QED
        BY <2>5, <4>3 DEF Elems
    <3> QED
      BY <3>1, <3>2
  <2>8. \A p \in Reqs : Distinct(waiters'[p])
    BY <2>1, <2>2 DEF Books, WaitersInv
  <2>9. \A q \in granted' : cpc'[q] # "idle"
    BY <1>1, <1>2, <2>3 DEF Books, WaitersInv, TInv, TypeOK
  <2>10. WaitersInv'
    BY <2>6, <2>7, <2>8, <2>9 DEF WaitersInv, Elems
  <2>11. ASSUME NEW d \in DCs \ dispatching'
         PROVE /\ d \notin dispatching /\ dcTasks'[d] = dcTasks[d]
               /\ dcInFlight'[d] = dcInFlight[d]
               /\ \A p \in Elems(dcTasks[d]) : HasWaiter(p)' => HasWaiter(p)
    <3>1. \A p \in Elems(dcTasks[d]) : p \in Reqs /\ p # o
      BY <1>8, <2>11 DEF Books, DCInv, TInv, TypeOK
    <3> QED
      BY <1>1, <2>1, <3>1 DEF HasWaiter
  <2>12. WorkInv'
    BY <1>1, <2>11, WorkSame DEF Books
  <2> QED
    BY <1>3, <1>6, <2>10, <2>12 DEF Books
<1> QED
  BY <1>o, <1>7, <1>8 DEF AcquireChunk

(* A chunk stops waiting without giving a lane back.                       *)
LEMMA ChunkLeavesKeepsBooks ==
    ASSUME TInv, Books, NEW c \in Chunks,
           ChunkAdmitted(c) \/ ChunkRefused(c) \/ ChunkCanceled(c)
    PROVE  Books'
<1>1. /\ cpc[c] = "waiting" /\ dispatching = {}
      /\ files' = files /\ refs' = refs /\ active' = active /\ activating' = activating
      /\ inFlight' = inFlight /\ dcTasks' = dcTasks /\ dcInFlight' = dcInFlight
      /\ capacity' = capacity /\ used' = used /\ pc' = pc /\ obj' = obj
      /\ waiters' = waiters /\ granted' = granted /\ panicked' = panicked
  BY DEF ChunkAdmitted, ChunkRefused, ChunkCanceled, stateVars, dcVars, limiter, Unlocked
<1>2. \/ /\ cpc' = [cpc EXCEPT ![c] = "held"] /\ c \in granted /\ canceled' = canceled
      \/ /\ cpc' = [cpc EXCEPT ![c] = "done"] /\ c \notin granted /\ c \in canceled'
         /\ canceled \subseteq canceled'
  BY DEF ChunkAdmitted, ChunkRefused, ChunkCanceled
<1>3. RefsInv' /\ ActivationInv' /\ TokensInv' /\ DCInv'
  <2>1. RefsInv' /\ ActivationInv' /\ TokensInv'
    BY <1>1, RefsSame, ActivationSame, TokensSame DEF Books
  <2> QED
    BY <1>1, <2>1 DEF Books, DCInv
<1>4. \A q \in Chunks : Anchored(q)
  BY <1>1, AnchoredKept
<1>5. LanesInv'
  <2>1. \A q \in Chunks : Holds(q)' <=> Holds(q)
    BY <1>1, <1>2 DEF Holds, TInv, TypeOK
  <2> QED
    BY <1>1, <1>4, <2>1, LanesSame DEF Books
<1>6. WaitersInv'
  <2>1. \A q \in Chunks : \/ cpc'[q] = cpc[q]
                          \/ /\ cpc'[q] \in {"held", "done"}
                             /\ q \in granted \/ q \in canceled' \/ cpc[q] # "waiting"
                             /\ q \notin granted \/ cpc[q] # "idle"
    BY <1>1, <1>2 DEF TInv, TypeOK
  <2>2. canceled \subseteq canceled'
    BY <1>2
  <2> QED
    BY <1>1, <1>4, <2>1, <2>2, WaitersSame DEF Books
<1>7. WorkInv'
  <2>1. \A p \in Reqs : HasWaiter(p)' => HasWaiter(p)
    BY <1>1, <1>2 DEF HasWaiter
  <2>2. ASSUME NEW d \in DCs \ dispatching'
        PROVE /\ d \notin dispatching /\ dcTasks'[d] = dcTasks[d]
              /\ dcInFlight'[d] = dcInFlight[d]
              /\ \A p \in Elems(dcTasks[d]) : HasWaiter(p)' => HasWaiter(p)
    BY <1>1, <1>2 DEF HasWaiter
  <2> QED
    BY <1>1, <2>2, WorkSame DEF Books
<1> QED
  BY <1>3, <1>5, <1>6, <1>7 DEF Books

(* releaseChunkLocked, by a chunk that holds a lane, never panics.         *)
LEMMA ReleaseChunkKeepsBooks ==
    ASSUME TInv, Books, NEW c \in Chunks, Holds(c), ReleaseChunkLocked(c)
    PROVE  Books'
<1>o. PICK o : o = StateOf(c)
  OBVIOUS
<1>1. /\ o \in active /\ o \in Reqs /\ DCOf[o] \in DCs
      /\ inFlight[o] >= 1 /\ dcInFlight[DCOf[o]] >= 1
  BY <1>o, HolderFinds DEF Books, TInv, TypeOK
<1>2. inFlight[o] \in Nat /\ dcInFlight[DCOf[o]] \in Nat
  BY <1>1 DEF TInv, TypeOK
<1>3. /\ cpc' = [cpc EXCEPT ![c] = "done"] /\ dispatching = {}
      /\ inFlight' = [inFlight EXCEPT ![o] = inFlight[o] - 1]
      /\ dcInFlight' = [dcInFlight EXCEPT ![DCOf[o]] = dcInFlight[DCOf[o]] - 1]
      /\ dispatching' = {DCOf[o]}
      /\ refs' = refs /\ activating' = activating /\ waiters' = waiters
      /\ capacity' = capacity /\ obj' = obj /\ granted' = granted /\ canceled' = canceled
  BY <1>o, <1>1, <1>2 DEF ReleaseChunkLocked, RemoveActiveTask, Unlocked
<1>4. \/ /\ refs[o] = 0 /\ inFlight[o] = 1
         /\ dcTasks' = [dcTasks EXCEPT ![DCOf[o]] = Without(dcTasks[DCOf[o]], o)]
         /\ active' = active \ {o}
         /\ files' = [files EXCEPT ![TaskOf[o]] = None]
         /\ ReleaseFile(pc)
      \/ UNCHANGED <<dcTasks, active, files, used, pc, panicked>>
  BY <1>o, <1>1, <1>2 DEF ReleaseChunkLocked, RemoveActiveTask, LastUse
<1>5. RefsInv' /\ ActivationInv' /\ TokensInv' /\ DCInv'
  <2>1. CASE UNCHANGED <<dcTasks, active, files, used, pc, panicked>>
    <3>1. RefsInv' /\ ActivationInv' /\ TokensInv'
      BY <1>3, <2>1, RefsSame, ActivationSame, TokensSame DEF Books
    <3> QED
      BY <2>1, <3>1 DEF Books, DCInv
  <2>2. CASE /\ refs[o] = 0
             /\ dcTasks' = [dcTasks EXCEPT ![DCOf[o]] = Without(dcTasks[DCOf[o]], o)]
             /\ active' = active \ {o}
             /\ files' = [files EXCEPT ![TaskOf[o]] = None]
             /\ ReleaseFile(pc)
    <3>1. TokensInv' /\ \A q \in Reqs : Woken(q)
      BY <1>1, <2>2, LastUseTokens DEF Books
    <3>2. RefsInv' /\ ActivationInv'
      BY <1>1, <1>3, <2>2, <3>1, RemoveUnusedBooks DEF Books
    <3>3. DCInv'
      BY <1>1, <2>2, LeaveDC DEF Books
    <3> QED
      BY <3>1, <3>2, <3>3
  <2> QED
    BY <1>4, <2>1, <2>2
<1>6. \A q \in Chunks : Anchored(q)
  BY <1>3, AnchoredKept
<1>7. LanesInv'
  <2>1. ~Holds(c)' /\ \A q \in Chunks : q # c => (Holds(q)' <=> Holds(q))
    BY <1>3 DEF Holds, TInv, TypeOK
  <2>2. active' = active \/ (active' = active \ {o} /\ inFlight[o] = 1)
    BY <1>4
  <2>3. PICK d \in DCs : d = DCOf[o]
    BY <1>1
  <2> QED
    BY <1>o, <1>1, <1>3, <1>6, <2>1, <2>2, <2>3, LaneOut DEF Books
<1>8. WaitersInv'
  <2>1. \A p \in Reqs : p \in active /\ refs[p] > 0 => p \in active' /\ refs'[p] > 0
    BY <1>3, <1>4
  <2>2. \A q \in Chunks : \/ cpc'[q] = cpc[q]
                          \/ /\ cpc'[q] \in {"held", "done"}
                             /\ q \in granted \/ q \in canceled' \/ cpc[q] # "waiting"
                             /\ q \notin granted \/ cpc[q] # "idle"
    BY <1>3 DEF TInv, TypeOK, Holds
  <2> QED
    BY <1>3, <1>6, <2>1, <2>2, WaitersSame DEF Books
<1>9. WorkInv'
  <2>1. ASSUME NEW d \in DCs \ dispatching'
        PROVE /\ d \notin dispatching /\ dcTasks'[d] = dcTasks[d]
              /\ dcInFlight'[d] = dcInFlight[d]
              /\ \A p \in Elems(dcTasks[d]) : HasWaiter(p)' => HasWaiter(p)
    BY <1>1, <1>3, <1>4 DEF HasWaiter, TInv, TypeOK
  <2> QED
    BY <1>3, <2>1, WorkSame DEF Books
<1> QED
  BY <1>5, <1>7, <1>8, <1>9 DEF Books

(* A queue with a waiter has it at some position, and the other way round. *)
LEMMA NoWaiterLeft ==
    ASSUME NEW o \in Reqs, ~HasWaiter(o)
    PROVE  \A c \in Elems(waiters[o]) : c \in canceled
BY DEF HasWaiter, Elems

(* What a turn of dispatchLocked does: o is the file it serves, at         *)
(* position i of the files of d, and c the waiter, at position k of o.     *)
Serves(d, i, o, k, c) ==
    /\ i \in DOMAIN dcTasks[d] /\ o = dcTasks[d][i] /\ o \in active /\ o \in Reqs
    /\ DCOf[o] = d
    /\ k \in 1..Len(waiters[o]) /\ c = waiters[o][k] /\ c \in Chunks
    /\ c \notin canceled /\ c \in Elems(waiters[o])
    /\ \A j \in 1..(i - 1) : ~HasWaiter(dcTasks[d][j])
    /\ \A j \in 1..(k - 1) : waiters[o][j] \in canceled
    /\ granted' = granted \cup {c}
    /\ inFlight' = [inFlight EXCEPT ![o] = inFlight[o] + 1]
    /\ dcInFlight' = [dcInFlight EXCEPT ![d] = dcInFlight[d] + 1]
    /\ waiters'[o] = SubSeq(waiters[o], k + 1, Len(waiters[o]))
    /\ \A q \in Reqs : q # o =>
         \/ waiters'[q] = waiters[q]
         \/ waiters'[q] = <<>> /\ ~HasWaiter(q)

(* A turn of the loop serves the first waiter of the first file.           *)
LEMMA GrantServes ==
    ASSUME TInv, DCInv, NEW d \in DCs, Grant(d)
    PROVE  \E i, o, k, c : Serves(d, i, o, k, c)
<1>0. PICK i \in DOMAIN dcTasks[d] : \E k \in DOMAIN waiters[dcTasks[d][i]] :
         LET o == dcTasks[d][i]
             passed == {dcTasks[d][j] : j \in 1..(i - 1)}
         IN /\ FirstFile(d, i) /\ FirstWaiter(waiters[o], k)
            /\ granted' = granted \cup {waiters[o][k]}
            /\ inFlight' = [inFlight EXCEPT ![o] = @ + 1]
            /\ dcInFlight' = [dcInFlight EXCEPT ![d] = @ + 1]
            /\ waiters' = [q \in Reqs |->
                             IF q = o THEN SubSeq(waiters[o], k + 1, Len(waiters[o]))
                             ELSE IF q \in passed THEN <<>> ELSE waiters[q]]
  BY DEF Grant
<1>2. PICK o : o = dcTasks[d][i]
  OBVIOUS
<1>1. PICK k \in DOMAIN waiters[o] :
         /\ FirstFile(d, i) /\ FirstWaiter(waiters[o], k)
         /\ granted' = granted \cup {waiters[o][k]}
         /\ inFlight' = [inFlight EXCEPT ![o] = @ + 1]
         /\ dcInFlight' = [dcInFlight EXCEPT ![d] = @ + 1]
         /\ waiters' = [q \in Reqs |->
                          IF q = o THEN SubSeq(waiters[o], k + 1, Len(waiters[o]))
                          ELSE IF q \in {dcTasks[d][j] : j \in 1..(i - 1)} THEN <<>>
                          ELSE waiters[q]]
  BY <1>0, <1>2
<1>3. o \in Elems(dcTasks[d])
  BY <1>0, <1>2 DEF Elems
<1>4. o \in active /\ o \in Reqs /\ DCOf[o] = d
  BY <1>3 DEF DCInv, TInv, TypeOK
<1>5. PICK c : c = waiters[o][k]
  OBVIOUS
<1>6. /\ FirstFile(d, i) /\ FirstWaiter(waiters[o], k)
      /\ granted' = granted \cup {c}
      /\ inFlight' = [inFlight EXCEPT ![o] = inFlight[o] + 1]
      /\ dcInFlight' = [dcInFlight EXCEPT ![d] = dcInFlight[d] + 1]
      /\ waiters' = [q \in Reqs |->
                       IF q = o THEN SubSeq(waiters[o], k + 1, Len(waiters[o]))
                       ELSE IF q \in {dcTasks[d][j] : j \in 1..(i - 1)} THEN <<>>
                       ELSE waiters[q]]
  BY <1>1, <1>2, <1>5
<1>7. waiters[o] \in Seq(Chunks) /\ k \in DOMAIN waiters[o] /\ k \in 1..Len(waiters[o])
  BY <1>1, <1>2, <1>4, SuffixType DEF TInv, TypeOK
<1>8. c \in Chunks /\ c \in Elems(waiters[o])
  BY <1>5, <1>7, ElementOfSeq DEF Elems
<1>9. /\ c \notin canceled
      /\ \A j \in 1..(k - 1) : waiters[o][j] \in canceled
  BY <1>5, <1>6 DEF FirstWaiter
<1>10. \A j \in 1..(i - 1) : ~HasWaiter(dcTasks[d][j])
  BY <1>6 DEF FirstFile
<1>11. waiters'[o] = SubSeq(waiters[o], k + 1, Len(waiters[o]))
  BY <1>4, <1>6
<1>12. ASSUME NEW q \in Reqs, q # o
       PROVE  \/ waiters'[q] = waiters[q]
              \/ waiters'[q] = <<>> /\ ~HasWaiter(q)
  BY <1>6, <1>10, <1>12
<1> QED
  BY <1>0, <1>2, <1>4, <1>5, <1>6, <1>7, <1>8, <1>9, <1>10, <1>11, <1>12 DEF Serves

(* A turn of the loop moves a waiter to a lane and prunes dead ones.       *)
LEMMA GrantKeepsBooks ==
    ASSUME TInv, Books, NEW d \in DCs, Grant(d)
    PROVE  Books'
<1>1. PICK i, o, k, c : Serves(d, i, o, k, c)
  BY GrantServes DEF Books
<1>2. /\ files' = files /\ refs' = refs /\ active' = active /\ activating' = activating
      /\ dcTasks' = dcTasks /\ capacity' = capacity /\ used' = used /\ pc' = pc
      /\ obj' = obj /\ cpc' = cpc /\ canceled' = canceled /\ panicked' = panicked
      /\ dispatching' = dispatching /\ d \in dispatching
  BY DEF Grant, limiter
<1>3. /\ o \in active /\ o \in Reqs /\ c \in Chunks /\ c \in Elems(waiters[o])
      /\ c \notin canceled /\ DCOf[o] = d /\ granted' = granted \cup {c}
      /\ k \in 1..Len(waiters[o]) /\ c = waiters[o][k]
      /\ \A j \in 1..(k - 1) : waiters[o][j] \in canceled
      /\ inFlight' = [inFlight EXCEPT ![o] = inFlight[o] + 1]
      /\ dcInFlight' = [dcInFlight EXCEPT ![d] = dcInFlight[d] + 1]
      /\ waiters'[o] = SubSeq(waiters[o], k + 1, Len(waiters[o]))
  BY <1>1 DEF Serves
<1>4. \A q \in Reqs : q # o =>
         \/ waiters'[q] = waiters[q]
         \/ waiters'[q] = <<>> /\ ~HasWaiter(q)
  BY <1>1 DEF Serves
<1>5. cpc[c] = "waiting" /\ StateOf(c) = o /\ c \notin granted
  BY <1>3 DEF Books, WaitersInv
<1>6. RefsInv' /\ ActivationInv' /\ TokensInv' /\ DCInv'
  <2>1. RefsInv' /\ ActivationInv' /\ TokensInv'
    BY <1>2, RefsSame, ActivationSame, TokensSame DEF Books
  <2> QED
    BY <1>2, <2>1 DEF Books, DCInv
<1>7. \A q \in Chunks : Anchored(q)
  BY <1>2, AnchoredKept
<1>8. LanesInv'
  <2>1. ~Holds(c) /\ Holds(c)' /\ \A q \in Chunks : q # c => (Holds(q)' <=> Holds(q))
    BY <1>2, <1>3, <1>5 DEF Holds
  <2> QED
    BY <1>2, <1>3, <1>5, <1>7, <2>1, LaneIn DEF Books
<1>9. /\ waiters[o] \in Seq(Chunks) /\ Len(waiters[o]) \in Nat
      /\ DOMAIN waiters[o] = 1..Len(waiters[o])
      /\ waiters'[o] \in Seq(Chunks) /\ Len(waiters'[o]) = Len(waiters[o]) - k
      /\ DOMAIN waiters'[o] = 1..(Len(waiters[o]) - k)
      /\ \A j \in 1..(Len(waiters[o]) - k) : waiters'[o][j] = waiters[o][k + j]
  <2>1. waiters[o] \in Seq(Chunks)
    BY <1>3 DEF TInv, TypeOK
  <2>2. Len(waiters[o]) \in Nat /\ DOMAIN waiters[o] = 1..Len(waiters[o])
    BY <2>1, LenProperties
  <2>3. /\ waiters'[o] \in Seq(Chunks) /\ Len(waiters'[o]) = Len(waiters[o]) - k
        /\ \A j \in 1..(Len(waiters[o]) - k) : waiters'[o][j] = waiters[o][k + j]
    <3>1. PICK w : w = waiters[o]
      OBVIOUS
    <3>2. w \in Seq(Chunks) /\ k \in DOMAIN w
      BY <1>3, <2>1, <2>2, <3>1
    <3>3. /\ SubSeq(w, k + 1, Len(w)) \in Seq(Chunks)
          /\ Len(SubSeq(w, k + 1, Len(w))) = Len(w) - k
          /\ \A j \in 1..(Len(w) - k) : SubSeq(w, k + 1, Len(w))[j] = w[k + j]
      BY <3>2, SuffixType
    <3> QED
      BY <1>3, <3>1, <3>3
  <2> QED
    BY <2>1, <2>2, <2>3, LenProperties
<1>10. Distinct(waiters[o])
  BY <1>3 DEF Books, WaitersInv
<1>11. Distinct(waiters'[o]) /\ c \notin Elems(waiters'[o])
       /\ Elems(waiters'[o]) \subseteq Elems(waiters[o])
  <2>1. Distinct(waiters'[o])
    <3>1. ASSUME NEW j \in DOMAIN waiters'[o], NEW l \in DOMAIN waiters'[o],
                 waiters'[o][j] = waiters'[o][l]
          PROVE  j = l
      <4>1. /\ k + j \in DOMAIN waiters[o] /\ k + l \in DOMAIN waiters[o]
            /\ waiters[o][k + j] = waiters[o][k + l]
        <5>1. k + j \in 1..Len(waiters[o]) /\ k + l \in 1..Len(waiters[o])
          BY <1>3, <1>9
        <5>2. waiters'[o][j] = waiters[o][k + j] /\ waiters'[o][l] = waiters[o][k + l]
          BY <1>9
        <5> QED
          BY <1>9, <3>1, <5>1, <5>2
      <4>2. k + j = k + l
        BY <1>10, <4>1 DEF Distinct
      <4> QED
        BY <1>3, <1>9, <4>2
    <3> QED
      BY <3>1 DEF Distinct
  <2>2. ASSUME NEW j \in DOMAIN waiters'[o]
        PROVE  waiters'[o][j] # c /\ waiters'[o][j] \in Elems(waiters[o])
    <3>1. /\ k + j \in DOMAIN waiters[o] /\ k + j # k /\ k \in DOMAIN waiters[o]
          /\ waiters'[o][j] = waiters[o][k + j]
      <4>1. k + j \in 1..Len(waiters[o]) /\ k + j # k
        BY <1>3, <1>9
      <4>2. waiters'[o][j] = waiters[o][k + j]
        BY <1>9
      <4> QED
        BY <1>3, <1>9, <4>1, <4>2
    <3> QED
      BY <1>3, <1>10, <3>1 DEF Distinct, Elems
  <2> QED
    BY <2>1, <2>2 DEF Elems
<1>12. Elems(<<>>) = {} /\ Distinct(<<>>)
  BY DEF Elems, Distinct
<1>13. \A p \in Reqs : /\ Distinct(waiters'[p])
                       /\ Elems(waiters'[p]) \subseteq Elems(waiters[p])
  BY <1>4, <1>11, <1>12 DEF Books, WaitersInv
<1>14. WaitersInv'
  <2>1. ASSUME NEW p \in Reqs, NEW q \in Elems(waiters'[p])
        PROVE  /\ p \in active' /\ refs'[p] > 0 /\ q \notin granted'
               /\ q \notin canceled' => cpc'[q] = "waiting"
    <3>1. q \in Elems(waiters[p])
      BY <1>13, <2>1
    <3>2. /\ p \in active /\ refs[p] > 0 /\ q \notin granted /\ StateOf(q) = p
          /\ q \notin canceled => cpc[q] = "waiting"
      BY <3>1 DEF Books, WaitersInv
    <3>3. q # c
      BY <1>5, <1>11, <2>1, <3>2
    <3> QED
      BY <1>2, <1>3, <3>2, <3>3
  <2>2. \A q \in granted' : cpc'[q] # "idle"
    BY <1>2, <1>3, <1>5 DEF Books, WaitersInv
  <2>3. ASSUME NEW q \in Chunks, Queued(q)'
        PROVE  Queued(q) /\ q \in Elems(waiters'[StateOf(q)])
    <3>1. Queued(q) /\ q # c
      BY <1>2, <1>3, <2>3 DEF Queued
    <3>2. PICK p : p = StateOf(q)
      OBVIOUS
    <3>3. q \in Elems(waiters[p]) /\ p \in Reqs /\ q \notin canceled
      BY <3>1, <3>2, StateOfType DEF Books, WaitersInv, Queued
    <3>4. CASE p = o
      <4>1. PICK j \in DOMAIN waiters[o] : waiters[o][j] = q
        BY <3>3, <3>4 DEF Elems
      <4>2. j > k
        BY <1>3, <1>9, <3>1, <3>3, <4>1
      <4>3. j - k \in DOMAIN waiters'[o] /\ waiters'[o][j - k] = q
        <5>1. j \in 1..Len(waiters[o]) /\ j \in Nat /\ k \in Nat
          BY <1>3, <1>9, <4>1
        <5>2. j - k \in DOMAIN waiters'[o] /\ k + (j - k) = j
          BY <1>3, <1>9, <4>2, <5>1
        <5>3. waiters'[o][j - k] = waiters[o][k + (j - k)]
          BY <1>9, <5>2
        <5> QED
          BY <4>1, <5>2, <5>3
      <4> QED
        BY <3>1, <3>2, <3>4, <4>3 DEF Elems
    <3>5. CASE p # o
      <4>1. HasWaiter(p)
        BY <3>3, NoWaiterLeft
      <4> QED
        BY <1>4, <3>1, <3>2, <3>3, <3>5, <4>1
    <3> QED
      BY <3>4, <3>5
  <2>4. \A q \in Chunks : cpc[q] # "idle" => cpc'[q] # "idle"
    BY <1>2
  <2> QED
    BY <1>7, <1>13, <2>1, <2>2, <2>3, <2>4, WaitersShrink DEF Books
<1>15. WorkInv'
  <2>1. ASSUME NEW e \in DCs \ dispatching'
        PROVE /\ e \notin dispatching /\ dcTasks'[e] = dcTasks[e]
              /\ dcInFlight'[e] = dcInFlight[e]
              /\ \A p \in Elems(dcTasks[e]) : HasWaiter(p)' => HasWaiter(p)
    <3>1. e # d /\ e \notin dispatching
      BY <1>2, <2>1
    <3>2. ASSUME NEW p \in Elems(dcTasks[e]), HasWaiter(p)' PROVE HasWaiter(p)
      <4>1. p \in Reqs /\ p # o
        BY <1>3, <2>1, <3>1, <3>2 DEF Books, DCInv, TInv, TypeOK
      <4>2. DOMAIN waiters'[p] # {}
        BY <3>2 DEF HasWaiter
      <4>3. waiters'[p] # <<>>
        BY <4>2
      <4> QED
        BY <1>2, <1>4, <3>2, <4>1, <4>3 DEF HasWaiter
    <3> QED
      BY <1>2, <1>3, <3>1, <3>2 DEF TInv, TypeOK
  <2> QED
    BY <1>2, <2>1, WorkSame DEF Books
<1> QED
  BY <1>6, <1>8, <1>14, <1>15 DEF Books

(* The loop ends with all lanes used or no waiter left.                    *)
LEMMA DispatchEndKeepsBooks ==
    ASSUME TInv, Books, NEW d \in DCs, DispatchEnd(d)
    PROVE  Books'
<1>1. /\ files' = files /\ refs' = refs /\ active' = active /\ activating' = activating
      /\ inFlight' = inFlight /\ dcInFlight' = dcInFlight
      /\ dcTasks' = dcTasks /\ capacity' = capacity /\ used' = used /\ pc' = pc
      /\ obj' = obj /\ cpc' = cpc /\ canceled' = canceled /\ panicked' = panicked
      /\ granted' = granted /\ dispatching' = dispatching \ {d}
  BY DEF DispatchEnd, limiter, dcVars, chunkVars
<1>2. Full(d) \/ \A p \in Elems(dcTasks[d]) : ~HasWaiter(p)
  BY DEF DispatchEnd, Elems
<1>3. \A q \in Reqs : \/ waiters'[q] = waiters[q]
                      \/ waiters'[q] = <<>> /\ ~HasWaiter(q)
  BY <1>2 DEF DispatchEnd
<1>4. RefsInv' /\ ActivationInv' /\ TokensInv' /\ DCInv'
  <2>1. RefsInv' /\ ActivationInv' /\ TokensInv'
    BY <1>1, RefsSame, ActivationSame, TokensSame DEF Books
  <2> QED
    BY <1>1, <2>1 DEF Books, DCInv
<1>5. \A q \in Chunks : Anchored(q)
  BY <1>1, AnchoredKept
<1>6. LanesInv'
  <2>1. \A q \in Chunks : Holds(q)' <=> Holds(q)
    BY <1>1 DEF Holds
  <2> QED
    BY <1>1, <1>5, <2>1, LanesSame DEF Books
<1>7. WaitersInv'
  <2>1. Elems(<<>>) = {} /\ Distinct(<<>>)
    BY DEF Elems, Distinct
  <2>2. \A p \in Reqs : /\ Distinct(waiters'[p])
                        /\ Elems(waiters'[p]) \subseteq Elems(waiters[p])
    BY <1>3, <2>1 DEF Books, WaitersInv
  <2>3. \A p \in Reqs : \A q \in Elems(waiters'[p]) :
           /\ p \in active' /\ refs'[p] > 0 /\ q \notin granted'
           /\ q \notin canceled' => cpc'[q] = "waiting"
    BY <1>1, <2>2 DEF Books, WaitersInv
  <2>4. ASSUME NEW q \in Chunks, Queued(q)'
        PROVE  Queued(q) /\ q \in Elems(waiters'[StateOf(q)])
    <3>1. Queued(q)
      BY <1>1, <2>4 DEF Queued
    <3>2. q \in Elems(waiters[StateOf(q)]) /\ StateOf(q) \in Reqs /\ q \notin canceled
      BY <3>1, StateOfType DEF Books, WaitersInv, Queued
    <3>3. HasWaiter(StateOf(q))
      BY <3>2, NoWaiterLeft
    <3> QED
      BY <1>3, <3>1, <3>2, <3>3
  <2>5. /\ \A q \in Chunks : cpc[q] # "idle" => cpc'[q] # "idle"
        /\ \A q \in granted' : cpc'[q] # "idle"
    BY <1>1 DEF Books, WaitersInv
  <2> QED
    BY <1>5, <2>2, <2>3, <2>4, <2>5, WaitersShrink DEF Books
<1>8. WorkInv'
  <2>1. ASSUME NEW p \in Reqs, HasWaiter(p)' PROVE HasWaiter(p)
    <3>1. DOMAIN waiters'[p] # {}
      BY <2>1 DEF HasWaiter
    <3>2. waiters'[p] # <<>>
      BY <3>1
    <3> QED
      BY <1>1, <1>3, <2>1, <3>2 DEF HasWaiter
  <2>2. ASSUME NEW e \in DCs \ dispatching'
        PROVE  Full(e)' \/ \A p \in Elems(dcTasks'[e]) : ~HasWaiter(p)'
    <3>1. Elems(dcTasks[e]) \subseteq Reqs
      BY <2>2, ElementOfSeq DEF TInv, TypeOK, Elems
    <3>2. Full(e) \/ \A p \in Elems(dcTasks[e]) : ~HasWaiter(p)
      BY <1>1, <1>2, <2>2 DEF Books, WorkInv
    <3>3. Full(e)' <=> Full(e)
      BY <1>1 DEF Full
    <3> QED
      BY <1>1, <2>1, <3>1, <3>2, <3>3
  <2> QED
    BY <2>2 DEF WorkInv, Elems
<1> QED
  BY <1>4, <1>6, <1>7, <1>8 DEF Books

(* A new scheduler has empty books.                                        *)
LEMMA BooksInit == Init => Books
<1> SUFFICES ASSUME Init PROVE Books
  OBVIOUS
<1>1. Cardinality({}) = 0
  BY FS_EmptySet
<1>2. /\ \A o \in Reqs : Users(o) = {} /\ Holders(o) = {}
      /\ \A d \in DCs : LaneHolders(d) = {}
      /\ TokenHolders = {} /\ active = {}
  BY DEF Init, Users, Registered, Holders, LaneHolders, Holds, TokenHolders
<1>3. Elems(<<>>) = {} /\ Distinct(<<>>) /\ Len(<<>>) = 0
  BY DEF Elems, Distinct
<1>4. RefsInv
  BY <1>1, <1>2 DEF Init, RefsInv, Registered
<1>5. ActivationInv
  BY DEF Init, ActivationInv, Acting
<1>6. TokensInv
  BY <1>1, <1>2 DEF Init, TokensInv, FileTokensConserved
<1>7. DCInv
  BY <1>1, <1>2, <1>3 DEF Init, DCInv
<1>8. LanesInv
  <2>1. /\ \A o \in Reqs : inFlight[o] = 0
        /\ \A d \in DCs : dcInFlight[d] = 0
    BY DEF Init
  <2>2. LanesConserved
    BY <1>1, <1>2, <2>1 DEF LanesConserved
  <2> QED
    BY <2>1, <2>2 DEF LanesInv
<1>9. WaitersInv
  BY <1>3 DEF Init, WaitersInv, Queued
<1>10. WorkInv
  BY <1>3 DEF Init, WorkInv
<1> QED
  BY <1>4, <1>5, <1>6, <1>7, <1>8, <1>9, <1>10 DEF Books

(* Every step of the scheduler keeps the books.                            *)
LEMMA BooksNext == TInv /\ Books /\ [Next]_vars => Books'
<1> SUFFICES ASSUME TInv, Books, [Next]_vars PROVE Books'
  OBVIOUS
<1>1. ASSUME NEW r \in Reqs, AcquireCanceled(r) PROVE Books'
  <2>1. CASE pc[r] = "loop" /\ ReleaseTask(r, None)
    BY <2>1, ReleaseTaskKeepsBooks DEF Registered, Acting
  <2> QED
    BY <1>1, <2>1, TurnedAwayBooks DEF AcquireCanceled
<1>2. ASSUME NEW r \in Reqs, AcquireWrongDC(r) PROVE Books'
  BY <1>2, TurnedAwayBooks DEF AcquireWrongDC
<1>3. ASSUME NEW r \in Reqs, AcquireTask(r) PROVE Books'
  BY <1>3, AcquireTaskKeepsBooks
<1>4. ASSUME NEW r \in Reqs, WaitReadyCanceled(r) PROVE Books'
  BY <1>4, ReleaseTaskKeepsBooks DEF WaitReadyCanceled, Registered, Acting
<1>5. ASSUME NEW r \in Reqs, TryFileToken(r) PROVE Books'
  <2>1. TokensInv'
    BY <1>5, TryFileTokenTokens DEF Books
  <2>2. PICK x \in {"tokenFail", "tokenOk", "tokenWait"} : pc' = [pc EXCEPT ![r] = x]
    BY <1>5 DEF TryFileToken
  <2>3. pc[r] = "tokenTry" /\ capacity' = capacity /\ dispatching' = dispatching
        /\ UNCHANGED <<files, stateVars, dcVars, obj, chunkVars>>
    BY <1>5 DEF TryFileToken
  <2>4. \A q \in Reqs : /\ pc'[q] \in Registered <=> pc[q] \in Registered
                        /\ pc'[q] \in Acting <=> pc[q] \in Acting
                        /\ pc'[q] = "leased" => pc[q] = "leased"
    BY <2>2, <2>3 DEF TInv, TypeOK, Registered, Acting
  <2> QED
    BY <2>1, <2>3, <2>4, QuietBooks
<1>6. ASSUME NEW r \in Reqs, TokenWaitCanceled(r) PROVE Books'
  <2>1. /\ pc[r] = "tokenWait" /\ pc' = [pc EXCEPT ![r] = "tokenFail"]
        /\ capacity' = capacity /\ dispatching' = dispatching
        /\ UNCHANGED <<files, stateVars, dcVars, obj, chunkVars>>
        /\ used' = used /\ active' = active /\ panicked' = panicked
    BY <1>6 DEF TokenWaitCanceled, limiter, stateVars
  <2>2. \A q \in Reqs : pc'[q] = pc[q] \/ (pc[q] = "tokenWait" /\ pc'[q] = "tokenFail")
    BY <2>1 DEF TInv, TypeOK
  <2>3. TokensInv'
    BY <2>1, <2>2, TokensSame DEF Books
  <2> QED
    BY <2>1, <2>2, <2>3, QuietBooks DEF Registered, Acting
<1>7. ASSUME NEW r \in Reqs, CompleteActivation(r) PROVE Books'
  BY <1>7, CompleteActivationKeepsBooks
<1>8. ASSUME NEW r \in Reqs, UndoActivation(r) PROVE Books'
  BY <1>8, ReleaseTaskKeepsBooks DEF UndoActivation, Registered, Acting
<1>9. ASSUME NEW r \in Reqs, Release(r) PROVE Books'
  BY <1>9, ReleaseTaskKeepsBooks DEF Release, Registered, Acting
<1>10. ASSUME NEW r \in Reqs, GiveFileBack(r) PROVE Books'
  <2>1. TokensInv' /\ \A q \in Reqs : q # r => Woken(q)
    BY <1>10, GiveFileBackTokens DEF Books
  <2>2. pc[r] = "giveFile" /\ capacity' = capacity /\ dispatching' = dispatching
        /\ UNCHANGED <<files, stateVars, dcVars, obj, chunkVars>>
    BY <1>10 DEF GiveFileBack
  <2>3. pc'[r] = "done"
    BY <1>10 DEF GiveFileBack, ReleaseFile, Signal, TInv, TypeOK
  <2>4. \A q \in Reqs : /\ pc'[q] \in Registered <=> pc[q] \in Registered
                        /\ pc'[q] \in Acting <=> pc[q] \in Acting
                        /\ pc'[q] = "leased" => pc[q] = "leased"
    BY <2>1, <2>2, <2>3 DEF Woken, Registered, Acting
  <2> QED
    BY <2>1, <2>2, <2>4, QuietBooks
<1>11. ASSUME NEW c \in Chunks, AcquireChunk(c) PROVE Books'
  BY <1>11, AcquireChunkKeepsBooks
<1>12. ASSUME NEW c \in Chunks, ChunkAdmitted(c) \/ ChunkRefused(c) \/ ChunkCanceled(c)
       PROVE  Books'
  BY <1>12, ChunkLeavesKeepsBooks
<1>13. ASSUME NEW c \in Chunks, ChunkGrantReturned(c) \/ ReleaseChunk(c) PROVE Books'
  BY <1>13, ReleaseChunkKeepsBooks DEF ChunkGrantReturned, ReleaseChunk, Holds
<1>14. ASSUME NEW d \in DCs, DispatchStep(d) PROVE Books'
  BY <1>14, GrantKeepsBooks, DispatchEndKeepsBooks DEF DispatchStep
<1>15. ASSUME NEW x \in Cancelable, Cancel(x) PROVE Books'
  <2>1. /\ pc' = pc /\ capacity' = capacity /\ dispatching' = dispatching
        /\ UNCHANGED <<files, stateVars, dcVars, obj, chunkVars>>
        /\ used' = used /\ active' = active /\ panicked' = panicked
    BY <1>15 DEF Cancel, limiter, stateVars
  <2>2. TokensInv'
    BY <2>1, TokensSame DEF Books
  <2> QED
    BY <2>1, <2>2, QuietBooks
<1>16. CASE Reconfigure
  <2>1. /\ pc' = Signal(pc) /\ dispatching' = DCs
        /\ UNCHANGED <<files, stateVars, dcVars, obj, chunkVars>>
        /\ used' = used /\ active' = active /\ panicked' = panicked
    BY <1>16 DEF Reconfigure, stateVars
  <2>2. \A q \in Reqs : Woken(q)
    BY <2>1 DEF Signal, Woken
  <2>3. TokensInv'
    BY <2>1, <2>2, TokensSame DEF Books, Woken
  <2>4. \A q \in Reqs : /\ pc'[q] \in Registered <=> pc[q] \in Registered
                        /\ pc'[q] \in Acting <=> pc[q] \in Acting
                        /\ pc'[q] = "leased" => pc[q] = "leased"
    BY <2>2 DEF Woken, Registered, Acting
  <2> QED
    BY <2>1, <2>3, <2>4, QuietBooks
<1>17. CASE UNCHANGED vars
  <2>1. /\ pc' = pc /\ capacity' = capacity /\ dispatching' = dispatching
        /\ UNCHANGED <<files, stateVars, dcVars, obj, chunkVars>>
        /\ used' = used /\ active' = active /\ panicked' = panicked
    BY <1>17 DEF vars, limiter, stateVars
  <2>2. TokensInv'
    BY <2>1, TokensSame DEF Books
  <2> QED
    BY <2>1, <2>2, QuietBooks
<1> QED
  BY <1>1, <1>2, <1>3, <1>4, <1>5, <1>6, <1>7, <1>8, <1>9, <1>10, <1>11, <1>12,
     <1>13, <1>14, <1>15, <1>16, <1>17
     DEF Next, RequestStep, ChunkStep, Terminated

(* The inductive invariant of the scheduler.                               *)
LEMMA BooksHold == Spec => [](TInv /\ Books)
BY TInvInit, TInvNext, BooksInit, BooksNext, PTL DEF Spec

(* Neither over-release panic is reachable, every lane and file token is   *)
(* held by exactly one call that will return it, and a task has one        *)
(* allocation, for any number of requests, chunks, files and DCs and any   *)
(* order of grants, cancellations, releases and changes of the limits.     *)
THEOREM BooksConserved == Spec => []Conserved
<1>1. TInv /\ Books => Conserved
  <2> SUFFICES ASSUME TInv, Books PROVE Conserved
    OBVIOUS
  <2>1. NoOverRelease /\ FileTokensConserved /\ LanesConserved
    BY DEF Books, TokensInv, LanesInv, NoOverRelease
  <2>2. ASSUME NEW o \in Reqs, o \in active \/ activating[o] # None
        PROVE  files[TaskOf[o]] = o
    <3>1. CASE o \in active
      BY <3>1 DEF Books, ActivationInv
    <3>2. CASE activating[o] # None
      <4>1. /\ activating[o] \in Reqs /\ pc[activating[o]] \in Acting
            /\ obj[activating[o]] = o
        BY <3>2 DEF Books, ActivationInv, TInv, TypeOK
      <4> QED
        BY <4>1, ActivatorCurrent DEF Books
    <3> QED
      BY <2>2, <3>1, <3>2
  <2>3. OneAllocationPerTask
    BY <2>2 DEF Books, DCInv, OneAllocationPerTask
  <2> QED
    BY <2>1, <2>3 DEF Conserved
<1> QED
  BY <1>1, BooksHold, PTL

-----------------------------------------------------------------------------
(* Waiting for a reason *)

(* Whoever waits for the file token waits for a budget that is used up,    *)
(* and whoever waits behind an activator waits behind one.                 *)
ParkInv ==
    /\ \A r \in Reqs : pc[r] = "tokenWait" => used >= limit
    /\ \A r \in Reqs : pc[r] = "waitReady" => activating[obj[r]] # None

(* A step that parks nobody, takes no token back and ends no activation.   *)
LEMMA ParkSame ==
    ASSUME TInv, TInv', ParkInv, limit' = limit, used' >= used, activating' = activating,
           \A q \in Reqs : \/ pc'[q] = pc[q] /\ obj'[q] = obj[q]
                           \/ pc'[q] \notin {"tokenWait", "waitReady"}
    PROVE  ParkInv'
<1>1. used \in Nat /\ used' \in Nat /\ limit \in Nat
  BY DEF TInv, TypeOK
<1> QED
  BY <1>1 DEF ParkInv

(* fileLimiter.release leaves nobody parked on the budget.                 *)
LEMMA ReleaseFileWakes ==
    ASSUME TInv, ParkInv, NEW p \in [Reqs -> ReqStates], ReleaseFile(p),
           \A q \in Reqs : p[q] = "tokenWait" => pc[q] = "tokenWait"
    PROVE  \A q \in Reqs : pc'[q] # "tokenWait" /\ (pc'[q] = "waitReady" => p[q] = "waitReady")
<1>1. CASE used = 0
  <2>1. \A q \in Reqs : pc[q] # "tokenWait"
    BY <1>1 DEF ParkInv, TInv, TypeOK
  <2> QED
    BY <1>1, <2>1 DEF ReleaseFile
<1>2. CASE used # 0
  BY <1>2 DEF ReleaseFile, Signal
<1> QED
  BY <1>1, <1>2

LEMMA ReleaseTaskParks ==
    ASSUME TInv, TInv', ParkInv, NEW r \in Reqs, NEW ptr, ReleaseTask(r, ptr)
    PROVE  ParkInv'
<1>1. /\ limit' = limit /\ used' = used /\ activating' = activating
      /\ obj' = [obj EXCEPT ![r] = ptr]
      /\ \E x \in {"giveFile", "done"} : pc' = [pc EXCEPT ![r] = x]
  BY DEF ReleaseTask, limiter
<1>2. \A q \in Reqs : \/ pc'[q] = pc[q] /\ obj'[q] = obj[q]
                      \/ pc'[q] \notin {"tokenWait", "waitReady"}
  BY <1>1 DEF TInv, TypeOK
<1>3. used' >= used
  BY <1>1 DEF TInv, TypeOK
<1> QED
  BY <1>1, <1>2, <1>3, ParkSame

LEMMA ParkNext == TInv /\ TInv' /\ ParkInv /\ [Next]_vars => ParkInv'
<1> SUFFICES ASSUME TInv, TInv', ParkInv, [Next]_vars PROVE ParkInv'
  OBVIOUS
<1>0. /\ pc \in [Reqs -> ReqStates] /\ obj \in [Reqs -> Reqs \cup {None}]
      /\ used \in Nat /\ limit \in Nat \ {0} /\ activating \in [Reqs -> Reqs \cup {None}]
  BY DEF TInv, TypeOK
<1>1. ASSUME NEW r \in Reqs, AcquireCanceled(r) PROVE ParkInv'
  <2>1. CASE pc' = [pc EXCEPT ![r] = "done"] /\ UNCHANGED <<stateVars, limiter, obj>>
    BY <1>0, <2>1, ParkSame DEF stateVars, limiter
  <2> QED
    BY <1>1, <2>1, ReleaseTaskParks DEF AcquireCanceled
<1>2. ASSUME NEW r \in Reqs, AcquireWrongDC(r) PROVE ParkInv'
  BY <1>0, <1>2, ParkSame DEF AcquireWrongDC, stateVars, limiter
<1>3. ASSUME NEW r \in Reqs, AcquireTask(r) PROVE ParkInv'
  <2>1. PICK o \in Reqs : /\ obj' = [obj EXCEPT ![r] = o]
               /\ used' = used /\ limit' = limit
               /\ \/ pc' = [pc EXCEPT ![r] = "leased"] /\ activating' = activating
                  \/ /\ activating[o] # None /\ pc' = [pc EXCEPT ![r] = "waitReady"]
                     /\ activating' = activating
                  \/ /\ pc' = [pc EXCEPT ![r] = "tokenTry"]
                     /\ activating' = [activating EXCEPT ![o] = r]
    BY <1>3, ConstantTypes DEF AcquireTask, limiter, TInv, TypeOK
  <2>2. CASE pc' = [pc EXCEPT ![r] = "leased"] /\ activating' = activating
    BY <1>0, <2>1, <2>2, ParkSame
  <2>3. CASE /\ activating[o] # None /\ pc' = [pc EXCEPT ![r] = "waitReady"]
             /\ activating' = activating
    BY <1>0, <2>1, <2>3 DEF ParkInv
  <2>4. CASE /\ pc' = [pc EXCEPT ![r] = "tokenTry"]
             /\ activating' = [activating EXCEPT ![o] = r]
    <3>1. \A q \in Reqs : /\ q # r => pc'[q] = pc[q] /\ obj'[q] = obj[q]
                          /\ pc'[r] = "tokenTry"
      BY <1>0, <2>1, <2>4
    <3>2. \A p \in Reqs : activating[p] # None => activating'[p] # None
      BY <1>0, <2>4, ConstantTypes
    <3>3. \A q \in Reqs : pc[q] = "waitReady" => obj[q] \in Reqs
      BY DEF TInv, PointersSet, Registered
    <3> QED
      BY <2>1, <3>1, <3>2, <3>3 DEF ParkInv
  <2> QED
    BY <2>1, <2>2, <2>3, <2>4
<1>4. ASSUME NEW r \in Reqs, WaitReadyCanceled(r) \/ UndoActivation(r) \/ Release(r)
      PROVE  ParkInv'
  BY <1>4, ReleaseTaskParks DEF WaitReadyCanceled, UndoActivation, Release
<1>5. ASSUME NEW r \in Reqs, TryFileToken(r) PROVE ParkInv'
  <2>1. /\ limit' = limit /\ activating' = activating /\ obj' = obj
        /\ \/ pc' = [pc EXCEPT ![r] = "tokenFail"] /\ used' = used
           \/ used < limit /\ pc' = [pc EXCEPT ![r] = "tokenOk"] /\ used' = used + 1
           \/ used >= limit /\ pc' = [pc EXCEPT ![r] = "tokenWait"] /\ used' = used
    BY <1>5 DEF TryFileToken, stateVars
  <2>2. CASE used' = used /\ pc' = [pc EXCEPT ![r] = "tokenFail"]
    BY <1>0, <2>1, <2>2, ParkSame
  <2>3. CASE used < limit /\ pc' = [pc EXCEPT ![r] = "tokenOk"] /\ used' = used + 1
    BY <1>0, <2>1, <2>3, ParkSame
  <2>4. CASE used >= limit /\ pc' = [pc EXCEPT ![r] = "tokenWait"] /\ used' = used
    BY <1>0, <2>1, <2>4 DEF ParkInv
  <2> QED
    BY <2>1, <2>2, <2>3, <2>4
<1>6. ASSUME NEW r \in Reqs, TokenWaitCanceled(r) PROVE ParkInv'
  BY <1>0, <1>6, ParkSame DEF TokenWaitCanceled, stateVars, limiter
<1>7. ASSUME NEW r \in Reqs, CompleteActivation(r) PROVE ParkInv'
  <2> DEFINE o == obj[r]
             nxt == IF pc[r] = "tokenOk" THEN "loop" ELSE "undo"
  <2>1. limit' = limit /\ obj' = obj
    BY <1>7 DEF CompleteActivation
  <2>2. [pc EXCEPT ![r] = nxt] \in [Reqs -> ReqStates]
    BY <1>0 DEF ReqStates
  <2>3. CASE ReleaseFile([pc EXCEPT ![r] = nxt]) /\ activating' = activating
    <3>0. \A q \in Reqs : [pc EXCEPT ![r] = nxt][q] = IF q = r THEN nxt ELSE pc[q]
      BY <1>0
    <3>1. \A q \in Reqs : /\ pc'[q] # "tokenWait"
                          /\ pc'[q] = "waitReady" => [pc EXCEPT ![r] = nxt][q] = "waitReady"
      <4> DEFINE p == [pc EXCEPT ![r] = nxt]
      <4>1. p \in [Reqs -> ReqStates] /\ \A q \in Reqs : p[q] = "tokenWait" => pc[q] = "tokenWait"
        BY <2>2, <3>0
      <4>2. ReleaseFile(p)
        BY <2>3
      <4> HIDE DEF p
      <4>3. \A q \in Reqs : pc'[q] # "tokenWait" /\ (pc'[q] = "waitReady" => p[q] = "waitReady")
        BY <4>1, <4>2, ReleaseFileWakes
      <4> QED
        BY <4>3 DEF p
    <3> QED
      BY <2>1, <2>3, <3>0, <3>1 DEF ParkInv
  <2>4. CASE /\ pc' = [pc EXCEPT ![r] = nxt] /\ used' = used
             /\ activating' = activating
    BY <1>0, <2>1, <2>4, ParkSame
  <2>5. CASE /\ activating' = [activating EXCEPT ![o] = None] /\ used' = used
             /\ pc' = [q \in Reqs |->
                           IF q = r THEN nxt
                           ELSE IF pc[q] = "waitReady" /\ obj[q] = o THEN "loop"
                           ELSE pc[q]]
    BY <1>0, <2>1, <2>5 DEF ParkInv
  <2> QED
    BY <1>7, <2>3, <2>4, <2>5 DEF CompleteActivation
<1>8. ASSUME NEW r \in Reqs, GiveFileBack(r) PROVE ParkInv'
  <2>1. /\ limit' = limit /\ obj' = obj /\ activating' = activating
        /\ ReleaseFile([pc EXCEPT ![r] = "done"])
    BY <1>8 DEF GiveFileBack, stateVars
  <2>2. [pc EXCEPT ![r] = "done"] \in [Reqs -> ReqStates]
    BY <1>0 DEF ReqStates
  <2>3. \A q \in Reqs : /\ pc'[q] # "tokenWait"
                        /\ pc'[q] = "waitReady" => [pc EXCEPT ![r] = "done"][q] = "waitReady"
    BY <1>0, <2>1, <2>2, ReleaseFileWakes
  <2> QED
    BY <1>0, <2>1, <2>3 DEF ParkInv
<1>9. ASSUME NEW c \in Chunks,
             AcquireChunk(c) \/ ChunkAdmitted(c) \/ ChunkRefused(c) \/ ChunkCanceled(c)
      PROVE  ParkInv'
  <2>1. pc' = pc /\ obj' = obj /\ used' = used /\ limit' = limit /\ activating' = activating
    BY <1>9 DEF AcquireChunk, ChunkAdmitted, ChunkRefused, ChunkCanceled, limiter, stateVars
  <2> QED
    BY <1>0, <2>1, ParkSame
<1>10. ASSUME NEW c \in Chunks, ReleaseChunkLocked(c) PROVE ParkInv'
  <2>1. limit' = limit /\ obj' = obj /\ activating' = activating
    BY <1>10 DEF ReleaseChunkLocked
  <2>2. CASE pc' = pc /\ used' = used
    BY <1>0, <2>1, <2>2, ParkSame
  <2>3. CASE ReleaseFile(pc)
    <3>1. \A q \in Reqs : pc'[q] # "tokenWait" /\ (pc'[q] = "waitReady" => pc[q] = "waitReady")
      BY <1>0, <2>3, ReleaseFileWakes
    <3> QED
      BY <2>1, <3>1 DEF ParkInv
  <2> QED
    BY <1>10, <2>2, <2>3 DEF ReleaseChunkLocked
<1>11. ASSUME NEW d \in DCs, DispatchStep(d) PROVE ParkInv'
  <2>1. pc' = pc /\ obj' = obj /\ used' = used /\ limit' = limit /\ activating' = activating
    BY <1>11 DEF DispatchStep, Grant, DispatchEnd, limiter
  <2> QED
    BY <1>0, <2>1, ParkSame
<1>12. ASSUME NEW x \in Cancelable, Cancel(x) PROVE ParkInv'
  BY <1>0, <1>12, ParkSame DEF Cancel, limiter, stateVars
<1>13. CASE Reconfigure
  BY <1>13 DEF Reconfigure, Signal, ParkInv, stateVars
<1>14. CASE UNCHANGED vars
  BY <1>0, <1>14, ParkSame DEF vars, limiter, stateVars
<1> QED
  BY <1>1, <1>2, <1>3, <1>4, <1>5, <1>6, <1>7, <1>8, <1>9, <1>10, <1>11, <1>12,
     <1>13, <1>14
     DEF Next, RequestStep, ChunkStep, ChunkGrantReturned, ReleaseChunk, Terminated

LEMMA ParkHolds == Spec => []ParkInv
<1>1. Init => ParkInv
  BY DEF Init, ParkInv
<1> QED
  BY <1>1, ParkNext, TInvInit, TInvNext, PTL DEF Spec

(* A lease stays usable until it is released, with the mutex free a chunk  *)
(* request waits only while all lanes of its DC are in use, and whoever    *)
(* waits is known to the one who will wake it: no wakeup is lost.          *)
THEOREM LeasesAreServed == Spec => []LeasesServed
<1>1. TInv /\ Books /\ ParkInv => LeasesServed
  <2> SUFFICES ASSUME TInv, Books, ParkInv PROVE LeasesServed
    OBVIOUS
  <2>1. LeaseStaysUsable
    <3>1. ASSUME NEW r \in Reqs, pc[r] = "leased"
          PROVE  /\ obj[r] \in Reqs /\ TaskOf[obj[r]] = TaskOf[r]
                 /\ files[TaskOf[r]] = obj[r] /\ obj[r] \in active /\ refs[obj[r]] > 0
      <4>1. /\ obj[r] \in Reqs /\ TaskOf[obj[r]] = TaskOf[r]
            /\ files[TaskOf[r]] = obj[r] /\ obj[r] \in active /\ r \in Users(obj[r])
        BY <3>1 DEF Books, RefsInv, ActivationInv, TInv, PointersSet, Registered, Users
      <4>2. refs[obj[r]] \in Nat /\ refs[obj[r]] >= 1
        BY <4>1, UsersCount DEF Books
      <4> QED
        BY <4>1, <4>2
    <3> QED
      BY <3>1 DEF LeaseStaysUsable
  <2>2. ASSUME Unlocked, NEW d \in DCs, ~(dcInFlight[d] >= capacity)
        PROVE  Cardinality({c \in Chunks : \E o \in Elems(dcTasks[d]) : PendingIn(c, o)}) = 0
    <3>1. \A o \in Elems(dcTasks[d]) : ~HasWaiter(o)
      BY <2>2 DEF Unlocked, Books, WorkInv, Full
    <3>2. Elems(dcTasks[d]) \subseteq Reqs
      BY ElementOfSeq DEF TInv, TypeOK, Elems
    <3>3. {c \in Chunks : \E o \in Elems(dcTasks[d]) : PendingIn(c, o)} = {}
      BY <3>1, <3>2, NoWaiterLeft DEF PendingIn
    <3> QED
      BY <3>3, FS_EmptySet
  <2>3. WorkConserving
    <3>1. ASSUME Unlocked, NEW d \in DCs, Snapshot(d).queuedRequests > 0
          PROVE  Snapshot(d).activeChunks >= capacity
      <4>1. /\ Snapshot(d).activeChunks = dcInFlight[d]
            /\ Snapshot(d).queuedRequests =
                 Cardinality({c \in Chunks : \E o \in Elems(dcTasks[d]) : PendingIn(c, o)})
        BY DEF Snapshot
      <4>2. PICK n : n = Cardinality({c \in Chunks : \E o \in Elems(dcTasks[d]) : PendingIn(c, o)})
        OBVIOUS
      <4>3. n > 0
        BY <3>1, <4>1, <4>2
      <4>4. n # 0
        BY <4>3
      <4>5. dcInFlight[d] >= capacity
        BY <2>2, <3>1, <4>2, <4>4
      <4> QED
        BY <4>1, <4>5
    <3> QED
      BY <3>1 DEF WorkConserving
  <2>4. ASSUME NEW r \in Reqs, pc[r] = "waitReady"
        PROVE  \E q \in Reqs : /\ activating[obj[r]] = q /\ obj[q] = obj[r]
                              /\ pc[q] \in {"tokenTry", "tokenWait", "tokenOk", "tokenFail"}
    <3>1. obj[r] \in Reqs /\ activating[obj[r]] # None
      BY <2>4 DEF ParkInv, TInv, PointersSet, Registered
    <3>2. /\ activating[obj[r]] \in Reqs /\ pc[activating[obj[r]]] \in Acting
          /\ obj[activating[obj[r]]] = obj[r]
      BY <3>1 DEF Books, ActivationInv, TInv, TypeOK
    <3> QED
      BY <3>2 DEF Acting
  <2>5. ASSUME NEW c \in Chunks, Queued(c)
        PROVE  PendingIn(c, StateOf(c)) /\ StateOf(c) \in Elems(dcTasks[DCOf[StateOf(c)]])
    <3>1. StateOf(c) \in Reqs /\ c \in Elems(waiters[StateOf(c)]) /\ c \notin canceled
      BY <2>5, StateOfType DEF Books, WaitersInv, Queued
    <3>2. StateOf(c) \in active /\ DCOf[StateOf(c)] \in DCs
      BY <3>1, ConstantTypes DEF Books, WaitersInv
    <3> QED
      BY <3>1, <3>2 DEF PendingIn, Books, DCInv
  <2>6. NobodyForgotten
    BY <2>4, <2>5 DEF NobodyForgotten, ParkInv
  <2> QED
    BY <2>1, <2>3, <2>6 DEF LeasesServed
<1> QED
  BY <1>1, BooksHold, ParkHolds, PTL

(* Only dispatchLocked grants.                                             *)
LEMMA OnlyGrantGrants ==
    ASSUME TInv, [Next]_vars, granted' # granted
    PROVE  \E d \in DCs : Grant(d)
<1>1. \A r \in Reqs : ~RequestStep(r) /\ ~Release(r)
  <2>1. ASSUME NEW r \in Reqs, RequestStep(r) \/ Release(r) PROVE granted' = granted
    BY <2>1 DEF RequestStep, Release, AcquireCanceled, AcquireWrongDC, AcquireTask,
                WaitReadyCanceled, TryFileToken, TokenWaitCanceled, CompleteActivation,
                UndoActivation, GiveFileBack, ReleaseTask, chunkVars
  <2> QED
    BY <2>1
<1>2. \A c \in Chunks : ~ChunkStep(c)
  BY DEF ChunkStep, AcquireChunk, ChunkAdmitted, ChunkGrantReturned, ChunkRefused,
         ChunkCanceled, ReleaseChunk, ReleaseChunkLocked
<1>3. \A d \in DCs : ~DispatchEnd(d)
  BY DEF DispatchEnd, chunkVars
<1>4. /\ \A x \in Cancelable : ~Cancel(x)
      /\ ~Reconfigure /\ ~Terminated /\ ~UNCHANGED vars
  BY DEF Cancel, Reconfigure, Terminated, vars, chunkVars
<1> QED
  BY <1>1, <1>2, <1>3, <1>4 DEF Next, DispatchStep

(* A waiter is never overtaken by a later request for the same file, nor   *)
(* by one for a file activated later in the same DC.                       *)
THEOREM NobodyOvertakes == Spec => NoOvertaking
<1> DEFINE Pos(s, x) == CHOOSE i \in DOMAIN s : s[i] = x
<1>1. ASSUME TInv, Books, [Next]_vars, NEW c \in Chunks, NEW e \in Chunks,
             Queued(c), Queued(e), Ahead(c, e), e \in granted'
      PROVE  c \in granted' \/ c \in canceled'
  <2>1. e \notin granted /\ c \notin canceled
    BY <1>1 DEF Queued
  <2>2. PICK d \in DCs : Grant(d)
    BY <1>1, <2>1, OnlyGrantGrants
  <2>3. PICK i, o, k, x : Serves(d, i, o, k, x)
    BY <1>1, <2>2, GrantServes DEF Books
  <2>4. x = e
    BY <1>1, <2>1, <2>3 DEF Serves
  <2>5. /\ o \in Reqs /\ k \in 1..Len(waiters[o]) /\ e = waiters[o][k]
        /\ e \in Elems(waiters[o]) /\ i \in DOMAIN dcTasks[d] /\ o = dcTasks[d][i]
        /\ DCOf[o] = d
        /\ \A j \in 1..(i - 1) : ~HasWaiter(dcTasks[d][j])
        /\ \A j \in 1..(k - 1) : waiters[o][j] \in canceled
    BY <2>3, <2>4 DEF Serves
  <2>6. StateOf(e) = o
    BY <1>1, <2>5 DEF Books, WaitersInv
  <2>7. PICK p : p = StateOf(c)
    OBVIOUS
  <2>8. p \in Reqs /\ c \in Elems(waiters[p])
    BY <1>1, <2>7, StateOfType DEF Books, WaitersInv, Queued
  <2>9. p \in active /\ HasWaiter(p)
    BY <1>1, <2>1, <2>8, NoWaiterLeft DEF Books, WaitersInv
  <2>10. CASE p = o
    <3>1. Pos(waiters[o], c) < Pos(waiters[o], e)
      BY <1>1, <2>6, <2>7, <2>10 DEF Ahead
    <3>2. Pos(waiters[o], c) \in DOMAIN waiters[o] /\ waiters[o][Pos(waiters[o], c)] = c
      BY <2>8, <2>10 DEF Elems
    <3>3. DOMAIN waiters[o] = 1..Len(waiters[o]) /\ Len(waiters[o]) \in Nat
      BY <1>1, <2>5, LenProperties DEF TInv, TypeOK
    <3>4. Pos(waiters[o], e) = k
      <4>1. Distinct(waiters[o]) /\ k \in DOMAIN waiters[o]
        BY <1>1, <2>5, <3>3 DEF Books, WaitersInv
      <4>2. Pos(waiters[o], e) \in DOMAIN waiters[o] /\ waiters[o][Pos(waiters[o], e)] = e
        BY <2>5, <4>1
      <4> HIDE DEF Pos
      <4> QED
        BY <2>5, <4>1, <4>2 DEF Distinct
    <3> HIDE DEF Pos
    <3>5. Pos(waiters[o], c) \in 1..(k - 1)
      BY <2>5, <3>1, <3>2, <3>3, <3>4
    <3> QED
      BY <2>1, <2>5, <3>2, <3>5
  <2>11. CASE p # o
    <3>1. DCOf[p] = d /\ Pos(dcTasks[d], p) < Pos(dcTasks[d], o)
      BY <1>1, <2>5, <2>6, <2>7, <2>11 DEF Ahead
    <3>2. p \in Elems(dcTasks[d]) /\ Distinct(dcTasks[d])
      BY <1>1, <2>9, <3>1 DEF Books, DCInv
    <3>3. /\ Pos(dcTasks[d], p) \in DOMAIN dcTasks[d]
          /\ dcTasks[d][Pos(dcTasks[d], p)] = p
      BY <3>2 DEF Elems
    <3>4. Pos(dcTasks[d], o) = i
      <4>1. /\ Pos(dcTasks[d], o) \in DOMAIN dcTasks[d]
            /\ dcTasks[d][Pos(dcTasks[d], o)] = o
        BY <2>5
      <4> HIDE DEF Pos
      <4> QED
        BY <2>5, <3>2, <4>1 DEF Distinct
    <3>5. DOMAIN dcTasks[d] = 1..Len(dcTasks[d]) /\ Len(dcTasks[d]) \in Nat
      BY <1>1, LenProperties DEF TInv, TypeOK
    <3> HIDE DEF Pos
    <3>6. Pos(dcTasks[d], p) \in 1..(i - 1)
      BY <2>5, <3>1, <3>3, <3>4, <3>5
    <3> QED
      BY <2>5, <2>9, <3>3, <3>6
  <2> QED
    BY <2>10, <2>11
<1> DEFINE Fair == \A e \in granted' \ granted : \A c \in Chunks :
             Queued(c) /\ Queued(e) /\ Ahead(c, e)
                => c \in granted' \/ c \in canceled'
<1>2. TInv /\ Books /\ [Next]_vars => [Fair]_vars
  <2> SUFFICES ASSUME TInv, Books, [Next]_vars, TInv' PROVE Fair
    BY TInvNext
  <2>1. granted' \subseteq Chunks
    BY DEF TInv, TypeOK
  <2> QED
    BY <1>1, <2>1
<1> HIDE DEF Fair
<1>3. Spec => [][Fair]_vars
  BY <1>2, BooksHold, PTL DEF Spec
<1> QED
  BY <1>3 DEF NoOvertaking, Fair
=============================================================================
