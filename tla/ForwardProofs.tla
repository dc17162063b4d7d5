---------------------------- MODULE ForwardProofs ---------------------------
(***************************************************************************)
(* Proofs about forwarding, in two parts.  The router, for any number of   *)
(* calls: the channel drained is closed at most once, only when nobody is  *)
(* inside, once Stop has returned no call stores anything, and a message   *)
(* is stored once.  The queue (Queue, of module ForwardJobs), for any jobs: its      *)
(* records tell what happened to the messages.                             *)
(***************************************************************************)
EXTENDS ForwardRouter, ForwardJobs, FiniteSetTheorems, SequenceTheorems, TLAPS

(* The part of the type the counting argument needs. *)
LifeType ==
    /\ closed \in BOOLEAN /\ active \in Nat /\ drained \in Nat /\ stopped \in BOOLEAN
    /\ pc \in [Calls -> Stages]

(* The counter is the number of calls inside, the channel is closed exactly when a    *)
(* closed router is empty, and Stop returns only after that.                          *)
Counted == IsFiniteSet(Inside) /\ active = Cardinality(Inside)
Drained == /\ closed /\ Inside = {} => drained = 1
           /\ ~(closed /\ Inside = {}) => drained = 0
           /\ stopped => drained > 0
DInv == LifeType /\ Counted /\ Drained

(* A call that moves between two stages inside leaves the count alone; so does a step *)
(* that wakes others.                                                                 *)
LEMMA MovedInside ==
  ASSUME DInv, UNCHANGED life, pc' \in [Calls -> Stages],
         \A d \in Calls : (pc'[d] \in {"idle", "done"}) = (pc[d] \in {"idle", "done"})
  PROVE  DInv'
<1>1. Inside' = Inside
  BY DEF Inside
<1>2. QED
  BY <1>1 DEF DInv, LifeType, Counted, Drained, life

(* One call goes from a stage inside to another one. *)
LEMMA OneMoved ==
  ASSUME DInv, UNCHANGED life, NEW c \in Calls, NEW s \in Stages \ {"idle", "done"},
         pc[c] \notin {"idle", "done"}, Go(c, s)
  PROVE  DInv'
<1>1. pc' = [pc EXCEPT ![c] = s]
  BY DEF Go
<1>2. pc' \in [Calls -> Stages]
  BY <1>1 DEF DInv, LifeType
<1>3. ASSUME NEW d \in Calls
      PROVE (pc'[d] \in {"idle", "done"}) = (pc[d] \in {"idle", "done"})
  BY <1>1 DEF DInv, LifeType
<1>4. QED
  BY <1>2, <1>3, MovedInside

(* Nothing the argument is about changes. *)
LEMMA Untouched == ASSUME DInv, UNCHANGED <<life, pc>> PROVE DInv'
BY DEF DInv, LifeType, Counted, Drained, Inside, life

(* begin: a call enters an open router, or is turned away. *)
LEMMA BeginKeeps == ASSUME DInv, NEW c \in Calls, Begin(c) PROVE DInv'
<1>1. CASE closed
  <2>1. pc' = [pc EXCEPT ![c] = "done"] /\ UNCHANGED life /\ pc[c] = "idle"
    BY <1>1 DEF Begin, Go, life
  <2>2. pc' \in [Calls -> Stages]
    BY <2>1 DEF DInv, LifeType, Stages
  <2>3. ASSUME NEW d \in Calls
        PROVE (pc'[d] \in {"idle", "done"}) = (pc[d] \in {"idle", "done"})
    BY <2>1 DEF DInv, LifeType
  <2>4. QED
    BY <2>1, <2>2, <2>3, MovedInside
<1>2. CASE ~closed
  <2>1. /\ pc' = [pc EXCEPT ![c] = "route"] /\ pc[c] = "idle"
        /\ active' = active + 1 /\ closed' = closed /\ drained' = drained /\ stopped' = stopped
    BY <1>2 DEF Begin, Go
  <2>2. LifeType'
    BY <2>1 DEF DInv, LifeType, Stages
  <2>3. Inside' = Inside \cup {c} /\ c \notin Inside
    BY <2>1 DEF DInv, LifeType, Inside
  <2>4. IsFiniteSet(Inside') /\ Cardinality(Inside') = Cardinality(Inside) + 1
    BY <2>3, FS_AddElement DEF DInv, Counted
  <2>5. Counted'
    BY <2>1, <2>4 DEF DInv, Counted
  <2>6. Drained'
    BY <1>2, <2>1 DEF DInv, Drained
  <2>7. QED
    BY <2>2, <2>5, <2>6 DEF DInv
<1>3. QED
  BY <1>1, <1>2 DEF DInv, LifeType

(* The deferred function of begin: the last call out of a closed router closes the    *)
(* channel, which nobody has closed before.                                           *)
LEMMA LeaveKeeps == ASSUME DInv, NEW c \in Calls, Leave(c) PROVE DInv'
<1>1. /\ pc' = [pc EXCEPT ![c] = "done"] /\ pc[c] = "leave"
      /\ active' = active - 1 /\ closed' = closed /\ stopped' = stopped
      /\ drained' = IF closed /\ active = 1 THEN drained + 1 ELSE drained
  BY DEF Leave, Go, DrainedByLast
<1>2. Inside' = Inside \ {c} /\ c \in Inside
  BY <1>1 DEF DInv, LifeType, Inside, Stages
<1>3. IsFiniteSet(Inside') /\ Cardinality(Inside') = Cardinality(Inside) - 1
  BY <1>2, FS_RemoveElement DEF DInv, Counted
<1>4. Cardinality(Inside) \in Nat /\ Cardinality(Inside') \in Nat
  BY <1>3, FS_CardinalityType DEF DInv, Counted
<1>5. Counted' /\ active' \in Nat
  BY <1>1, <1>3, <1>4 DEF DInv, Counted
<1>6. LifeType'
  BY <1>1, <1>5 DEF DInv, LifeType, Stages
<1>7. active = 1 <=> Inside' = {}
  BY <1>3, <1>4, FS_EmptySet DEF DInv, Counted
<1>8. drained = 0 /\ ~stopped
  BY <1>2 DEF DInv, Drained, LifeType
<1>9. Drained'
  BY <1>1, <1>7, <1>8 DEF Drained
<1>10. QED
  BY <1>5, <1>6, <1>9 DEF DInv

(* Stop closes the channel itself when nobody is inside. *)
LEMMA StopKeeps == ASSUME DInv, Stop PROVE DInv'
<1>1. /\ ~closed /\ closed' = TRUE /\ pc' = pc /\ active' = active /\ stopped' = stopped
      /\ drained' = IF active = 0 THEN drained + 1 ELSE drained
  BY DEF Stop, DrainedByStop
<1>2. Inside' = Inside
  BY <1>1 DEF Inside
<1>3. active = 0 <=> Inside = {}
  BY FS_EmptySet DEF DInv, Counted
<1>4. drained = 0 /\ ~stopped
  BY <1>1 DEF DInv, Drained, LifeType
<1>5. Drained'
  BY <1>1, <1>2, <1>3, <1>4 DEF Drained
<1>6. QED
  BY <1>1, <1>2, <1>5 DEF DInv, LifeType, Counted

(* Stop returns after the drain was signalled.                             *)
LEMMA StopReturnsKeeps == ASSUME DInv, StopReturns PROVE DInv'
<1>1. Inside' = Inside
  BY DEF StopReturns, Inside
<1>2. QED
  BY <1>1 DEF DInv, LifeType, Counted, Drained, StopReturns

(* Whatever resolve answers, the call stays inside. *)
LEMMA ResolvedKeeps ==
  ASSUME DInv, UNCHANGED life, NEW c \in Calls, NEW found, pc[c] \notin {"idle", "done"},
         Resolved(c, found)
  PROVE  DInv'
<1>1. CASE Fails(c)
  BY <1>1, OneMoved DEF Fails, Stages
<1>2. CASE Go(c, "resolve") \/ Go(c, "claim") \/ Go(c, "leave")
  BY <1>2, OneMoved DEF Stages
<1>3. QED
  BY <1>1, <1>2 DEF Resolved, Walk

(* The stages of SubmitMessage between begin and its deferred function. *)
LEMMA CallKeeps == ASSUME DInv, NEW c \in Calls, CallStep(c) PROVE DInv'
<1>1. CASE Leave(c)
  BY <1>1, LeaveKeeps
<1>2. CASE Route(c)
  BY <1>2, OneMoved DEF Route, Walk, Fails, Stages
<1>p. CASE PolicyInvalid(c)
  BY <1>p, OneMoved DEF PolicyInvalid, Fails, Stages
<1>3. CASE Resolve(c)
  BY <1>3, ResolvedKeeps, OneMoved DEF Resolve, Stages
<1>4. CASE LookupReturns(c)
  BY <1>4, ResolvedKeeps DEF LookupReturns
<1>5. CASE EnqueueRule(c)
  BY <1>5, OneMoved, Untouched DEF EnqueueRule, Fails, Stages
<1>6. CASE ClaimMessage(c)
  BY <1>6, OneMoved DEF ClaimMessage, Fails, Stages
<1>7. CASE WaitCanceled(c)
  BY <1>7, OneMoved DEF WaitCanceled, Fails, Stages
<1>8. CASE SaveMessage(c)
  BY <1>8, OneMoved DEF SaveMessage, Stages
<1>9. CASE Settle(c)
  <2>1. pc' = Woken(c, message[c]) /\ pc[c] = "settle" /\ UNCHANGED life
    BY <1>9 DEF Settle
  <2>2. pc' \in [Calls -> Stages]
    BY <2>1 DEF Woken, DInv, LifeType, Stages
  <2>3. ASSUME NEW d \in Calls
        PROVE (pc'[d] \in {"idle", "done"}) = (pc[d] \in {"idle", "done"})
    BY <2>1 DEF Woken
  <2>4. QED
    BY <2>1, <2>2, <2>3, MovedInside
<1>10. QED
  BY <1>1, <1>2, <1>p, <1>3, <1>4, <1>5, <1>6, <1>7, <1>8, <1>9 DEF CallStep

(* A new router drains nothing.                                            *)
LEMMA DrainInit == ASSUME Init PROVE DInv
<1>1. Inside = {}
  BY DEF Init, Inside
<1>2. QED
  BY <1>1, FS_EmptySet DEF Init, DInv, LifeType, Counted, Drained, Stages

(* Every step keeps the drain invariant.                                   *)
LEMMA DrainStep == ASSUME DInv, [Next]_vars PROVE DInv'
<1>1. CASE UNCHANGED vars
  BY <1>1, Untouched DEF vars
<1>2. CASE Stop
  BY <1>2, StopKeeps
<1>3. CASE StopReturns
  BY <1>3, StopReturnsKeeps
<1>4. ASSUME NEW e \in Keys, CacheExpires(e) PROVE DInv'
  BY <1>4, Untouched DEF CacheExpires
<1>5. ASSUME NEW c \in Calls, Begin(c) \/ Cancel(c) \/ CallStep(c) PROVE DInv'
  BY <1>5, BeginKeeps, CallKeeps, Untouched DEF Cancel
<1>6. ASSUME NEW k \in Messages, ClaimExpires(k) PROVE DInv'
  BY <1>6, Untouched DEF ClaimExpires
<1>7. QED
  BY <1>1, <1>2, <1>3, <1>4, <1>5, <1>6 DEF Next, Steps

(* The channel drained of the router is closed once, and only when every call that    *)
(* begin admitted has left: Stop cannot return early, and nobody panics on a second   *)
(* close (message_router.go, begin and Stop).                                         *)
THEOREM RouterDrains == Spec => []DrainedOnce
<1>1. DInv => DrainedOnce
  BY DEF DInv, LifeType, Drained, DrainedOnce
<1>2. QED
  BY <1>1, DrainInit, DrainStep, PTL DEF Spec

(* After Stop has returned no call of SubmitMessage hands anything to the queue.      *)
THEOREM RouterQuiet == Spec => QuietAfterStop
<1>1. ASSUME DInv, stopped PROVE \A c \in Calls : pc[c] \in {"idle", "done"}
  BY <1>1 DEF DInv, LifeType, Drained, Inside
<1>2. ASSUME DInv, [Next]_vars PROVE [stopped => UNCHANGED <<routed, queued>>]_vars
  <2> SUFFICES ASSUME stopped, Next PROVE UNCHANGED <<routed, queued>>
    BY <1>2
  <2>1. \A c \in Calls : pc[c] \in {"idle", "done"}
    BY <1>1, <1>2
  <2>2. ASSUME Stop \/ StopReturns \/ \E e \in Keys : CacheExpires(e)
        PROVE  UNCHANGED <<routed, queued>>
    BY <2>2 DEF Stop, StopReturns, CacheExpires, store
  <2>3. ASSUME NEW c \in Calls, Begin(c) \/ Cancel(c)
        PROVE  UNCHANGED <<routed, queued>>
    BY <2>3 DEF Begin, Cancel, store
  <2>4. ASSUME NEW c \in Calls, CallStep(c) PROVE UNCHANGED <<routed, queued>>
    <3>1. pc[c] \notin {"idle", "done"}
      BY <2>4 DEF CallStep, Leave, Route, PolicyInvalid, Resolve, LookupReturns, EnqueueRule,
                  ClaimMessage, WaitCanceled, SaveMessage, Settle
    <3>2. QED
      BY <2>1, <3>1
  <2>5. ASSUME NEW k \in Messages, ClaimExpires(k) PROVE UNCHANGED <<routed, queued>>
    BY <2>5 DEF ClaimExpires
  <2>6. QED
    BY <2>2, <2>3, <2>4, <2>5 DEF Next, Steps
<1>3. QED
  BY <1>2, DrainInit, DrainStep, PTL DEF Spec, QuietAfterStop

ClaimType == [owner : Calls \cup {None}, accepted : BOOLEAN, ok : BOOLEAN]

(* The variables outside the counting argument. *)
DataType ==
    /\ message \in [Calls -> Messages] /\ kind \in [Calls -> Kinds]
    /\ canceled \subseteq Calls /\ errs \subseteq Calls
    /\ todo \in [Calls -> SUBSET Targets]
    /\ want \in [Calls -> Keys] /\ lost \subseteq Calls
    /\ peerMu \in Calls \cup {None} /\ cache \in [Keys -> Answers] /\ lapses \in 0..MaxLapses
    /\ claims \in [Messages -> ClaimType]
    /\ routed \subseteq (Messages \X Targets)
    /\ queued \in [Messages -> Nat] /\ expiries \in [Messages -> Nat]
    /\ faults \in 0..MaxFaults

(* The calls are finite, and the keys of the cache are numbers.            *)
LEMMA ConstantTypes ==
  /\ IsFiniteSet(Calls) /\ MaxFaults \in Nat /\ MaxLapses \in Nat
  /\ Len(Listening) \in Nat /\ 0 \in Keys
BY RouterAssumption, LenProperties DEF Keys

(* The walk of listens stays on the list.                                  *)
LEMMA WalkTypes ==
  ASSUME DataType, NEW c \in Calls, NEW e \in Nat, e # 0, NEW f, Walk(c, e, f)
  PROVE  want' \in [Calls -> Keys] /\ errs' \subseteq Calls
<1>1. e <= Len(Listening) => e \in Keys
  BY ConstantTypes DEF Keys
<1>2. QED
  BY <1>1 DEF Walk, Fails, DataType

(* So does a call that has its answer.                                     *)
LEMMA ResolvedTypes ==
  ASSUME DataType, NEW c \in Calls, NEW found, Resolved(c, found)
  PROVE  want' \in [Calls -> Keys] /\ errs' \subseteq Calls /\ lost' \subseteq Calls
<1>1. CASE want[c] = 0 /\ UNCHANGED walk /\ (Fails(c) \/ UNCHANGED errs)
  BY <1>1 DEF Fails, walk, DataType
<1>2. CASE want' = [want EXCEPT ![c] = 0] /\ UNCHANGED <<errs, lost>>
  BY <1>2, ConstantTypes DEF DataType
<1>3. CASE /\ want[c] # 0 /\ lost' = IF found = "ok" THEN lost ELSE lost \cup {c}
           /\ Walk(c, want[c] + 1, c \in lost')
  <2>1. want[c] \in Nat
    BY ConstantTypes DEF DataType, Keys
  <2>2. want[c] + 1 \in Nat /\ want[c] + 1 # 0
    BY <2>1
  <2>3. lost' \subseteq Calls
    BY <1>3 DEF DataType
  <2>4. QED
    BY <1>3, <2>2, <2>3, WalkTypes
<1>4. QED
  BY <1>1, <1>2, <1>3 DEF Resolved

(* The count of faults stays within its bound.                             *)
LEMMA FaultType == ASSUME faults \in 0..MaxFaults, Fault PROVE faults' \in 0..MaxFaults
BY ConstantTypes DEF Fault

(* A claim that is marked is still a claim.                                *)
LEMMA ClaimFields == ASSUME NEW x \in ClaimType
                     PROVE  /\ [x EXCEPT !.ok = TRUE] \in ClaimType
                            /\ [x EXCEPT !.accepted = TRUE] \in ClaimType
BY Zenon DEF ClaimType

(* Every step keeps the data well typed.                                   *)
LEMMA DataStep == ASSUME DataType, [Next]_vars PROVE DataType'
<1> USE DEF DataType
<1>0. message' = message /\ kind' = kind
  BY DEF Next, input, vars
<1>1. CASE UNCHANGED vars
  BY <1>0, <1>1 DEF vars, walk, peerVars, store
<1>2. CASE Stop \/ StopReturns
  BY <1>0, <1>2 DEF Stop, StopReturns, walk, peerVars, store
<1>c. ASSUME NEW e \in Keys, CacheExpires(e) PROVE DataType'
  <2>1. cache' \in [Keys -> Answers]
    BY <1>c DEF CacheExpires, Answers
  <2>2. lapses' \in 0..MaxLapses
    BY <1>c, ConstantTypes DEF CacheExpires
  <2>3. QED
    BY <1>0, <1>c, <2>1, <2>2 DEF CacheExpires, walk, store
<1>3. ASSUME NEW c \in Calls, Begin(c) \/ Cancel(c) PROVE DataType'
  BY <1>0, <1>3 DEF Begin, Cancel, walk, peerVars, store
<1>4. ASSUME NEW c \in Calls, CallStep(c) PROVE DataType'
  <2>1. CASE Leave(c)
    BY <1>0, <2>1 DEF Leave, walk, peerVars, store
  <2>2. CASE Route(c)
    <3>w. ASSUME Walk(c, 1, FALSE) PROVE want' \in [Calls -> Keys] /\ errs' \subseteq Calls
      <4>1. 1 \in Nat /\ 1 # 0
        OBVIOUS
      <4>2. QED
        BY <3>w, <4>1, WalkTypes
    <3>v. \/ Walk(c, 1, FALSE)
          \/ want' = want /\ (errs' = errs \cup {c} \/ errs' = errs)
      BY <2>2 DEF Route, Fails
    <3>1. want' \in [Calls -> Keys] /\ errs' \subseteq Calls
      BY <3>v, <3>w
    <3>2. faults' \in 0..MaxFaults
      BY <2>2, FaultType DEF Route
    <3>3. todo' \in [Calls -> SUBSET Targets]
      BY <2>2 DEF Route
    <3>4. QED
      BY <1>0, <2>2, <3>1, <3>2, <3>3 DEF Route, peerVars, store
  <2>p. CASE PolicyInvalid(c)
    BY <1>0, <2>p, FaultType DEF PolicyInvalid, Fails, walk, peerVars, store
  <2>3. CASE Resolve(c)
    <3>1. want' \in [Calls -> Keys] /\ errs' \subseteq Calls /\ lost' \subseteq Calls
      BY <2>3, ResolvedTypes DEF Resolve, walk
    <3>2. QED
      BY <1>0, <2>3, <3>1 DEF Resolve, store
  <2>4. CASE LookupReturns(c)
    <3>1. want' \in [Calls -> Keys] /\ errs' \subseteq Calls /\ lost' \subseteq Calls
      BY <2>4, ResolvedTypes DEF LookupReturns
    <3>2. cache' \in [Keys -> Answers]
      BY <2>4 DEF LookupReturns, Answers
    <3>3. faults' \in 0..MaxFaults
      BY <2>4, FaultType DEF LookupReturns
    <3>4. QED
      BY <1>0, <2>4, <3>1, <3>2, <3>3 DEF LookupReturns, store
  <2>5. CASE EnqueueRule(c)
    <3>1. message[c] \in Messages
      OBVIOUS
    <3>2. errs' \subseteq Calls /\ faults' \in 0..MaxFaults
      BY <2>5, FaultType DEF EnqueueRule, Fails
    <3>3. todo' \in [Calls -> SUBSET Targets]
      BY <2>5 DEF EnqueueRule
    <3>4. routed' \subseteq (Messages \X Targets)
      BY <2>5, <3>1 DEF EnqueueRule
    <3>5. QED
      BY <1>0, <2>5, <3>2, <3>3, <3>4 DEF EnqueueRule, walk, peerVars
  <2>6. CASE ClaimMessage(c)
    <3>1. message[c] \in Messages
      OBVIOUS
    <3>2. claims' \in [Messages -> ClaimType]
      <4>1. [NoClaim EXCEPT !.owner = c] \in ClaimType
        BY DEF NoClaim, ClaimType
      <4>2. QED
        BY <2>6, <3>1, <4>1 DEF ClaimMessage
    <3>3. errs' \subseteq Calls
      BY <2>6 DEF ClaimMessage, Fails
    <3>4. QED
      BY <1>0, <2>6, <3>2, <3>3 DEF ClaimMessage, walk, peerVars
  <2>7. CASE WaitCanceled(c)
    BY <1>0, <2>7 DEF WaitCanceled, Fails, walk, peerVars, store
  <2>8. CASE SaveMessage(c)
    <3>1. message[c] \in Messages
      OBVIOUS
    <3>2. claims' \in [Messages -> ClaimType]
      <4>1. CASE UNCHANGED claims
        BY <4>1
      <4>2. CASE claims' = [claims EXCEPT ![message[c]].ok = TRUE]
        <5>1. [claims[message[c]] EXCEPT !.ok = TRUE] \in ClaimType
          BY <3>1, ClaimFields
        <5>2. QED
          BY <4>2, <5>1
      <4>3. QED
        BY <2>8, <4>1, <4>2 DEF SaveMessage
    <3>3. queued' \in [Messages -> Nat]
      BY <2>8, <3>1 DEF SaveMessage
    <3>4. errs' \subseteq Calls /\ faults' \in 0..MaxFaults
      BY <2>8, FaultType DEF SaveMessage
    <3>5. QED
      BY <1>0, <2>8, <3>2, <3>3, <3>4 DEF SaveMessage, walk, peerVars
  <2>9. CASE Settle(c)
    <3>1. message[c] \in Messages
      OBVIOUS
    <3>2. claims' \in [Messages -> ClaimType]
      <4>1. [claims[message[c]] EXCEPT !.accepted = TRUE] \in ClaimType
        BY <3>1, ClaimFields
      <4>2. NoClaim \in ClaimType
        BY DEF NoClaim, ClaimType
      <4>3. ClaimSettled(message[c]) \in ClaimType
        BY <4>1, <4>2 DEF ClaimSettled
      <4>4. QED
        BY <2>9, <4>3 DEF Settle
    <3>3. QED
      BY <1>0, <2>9, <3>2 DEF Settle, walk, peerVars
  <2>10. QED
    BY <1>4, <2>1, <2>2, <2>p, <2>3, <2>4, <2>5, <2>6, <2>7, <2>8, <2>9 DEF CallStep
<1>5. ASSUME NEW k \in Messages, ClaimExpires(k) PROVE DataType'
  BY <1>0, <1>5 DEF ClaimExpires, NoClaim, walk, peerVars, ClaimType
<1>6. QED
  BY <1>1, <1>2, <1>c, <1>3, <1>4, <1>5 DEF Next, Steps

(* A new router is well typed, whatever the calls are for.                 *)
LEMMA DataInit == Init => DataType
<1> SUFFICES ASSUME Init PROVE DataType
  OBVIOUS
<1>1. message \in [Calls -> Messages] /\ kind \in [Calls -> Kinds]
  BY RouterAssumption DEF Init
<1>2. QED
  BY <1>1, ConstantTypes DEF Init, DataType, NoClaim, ClaimType, Answers

(* Every state of the router is well typed; in particular the counter of calls is a   *)
(* number of calls, never negative after a deferred decrement.                        *)
THEOREM RouterTyped == Spec => []TypeOK
<1>1. Init => DataType
  BY DataInit
<1>2. DInv /\ DataType => TypeOK
  <2>1. DInv => active \in 0..Cardinality(Calls)
    <3> SUFFICES ASSUME DInv PROVE active \in 0..Cardinality(Calls)
      OBVIOUS
    <3>1. Inside \subseteq Calls
      BY DEF Inside
    <3>2. Cardinality(Inside) <= Cardinality(Calls)
      BY <3>1, ConstantTypes, FS_Subset
    <3>3. Cardinality(Inside) \in Nat /\ Cardinality(Calls) \in Nat
      BY ConstantTypes, FS_CardinalityType DEF DInv, Counted
    <3>4. QED
      BY <3>2, <3>3 DEF DInv, Counted
  <2>2. QED
    BY <2>1 DEF DInv, LifeType, DataType, TypeOK, ClaimType
<1>3. QED
  BY <1>1, <1>2, DrainInit, DrainStep, DataStep, PTL DEF Spec
-----------------------------------------------------------------------------
(* Claims.  A call that saves or settles owns the claim of its message, which nobody  *)
(* has accepted yet; a stored job and an expired TTL are accounted for by the claim.  *)

(* Where a call is fits what it is for.  On its walk down the listening list a call   *)
(* has matched none of the entries behind it, or has a failed lookup on its account.  *)
Passed(c, e) == e \in DOMAIN Listening => message[c] \notin Listening[e].parent \cup Listening[e].linked
Walking(c) ==
    /\ kind[c] # "outgoing" /\ (kind[c] # "manual" => message[c] \notin ByRule)
    /\ want[c] = 0 => kind[c] = "ask" \/ DefaultCall(c)
    /\ want[c] # 0 => /\ kind[c] # "manual"
                      /\ c \in lost \/ \A e \in 1..(want[c] - 1) : Passed(c, e)
RouteOf(c) == /\ pc[c] \in {"idle", "route"} => want[c] = 0 /\ c \notin lost
              /\ pc[c] = "rule" => RuleCall(c)
              /\ pc[c] \in {"resolve", "lookup"} => Walking(c)
              /\ pc[c] \in {"claim", "wait", "save", "settle"} => DefaultCall(c)
Owns(c) ==
    pc[c] \in {"save", "settle"} =>
        /\ claims[message[c]].owner = c /\ claims[message[c]].accepted = FALSE
        /\ pc[c] = "save" => claims[message[c]].ok = FALSE
ClaimBooks(k) ==
    /\ claims[k].owner = None => claims[k] = NoClaim
    /\ claims[k].accepted = TRUE => claims[k].ok = TRUE
    /\ claims[k].ok = TRUE => queued[k] > 0 /\ queued[k] <= expiries[k] + 1
    /\ claims[k].ok = FALSE => queued[k] <= expiries[k]

(* What a call that has not failed has stored when it comes to a stage.               *)
StoredBy(c) ==
    c \notin errs =>
        /\ pc[c] = "rule" => \A t \in Targets \ todo[c] : <<message[c], t>> \in routed
        /\ pc[c] = "settle" => claims[message[c]].ok = TRUE
        /\ pc[c] \in {"leave", "done"} /\ RuleCall(c) => \A t \in Targets : <<message[c], t>> \in routed
        /\ pc[c] \in {"leave", "done"} /\ DefaultCall(c) => queued[message[c]] > 0

CallsInv == \A c \in Calls : RouteOf(c) /\ Owns(c) /\ StoredBy(c)
ClaimsInv == \A k \in Messages : ClaimBooks(k)
SInv == CallsInv /\ ClaimsInv /\ NothingUnwanted
Types == pc \in [Calls -> Stages] /\ DataType

(* The two routes exclude each other.                                                 *)
LEMMA OneRoute == ASSUME NEW c \in Calls PROVE ~(RuleCall(c) /\ DefaultCall(c))
BY DEF RuleCall, DefaultCall

(* What a call is for does not change.                                                *)
LEMMA SameCalls ==
  ASSUME UNCHANGED input
  PROVE  /\ message' = message /\ kind' = kind
         /\ \A c \in Calls : /\ RuleCall(c)' <=> RuleCall(c)
                             /\ DefaultCall(c)' <=> DefaultCall(c)
                             /\ \A e \in 1..want[c] : Passed(c, e)' <=> Passed(c, e)
BY DEF input, RuleCall, DefaultCall, Passed, Listened

(* Nothing is stored.                                                                 *)
LEMMA UnwantedSame ==
  ASSUME UNCHANGED <<input, routed, queued>>, NothingUnwanted PROVE NothingUnwanted'
BY SameCalls DEF NothingUnwanted

(* A call that the step does not touch.                                               *)
Apart(d) == /\ pc'[d] = pc[d] /\ want'[d] = want[d] /\ todo'[d] = todo[d]
            /\ d \in lost' <=> d \in lost
            /\ d \in errs' <=> d \in errs

(* It is still where it fits.                                                         *)
LEMMA RouteSame ==
  ASSUME Types, UNCHANGED input, NEW d \in Calls, RouteOf(d),
         pc'[d] = pc[d], want'[d] = want[d], d \in lost' <=> d \in lost
  PROVE  RouteOf(d)'
<1>1. /\ message' = message /\ kind' = kind
      /\ (RuleCall(d)' <=> RuleCall(d)) /\ (DefaultCall(d)' <=> DefaultCall(d))
  BY SameCalls
<1>2. Walking(d) => Walking(d)'
  BY <1>1 DEF Walking, Passed
<1>3. QED
  BY <1>1, <1>2 DEF RouteOf

(* A step that stores nothing and touches no claim keeps everything but the place of  *)
(* one call.                                                                          *)
LEMMA MovedOnly ==
  ASSUME Types, SInv, UNCHANGED <<input, store, expiries>>, NEW c \in Calls, NEW s \in Stages,
         pc' = [pc EXCEPT ![c] = s], errs \subseteq errs', errs' \subseteq errs \cup {c},
         \A d \in Calls \ {c} : todo'[d] = todo[d] /\ want'[d] = want[d] /\ (d \in lost' <=> d \in lost),
         RouteOf(c)', Owns(c)', StoredBy(c)'
  PROVE  SInv'
<1>1. ASSUME NEW d \in Calls, d # c PROVE Apart(d)
  BY <1>1 DEF Types, Apart
<1>2. ASSUME NEW d \in Calls PROVE RouteOf(d)' /\ Owns(d)' /\ StoredBy(d)'
  <2>1. CASE d = c
    BY <2>1
  <2>2. CASE d # c
    <3>1. RouteOf(d) /\ Owns(d) /\ StoredBy(d)
      BY DEF SInv, CallsInv
    <3>2. Apart(d)
      BY <2>2, <1>1
    <3>3. RouteOf(d)'
      BY <3>1, <3>2, RouteSame DEF Apart
    <3>4. Owns(d)' /\ StoredBy(d)'
      BY <3>1, <3>2, SameCalls DEF Apart, Owns, StoredBy, store
    <3>5. QED
      BY <3>3, <3>4
  <2>3. QED
    BY <2>1, <2>2
<1>3. ClaimsInv'
  BY DEF SInv, ClaimsInv, ClaimBooks, store
<1>4. NothingUnwanted'
  BY UnwantedSame DEF SInv, store
<1>5. QED
  BY <1>2, <1>3, <1>4 DEF SInv, CallsInv

(* The call of such a step fails: it owes nothing any more.                           *)
LEMMA FailedOnly ==
  ASSUME Types, SInv, UNCHANGED <<input, store, expiries, todo>>, NEW c \in Calls, Fails(c),
         \A d \in Calls \ {c} : want'[d] = want[d] /\ (d \in lost' <=> d \in lost)
  PROVE  SInv'
<1>1. pc' = [pc EXCEPT ![c] = "leave"] /\ errs' = errs \cup {c}
  BY DEF Fails, Go
<1>2. pc'[c] = "leave" /\ c \in errs'
  BY <1>1 DEF Types
<1>3. RouteOf(c)' /\ Owns(c)' /\ StoredBy(c)'
  BY <1>2 DEF RouteOf, Owns, StoredBy
<1>4. QED
  BY <1>1, <1>3, MovedOnly DEF Stages

(* A step that touches neither store nor calls keeps what is stored.       *)
LEMMA StoredSame ==
  ASSUME Types, SInv, UNCHANGED <<input, store, expiries, todo, errs, walk, pc>> PROVE SInv'
<1>1. ASSUME NEW d \in Calls PROVE RouteOf(d)' /\ Owns(d)' /\ StoredBy(d)'
  <2>1. RouteOf(d) /\ Owns(d) /\ StoredBy(d)
    BY DEF SInv, CallsInv
  <2>2. RouteOf(d)'
    BY <2>1, RouteSame DEF walk
  <2>3. QED
    BY <2>1, <2>2, SameCalls DEF Owns, StoredBy, store
<1>2. ClaimsInv'
  BY DEF SInv, ClaimsInv, ClaimBooks, store
<1>3. NothingUnwanted'
  BY UnwantedSame DEF SInv, store
<1>4. QED
  BY <1>1, <1>2, <1>3 DEF SInv, CallsInv

(* A call that starts has stored nothing yet.                              *)
LEMMA BeginStores == ASSUME Types, SInv, UNCHANGED input, NEW c \in Calls, Begin(c) PROVE SInv'
<1>0. UNCHANGED <<input, store, expiries, todo, want, lost>> /\ pc[c] = "idle"
  BY DEF Begin, walk
<1>1. CASE closed
  <2>1. pc' = [pc EXCEPT ![c] = "done"] /\ errs' = errs \cup {c}
    BY <1>1 DEF Begin, Go
  <2>2. pc'[c] = "done" /\ c \in errs'
    BY <2>1 DEF Types
  <2>3. RouteOf(c)' /\ Owns(c)' /\ StoredBy(c)'
    BY <2>2 DEF RouteOf, Owns, StoredBy
  <2>4. QED
    BY <1>0, <2>1, <2>3, MovedOnly DEF Stages
<1>2. CASE ~closed
  <2>1. pc' = [pc EXCEPT ![c] = "route"] /\ errs' = errs
    BY <1>2 DEF Begin, Go
  <2>2. pc'[c] = "route"
    BY <2>1 DEF Types
  <2>3. RouteOf(c)' /\ Owns(c)' /\ StoredBy(c)'
    BY <1>0, <2>2 DEF RouteOf, Owns, StoredBy, SInv, CallsInv
  <2>4. QED
    BY <1>0, <2>1, <2>3, MovedOnly DEF Stages
<1>3. QED
  BY <1>1, <1>2

(* A call that returns has stored what it reports.                         *)
LEMMA LeaveStores == ASSUME Types, SInv, UNCHANGED input, NEW c \in Calls, Leave(c) PROVE SInv'
<1>1. /\ pc' = [pc EXCEPT ![c] = "done"] /\ pc[c] = "leave"
      /\ UNCHANGED <<input, store, expiries, todo, errs, want, lost>>
  BY DEF Leave, Go, walk
<1>2. pc'[c] = "done"
  BY <1>1 DEF Types
<1>3. RouteOf(c)' /\ Owns(c)' /\ StoredBy(c)'
  BY <1>1, <1>2, SameCalls DEF SInv, CallsInv, RouteOf, Owns, StoredBy, store
<1>4. QED
  BY <1>1, <1>3, MovedOnly DEF Stages

(* A call that leaves and has nothing to store: it returns nil.            *)
LEMMA NothingToStore ==
  ASSUME Types, SInv, UNCHANGED <<input, store, expiries, todo, errs>>, NEW c \in Calls,
         \A d \in Calls \ {c} : want'[d] = want[d] /\ (d \in lost' <=> d \in lost),
         Go(c, "leave"), ~RuleCall(c), ~DefaultCall(c)
  PROVE  SInv'
<1>1. pc' = [pc EXCEPT ![c] = "leave"] /\ pc'[c] = "leave"
  BY DEF Go, Types
<1>2. RouteOf(c)' /\ Owns(c)' /\ StoredBy(c)'
  BY <1>1, SameCalls DEF RouteOf, Owns, StoredBy
<1>3. QED
  BY <1>1, <1>2, MovedOnly DEF Stages

(* A step of the walk: the entries up to e did not match, or one of their  *)
(* lookups failed, and the walk goes on at e or ends.                      *)
LEMMA WalkStores ==
  ASSUME Types, SInv, UNCHANGED <<input, store, expiries, todo>>, NEW c \in Calls, NEW e \in Nat \ {0},
         \A d \in Calls \ {c} : d \in lost' <=> d \in lost,
         kind[c] \in {"automatic", "ask"}, message[c] \notin ByRule,
         c \in lost' \/ \A j \in 1..(e - 1) : Passed(c, j), Walk(c, e, c \in lost')
  PROVE  SInv'
<1>0. /\ ~RuleCall(c) /\ kind[c] # "outgoing" /\ kind[c] # "manual" /\ kind'[c] = kind[c]
      /\ \A j : Passed(c, j)' <=> Passed(c, j)
  BY SameCalls DEF RuleCall, Passed
<1>1. CASE e <= Len(Listening) /\ want' = [want EXCEPT ![c] = e] /\ Go(c, "resolve") /\ UNCHANGED errs
  <2>1. /\ pc' = [pc EXCEPT ![c] = "resolve"] /\ pc'[c] = "resolve" /\ want'[c] = e
        /\ \A d \in Calls \ {c} : want'[d] = want[d]
    BY <1>1 DEF Go, Types, DataType
  <2>2. Walking(c)'
    BY <1>0, <2>1, SameCalls DEF Walking
  <2>3. RouteOf(c)' /\ Owns(c)' /\ StoredBy(c)'
    BY <2>1, <2>2 DEF RouteOf, Owns, StoredBy
  <2>4. QED
    BY <1>1, <2>1, <2>3, MovedOnly DEF Stages
<1>2. CASE Fails(c) /\ UNCHANGED want
  BY <1>2, FailedOnly
<1>3. CASE e > Len(Listening) /\ c \notin lost' /\ Go(c, "leave") /\ UNCHANGED <<want, errs>>
  <2>1. \A j \in 1..(e - 1) : Passed(c, j)
    BY <1>3
  <2>2. DOMAIN Listening \subseteq 1..(e - 1)
    BY <1>3, RouterAssumption, LenProperties
  <2>3. ~Listened(message[c])
    BY <2>1, <2>2 DEF Passed, Listened
  <2>4. ~DefaultCall(c)
    BY <1>0, <2>3 DEF DefaultCall
  <2>5. QED
    BY <1>0, <1>3, <2>4, NothingToStore
<1>4. QED
  BY <1>1, <1>2, <1>3 DEF Walk

(* Choosing the destinations stores nothing yet.                           *)
LEMMA RouteStores == ASSUME Types, SInv, UNCHANGED input, NEW c \in Calls, Route(c) PROVE SInv'
<1>0. /\ UNCHANGED <<input, store, expiries, lost>> /\ pc[c] = "route" /\ want[c] = 0 /\ c \notin lost
      /\ kind[c] \in Kinds /\ want \in [Calls -> Keys]
  BY DEF Route, SInv, CallsInv, RouteOf, Types, DataType
<1>1. CASE Fails(c) /\ UNCHANGED <<todo, want>>
  BY <1>0, <1>1, FailedOnly
<1>2. CASE /\ kind[c] = "automatic" /\ message[c] \in ByRule
           /\ todo' = [todo EXCEPT ![c] = Targets] /\ Go(c, "rule") /\ UNCHANGED <<errs, want>>
  <2>1. pc' = [pc EXCEPT ![c] = "rule"] /\ pc'[c] = "rule" /\ todo'[c] = Targets /\ RuleCall(c)
    BY <1>2 DEF Go, Types, DataType, RuleCall
  <2>2. RouteOf(c)' /\ Owns(c)' /\ StoredBy(c)'
    BY <2>1, SameCalls DEF RouteOf, Owns, StoredBy
  <2>3. \A d \in Calls \ {c} : todo'[d] = todo[d]
    BY <1>2 DEF Types, DataType
  <2>4. QED
    BY <1>0, <1>2, <2>1, <2>2, <2>3, MovedOnly DEF Stages
<1>3. CASE kind[c] = "manual" /\ Go(c, "resolve") /\ UNCHANGED <<todo, errs, want>>
  <2>1. pc' = [pc EXCEPT ![c] = "resolve"] /\ pc'[c] = "resolve"
    BY <1>3 DEF Go, Types
  <2>2. Walking(c)'
    BY <1>0, <1>3, SameCalls DEF Walking, RuleCall, DefaultCall
  <2>3. RouteOf(c)' /\ Owns(c)' /\ StoredBy(c)'
    BY <2>1, <2>2 DEF RouteOf, Owns, StoredBy
  <2>4. QED
    BY <1>0, <1>3, <2>1, <2>3, MovedOnly DEF Stages
<1>4. CASE kind[c] \in {"outgoing", "ask"} /\ Go(c, "leave") /\ UNCHANGED <<todo, errs, want>>
  <2>1. ~RuleCall(c) /\ ~DefaultCall(c)
    BY <1>4 DEF RuleCall, DefaultCall
  <2>2. QED
    BY <1>0, <1>4, <2>1, NothingToStore
<1>5. CASE kind[c] \in {"automatic", "ask"} /\ message[c] \notin ByRule /\ Walk(c, 1, FALSE) /\ UNCHANGED todo
  <2>1. Walk(c, 1, c \in lost')
    BY <1>0, <1>5 DEF Walk
  <2>2. QED
    BY <1>0, <1>5, <2>1, WalkStores
<1>6. QED
  BY <1>1, <1>2, <1>3, <1>4, <1>5 DEF Route, Automatic

(* Between the route and the claim a call of the default route only moves.            *)
LEMMA DefaultMoves ==
  ASSUME Types, SInv, UNCHANGED <<input, store, expiries, todo, errs, want, lost>>, NEW c \in Calls,
         NEW s \in {"lookup", "claim", "wait"}, pc[c] \in {"resolve", "lookup", "claim"}, Go(c, s),
         s = "lookup" => pc[c] = "resolve",
         s # "lookup" => DefaultCall(c)
  PROVE  SInv'
<1>1. pc' = [pc EXCEPT ![c] = s] /\ pc'[c] = s
  BY DEF Go, Types
<1>2. Walking(c) => Walking(c)'
  BY SameCalls DEF Walking, Passed
<1>3. RouteOf(c)' /\ Owns(c)' /\ StoredBy(c)'
  BY <1>1, <1>2, SameCalls DEF SInv, CallsInv, RouteOf, Owns, StoredBy
<1>4. QED
  BY <1>1, <1>3, MovedOnly DEF Stages

(* Resolving an entry or the default target stores nothing, whatever the answer; a    *)
(* walk comes to its end only past every entry.                                       *)
LEMMA ResolvedStores ==
  ASSUME Types, SInv, UNCHANGED <<input, store, expiries, todo>>, NEW c \in Calls,
         pc[c] \in {"resolve", "lookup"}, NEW found \in Answers, Resolved(c, found)
  PROVE  SInv'
<1>0. /\ Walking(c) /\ kind[c] \in Kinds /\ want \in [Calls -> Keys] /\ want[c] \in Nat
      /\ message[c] \in Messages
  BY ConstantTypes DEF SInv, CallsInv, RouteOf, Types, DataType, Keys
<1>1. CASE want[c] = 0 /\ kind[c] = "ask" /\ Go(c, "leave") /\ UNCHANGED <<errs, walk>>
  <2>1. ~RuleCall(c) /\ ~DefaultCall(c)
    BY <1>1 DEF RuleCall, DefaultCall
  <2>2. QED
    BY <1>1, <2>1, NothingToStore DEF walk
<1>2. CASE want[c] = 0 /\ kind[c] # "ask" /\ Go(c, "claim") /\ UNCHANGED <<errs, walk>>
  BY <1>0, <1>2, DefaultMoves DEF Walking, walk
<1>3. CASE Fails(c) /\ UNCHANGED walk
  BY <1>3, FailedOnly DEF walk
<1>4. CASE /\ want[c] # 0 /\ Matches(c, found) /\ want' = [want EXCEPT ![c] = 0]
           /\ Go(c, "resolve") /\ UNCHANGED <<errs, lost>>
  <2>1. /\ pc' = [pc EXCEPT ![c] = "resolve"] /\ pc'[c] = "resolve" /\ want'[c] = 0
        /\ \A d \in Calls \ {c} : want'[d] = want[d]
    BY <1>0, <1>4 DEF Go, Types
  <2>2. want[c] \in DOMAIN Listening
    BY <1>0, <1>4, RouterAssumption, LenProperties DEF Keys
  <2>3. Listened(message[c])
    BY <1>4, <2>2 DEF Listened, Matches
  <2>4. kind[c] = "ask" \/ DefaultCall(c)
    BY <1>0, <1>4, <2>3 DEF Walking, RuleCall, DefaultCall, Kinds
  <2>5. Walking(c)'
    BY <1>0, <2>1, <2>4, SameCalls DEF Walking
  <2>6. RouteOf(c)' /\ Owns(c)' /\ StoredBy(c)'
    BY <2>1, <2>5 DEF RouteOf, Owns, StoredBy
  <2>7. QED
    BY <1>4, <2>1, <2>6, MovedOnly DEF Stages
<1>5. CASE /\ want[c] # 0 /\ ~Matches(c, found)
           /\ lost' = IF found = "ok" THEN lost ELSE lost \cup {c}
           /\ Walk(c, want[c] + 1, c \in lost')
  <2>1. want[c] + 1 \in Nat \ {0} /\ (want[c] + 1) - 1 = want[c]
    BY <1>0
  <2>2. kind[c] \in {"automatic", "ask"}
    BY <1>0, <1>5 DEF Walking, Kinds
  <2>3. message[c] \notin ByRule
    BY <1>0, <2>2 DEF Walking
  <2>4. found = "ok" => Passed(c, want[c])
    BY <1>5 DEF Matches, Passed
  <2>5. c \in lost' \/ \A j \in 1..want[c] : Passed(c, j)
    <3>1. CASE found = "ok" /\ c \notin lost
      <4>1. \A j \in 1..(want[c] - 1) : Passed(c, j)
        BY <1>0, <1>5, <3>1 DEF Walking
      <4>2. QED
        BY <1>0, <2>4, <3>1, <4>1
    <3>2. QED
      BY <1>5, <3>1
  <2>6. \A d \in Calls \ {c} : d \in lost' <=> d \in lost
    BY <1>5
  <2>7. QED
    BY <1>5, <2>1, <2>2, <2>3, <2>5, <2>6, WalkStores
<1>6. QED
  BY <1>1, <1>2, <1>3, <1>4, <1>5 DEF Resolved

(* Resolving from the cache stores nothing, nor does the start of a lookup.           *)
LEMMA ResolveStores == ASSUME Types, SInv, UNCHANGED input, NEW c \in Calls, Resolve(c) PROVE SInv'
<1>1. /\ UNCHANGED <<input, store, expiries, todo>> /\ pc[c] = "resolve"
      /\ cache[want[c]] \in Answers /\ "error" \in Answers
  BY DEF Resolve, Types, DataType, Answers
<1>2. CASE Go(c, "lookup") /\ UNCHANGED <<errs, walk>>
  BY <1>1, <1>2, DefaultMoves DEF walk
<1>3. ASSUME NEW found \in Answers, Resolved(c, found) PROVE SInv'
  BY <1>1, <1>3, ResolvedStores
<1>4. QED
  BY <1>1, <1>2, <1>3 DEF Resolve

(* Nor does the lookup of the peer, whatever it returns.                   *)
LEMMA LookupStores == ASSUME Types, SInv, UNCHANGED input, NEW c \in Calls, LookupReturns(c) PROVE SInv'
<1>1. UNCHANGED <<input, store, expiries, todo>> /\ pc[c] = "lookup"
  BY DEF LookupReturns
<1>2. PICK found \in {"ok", "partial", "error"} : Resolved(c, found)
  BY DEF LookupReturns
<1>3. QED
  BY <1>1, <1>2, ResolvedStores DEF Answers

(* A rule's destination is stored, or the call is marked as failed.                   *)
LEMMA RuleStores == ASSUME Types, SInv, UNCHANGED input, NEW c \in Calls, EnqueueRule(c) PROVE SInv'
<1>0. UNCHANGED <<input, want, lost, claims, queued, expiries>> /\ pc[c] = "rule" /\ RuleCall(c)
  BY DEF EnqueueRule, walk, SInv, CallsInv, RouteOf
<1>1. CASE todo[c] = {} /\ Go(c, "leave") /\ UNCHANGED <<todo, errs, routed, faults>>
  <2>1. pc' = [pc EXCEPT ![c] = "leave"] /\ pc'[c] = "leave"
    BY <1>1 DEF Go, Types
  <2>2. UNCHANGED <<store, expiries>>
    BY <1>0, <1>1 DEF store
  <2>3. RouteOf(c)' /\ Owns(c)' /\ StoredBy(c)'
    BY <1>0, <1>1, <2>1, SameCalls, OneRoute DEF SInv, CallsInv, RouteOf, Owns, StoredBy
  <2>4. QED
    BY <1>0, <1>1, <2>1, <2>2, <2>3, MovedOnly DEF Stages
<1>2. CASE Fails(c) /\ UNCHANGED <<todo, routed, faults>>
  BY <1>0, <1>2, FailedOnly DEF store
<1>3. ASSUME NEW t \in todo[c], todo' = [todo EXCEPT ![c] = @ \ {t}], UNCHANGED pc,
             \/ routed' = routed \cup {<<message[c], t>>} /\ UNCHANGED errs
             \/ errs' = errs \cup {c} /\ UNCHANGED routed
      PROVE SInv'
  <2>1. routed \subseteq routed' /\ errs \subseteq errs' /\ errs' \subseteq errs \cup {c}
    BY <1>3
  <2>2. ASSUME NEW d \in Calls PROVE RouteOf(d)' /\ Owns(d)' /\ StoredBy(d)'
    <3>1. RouteOf(d) /\ Owns(d) /\ StoredBy(d)
      BY DEF SInv, CallsInv
    <3>2. RouteOf(d)'
      BY <1>0, <1>3, <3>1, RouteSame
    <3>3. CASE d # c
      <4>1. todo'[d] = todo[d] /\ (d \in errs' <=> d \in errs)
        BY <1>3, <2>1, <3>3 DEF Types, DataType
      <4>2. QED
        BY <1>0, <1>3, <2>1, <3>1, <3>2, <4>1, SameCalls DEF Owns, StoredBy
    <3>4. CASE d = c
      <4>1. todo'[c] = todo[c] \ {t}
        BY <1>3 DEF Types, DataType
      <4>2. QED
        BY <1>0, <1>3, <2>1, <3>1, <3>2, <3>4, <4>1, SameCalls DEF Owns, StoredBy
    <3>5. QED
      BY <3>3, <3>4
  <2>3. ClaimsInv'
    BY <1>0 DEF SInv, ClaimsInv, ClaimBooks
  <2>4. NothingUnwanted'
    <3>1. routed' \subseteq routed \cup {<<message[c], t>>}
      BY <1>3
    <3>2. ASSUME NEW m \in Messages, NEW u \in Targets, <<m, u>> \in routed'
          PROVE  \E d \in Calls : message[d] = m /\ RuleCall(d)
      <4>1. CASE <<m, u>> \in routed
        BY <4>1 DEF SInv, NothingUnwanted
      <4>2. CASE <<m, u>> = <<message[c], t>>
        BY <1>0, <4>2
      <4>3. QED
        BY <3>1, <3>2, <4>1, <4>2
    <3>3. \A m \in Messages : queued[m] > 0 => \E d \in Calls : message[d] = m /\ DefaultCall(d)
      BY DEF SInv, NothingUnwanted
    <3>4. QED
      BY <1>0, <3>2, <3>3, SameCalls DEF NothingUnwanted
  <2>5. QED
    BY <2>2, <2>3, <2>4 DEF SInv, CallsInv
<1>4. QED
  BY <1>1, <1>2, <1>3 DEF EnqueueRule

(* A step at the claim of message k that leaves the other claims alone and stores no   *)
(* less: what it must show of the calls and of k itself.                              *)
LEMMA ClaimStep ==
  ASSUME Types, SInv, NEW k \in Messages, UNCHANGED <<input, want, lost, routed>>,
         \A j \in Messages \ {k} : claims'[j] = claims[j] /\ queued'[j] = queued[j] /\ expiries'[j] = expiries[j],
         \A d \in Calls : RouteOf(d)' /\ Owns(d)' /\ StoredBy(d)', ClaimBooks(k)',
         queued'[k] > 0 => queued[k] > 0 \/ \E d \in Calls : message[d] = k /\ DefaultCall(d)
  PROVE  SInv'
<1>1. ASSUME NEW j \in Messages PROVE ClaimBooks(j)'
  <2>1. CASE j # k
    BY <2>1 DEF SInv, ClaimsInv, ClaimBooks
  <2>2. QED
    BY <2>1
<1>2. ASSUME NEW m \in Messages, queued'[m] > 0
      PROVE  \E d \in Calls : message[d] = m /\ DefaultCall(d)
  <2>1. queued[m] > 0 \/ \E d \in Calls : message[d] = m /\ DefaultCall(d)
    BY <1>2
  <2>2. QED
    BY <2>1 DEF SInv, NothingUnwanted
<1>3. \A m \in Messages : (\E t \in Targets : <<m, t>> \in routed) => \E d \in Calls : message[d] = m /\ RuleCall(d)
  BY DEF SInv, NothingUnwanted
<1>4. NothingUnwanted'
  BY <1>2, <1>3, SameCalls DEF NothingUnwanted
<1>5. QED
  BY <1>1, <1>4 DEF SInv, CallsInv, ClaimsInv

(* A claim without an owner is taken; an accepted one has stored the message.         *)
LEMMA ClaimStores == ASSUME Types, SInv, UNCHANGED input, NEW c \in Calls, ClaimMessage(c) PROVE SInv'
<1>k. PICK k \in Messages : k = message[c]
  BY DEF Types, DataType
<1>0. /\ UNCHANGED <<input, want, lost, routed, queued, expiries, todo>> /\ pc[c] = "claim"
      /\ DefaultCall(c) /\ message' = message
  BY SameCalls DEF ClaimMessage, walk, SInv, CallsInv, RouteOf
<1>1. CASE Fails(c) /\ UNCHANGED claims
  BY <1>0, <1>1, FailedOnly DEF store
<1>2. CASE Accepted(k) /\ Go(c, "leave") /\ UNCHANGED <<errs, claims>>
  <2>1. pc' = [pc EXCEPT ![c] = "leave"] /\ pc'[c] = "leave"
    BY <1>2 DEF Go, Types
  <2>2. UNCHANGED <<store, expiries>>
    BY <1>0, <1>2 DEF store
  <2>3. claims[k].accepted = TRUE
    BY <1>2 DEF Accepted, Types, DataType, ClaimType
  <2>4. queued[k] > 0
    BY <2>3 DEF SInv, ClaimsInv, ClaimBooks
  <2>5. RouteOf(c)' /\ Owns(c)' /\ StoredBy(c)'
    BY <1>0, <1>k, <2>1, <2>4, SameCalls, OneRoute DEF RouteOf, Owns, StoredBy
  <2>6. QED
    BY <1>0, <1>2, <2>1, <2>2, <2>5, MovedOnly DEF Stages
<1>3. CASE Go(c, "wait") /\ UNCHANGED <<errs, claims>>
  BY <1>0, <1>3, DefaultMoves DEF store
<1>4. CASE /\ claims[k].owner = None /\ claims' = [claims EXCEPT ![k] = [NoClaim EXCEPT !.owner = c]]
           /\ Go(c, "save") /\ UNCHANGED errs
  <2>1. pc' = [pc EXCEPT ![c] = "save"] /\ pc'[c] = "save"
    BY <1>4 DEF Go, Types
  <2>3. claims'[k].owner = c /\ claims'[k].accepted = FALSE /\ claims'[k].ok = FALSE
    BY <1>4 DEF NoClaim, Types, DataType
  <2>4. \A j \in Messages \ {k} : claims'[j] = claims[j]
    BY <1>4 DEF Types, DataType
  <2>5. ClaimBooks(k) /\ claims[k] = NoClaim
    BY <1>4 DEF SInv, ClaimsInv, ClaimBooks
  <2>6. queued[k] <= expiries[k]
    BY <2>5 DEF ClaimBooks, NoClaim
  <2>7. c # None
    BY RouterAssumption
  <2>8. ClaimBooks(k)'
    BY <1>0, <2>3, <2>6, <2>7 DEF ClaimBooks
  <2>10. ASSUME NEW d \in Calls PROVE RouteOf(d)' /\ Owns(d)' /\ StoredBy(d)'
    <3>1. RouteOf(d) /\ Owns(d) /\ StoredBy(d) /\ message[d] \in Messages
      BY DEF SInv, CallsInv, Types, DataType
    <3>2. CASE d = c
      BY <1>0, <1>k, <2>1, <2>3, <3>1, <3>2, SameCalls DEF RouteOf, Owns, StoredBy
    <3>3. CASE d # c
      <4>1. pc'[d] = pc[d]
        BY <2>1, <3>3 DEF Types
      <4>r. RouteOf(d)'
        BY <1>0, <3>1, <4>1, RouteSame
      <4>2. CASE pc[d] \in {"save", "settle"}
        <5>1. d # None
          BY RouterAssumption
        <5>2. message[d] # k
          BY <1>4, <3>1, <4>2, <5>1 DEF Owns
        <5>3. claims'[message[d]] = claims[message[d]]
          BY <2>4, <3>1, <5>2
        <5>4. QED
          BY <1>0, <1>4, <3>1, <4>1, <4>r, <5>3, SameCalls DEF Owns, StoredBy
      <4>3. CASE pc[d] \notin {"save", "settle"}
        BY <1>0, <1>4, <3>1, <4>1, <4>3, <4>r, SameCalls DEF Owns, StoredBy
      <4>4. QED
        BY <4>2, <4>3
    <3>4. QED
      BY <3>2, <3>3
  <2>11. QED
    BY <1>0, <2>4, <2>8, <2>10, ClaimStep
<1>5. QED
  BY <1>k, <1>1, <1>2, <1>3, <1>4 DEF ClaimMessage

(* The owner of the claim stores the message, or fails to.                            *)
LEMMA SaveStores == ASSUME Types, SInv, UNCHANGED input, NEW c \in Calls, SaveMessage(c) PROVE SInv'
<1>k. PICK k \in Messages : k = message[c]
  BY DEF Types, DataType
<1>o. /\ claims[k].owner = c /\ claims[k].accepted = FALSE /\ claims[k].ok = FALSE
      /\ pc[c] = "save" /\ pc' = [pc EXCEPT ![c] = "settle"] /\ pc'[c] = "settle" /\ DefaultCall(c)
      /\ UNCHANGED <<input, want, lost, routed, expiries, todo>> /\ message' = message
  BY <1>k, SameCalls DEF SaveMessage, Go, walk, Types, SInv, CallsInv, Owns, RouteOf
<1>b. queued[k] <= expiries[k] /\ queued[k] \in Nat /\ expiries[k] \in Nat
  BY <1>o DEF SInv, ClaimsInv, ClaimBooks, Types, DataType
<1>1. CASE errs' = errs \cup {c} /\ UNCHANGED <<queued, claims>>
  <2>1. RouteOf(c)' /\ Owns(c)' /\ StoredBy(c)'
    BY <1>1, <1>k, <1>o, SameCalls DEF RouteOf, Owns, StoredBy
  <2>2. QED
    BY <1>1, <1>o, <2>1, MovedOnly DEF Stages, store
<1>2. CASE /\ queued' = [queued EXCEPT ![k] = @ + 1]
           /\ claims' = [claims EXCEPT ![k].ok = TRUE] /\ UNCHANGED errs
  <2>1. /\ claims'[k].owner = c /\ claims'[k].accepted = FALSE /\ claims'[k].ok = TRUE
        /\ queued'[k] = queued[k] + 1
    BY <1>2, <1>o DEF Types, DataType, ClaimType
  <2>2. \A j \in Messages \ {k} : claims'[j] = claims[j] /\ queued'[j] = queued[j]
    BY <1>2 DEF Types, DataType
  <2>3. c # None
    BY RouterAssumption
  <2>4. ClaimBooks(k)'
    BY <1>b, <1>o, <2>1, <2>3 DEF ClaimBooks
  <2>6. ASSUME NEW d \in Calls PROVE RouteOf(d)' /\ Owns(d)' /\ StoredBy(d)'
    <3>1. RouteOf(d) /\ Owns(d) /\ StoredBy(d) /\ message[d] \in Messages
      BY DEF SInv, CallsInv, Types, DataType
    <3>2. CASE d = c
      BY <1>k, <1>o, <2>1, <3>2, SameCalls DEF RouteOf, Owns, StoredBy
    <3>3. CASE d # c
      <4>1. pc'[d] = pc[d] /\ (d \in errs' <=> d \in errs)
        BY <1>2, <1>o, <3>3 DEF Types
      <4>r. RouteOf(d)'
        BY <1>o, <3>1, <4>1, RouteSame
      <4>2. pc[d] \in {"save", "settle"} => claims'[message[d]] = claims[message[d]]
        BY <1>k, <1>o, <2>2, <3>1, <3>3 DEF Owns
      <4>3. queued[message[d]] > 0 => queued'[message[d]] > 0
        BY <1>b, <2>1, <2>2, <3>1
      <4>4. QED
        BY <1>o, <3>1, <4>1, <4>2, <4>3, <4>r, SameCalls DEF Owns, StoredBy
    <3>4. QED
      BY <3>2, <3>3
  <2>7. QED
    BY <1>k, <1>o, <2>2, <2>4, <2>6, ClaimStep
<1>3. QED
  BY <1>k, <1>1, <1>2 DEF SaveMessage

(* The claim is accepted or dropped, and the calls that wait for it look again.       *)
LEMMA SettleStores == ASSUME Types, SInv, UNCHANGED input, NEW c \in Calls, Settle(c) PROVE SInv'
<1>k. PICK k \in Messages : k = message[c]
  BY DEF Types, DataType
<1>o. /\ claims[k].owner = c /\ claims[k].accepted = FALSE /\ DefaultCall(c)
      /\ pc[c] = "settle" /\ pc' = Woken(c, k) /\ claims' = [claims EXCEPT ![k] = ClaimSettled(k)]
      /\ UNCHANGED <<input, want, lost, routed, queued, expiries, todo, errs>> /\ message' = message
  BY <1>k, SameCalls DEF Settle, walk, Types, SInv, CallsInv, Owns, RouteOf
<1>1. claims'[k] = ClaimSettled(k) /\ \A j \in Messages \ {k} : claims'[j] = claims[j]
  BY <1>o DEF Types, DataType
<1>2. claims[k].ok \in BOOLEAN
  BY DEF Types, DataType, ClaimType
<1>3. ClaimBooks(k)
  BY DEF SInv, ClaimsInv
<1>4. ClaimBooks(k)'
  <2>1. CASE claims[k].ok = TRUE
    <3>1. claims'[k].ok = TRUE /\ claims'[k].owner = c
      BY <1>1, <1>o, <2>1 DEF ClaimSettled, Types, DataType, ClaimType
    <3>2. c # None
      BY RouterAssumption
    <3>3. QED
      BY <1>3, <1>o, <2>1, <3>1, <3>2 DEF ClaimBooks
  <2>2. CASE claims[k].ok = FALSE
    <3>1. claims'[k] = NoClaim
      BY <1>1, <2>2 DEF ClaimSettled
    <3>2. QED
      BY <1>3, <1>o, <2>2, <3>1 DEF ClaimBooks, NoClaim
  <2>3. QED
    BY <1>2, <2>1, <2>2
<1>6. ASSUME NEW d \in Calls PROVE RouteOf(d)' /\ Owns(d)' /\ StoredBy(d)'
  <2>1. RouteOf(d) /\ Owns(d) /\ StoredBy(d) /\ message[d] \in Messages
    BY DEF SInv, CallsInv, Types, DataType
  <2>2. CASE d = c
    <3>1. pc'[c] = "leave"
      BY <1>o DEF Woken
    <3>2. c \notin errs => queued[k] > 0
      BY <1>3, <1>k, <1>o, <2>1, <2>2 DEF StoredBy, ClaimBooks
    <3>3. QED
      BY <1>k, <1>o, <2>2, <3>1, <3>2, SameCalls, OneRoute DEF RouteOf, Owns, StoredBy
  <2>3. CASE d # c
    <3>1. pc'[d] = IF pc[d] = "wait" /\ message[d] = k THEN "claim" ELSE pc[d]
      BY <1>o, <2>3 DEF Woken
    <3>2. pc[d] \in {"save", "settle"} => claims'[message[d]] = claims[message[d]]
      BY <1>1, <1>k, <1>o, <2>1, <2>3 DEF Owns
    <3>3. CASE pc'[d] = pc[d]
      <4>1. RouteOf(d)'
        BY <1>o, <2>1, <3>3, RouteSame
      <4>2. QED
        BY <1>o, <2>1, <3>2, <3>3, <4>1, SameCalls DEF Owns, StoredBy
    <3>4. CASE pc[d] = "wait" /\ pc'[d] = "claim"
      BY <1>o, <2>1, <3>4, SameCalls DEF RouteOf, Owns, StoredBy
    <3>5. QED
      BY <3>1, <3>3, <3>4
  <2>4. QED
    BY <2>2, <2>3
<1>7. QED
  BY <1>1, <1>4, <1>6, <1>o, ClaimStep

(* A TTL ends: the message may be stored once more.                                   *)
LEMMA ExpiryStores == ASSUME Types, SInv, UNCHANGED input, NEW k \in Messages, ClaimExpires(k) PROVE SInv'
<1>1. /\ claims[k].accepted = TRUE /\ UNCHANGED <<input, want, lost, routed, queued, todo, errs, pc>>
      /\ claims' = [claims EXCEPT ![k] = NoClaim] /\ expiries' = [expiries EXCEPT ![k] = @ + 1]
      /\ message' = message
  BY SameCalls DEF ClaimExpires, walk, Types, DataType, ClaimType
<1>2. /\ claims'[k] = NoClaim /\ expiries'[k] = expiries[k] + 1
      /\ \A j \in Messages \ {k} : claims'[j] = claims[j] /\ expiries'[j] = expiries[j]
  BY <1>1 DEF Types, DataType
<1>3. ClaimBooks(k)'
  BY <1>1, <1>2 DEF SInv, ClaimsInv, ClaimBooks, NoClaim
<1>5. ASSUME NEW d \in Calls PROVE RouteOf(d)' /\ Owns(d)' /\ StoredBy(d)'
  <2>1. RouteOf(d) /\ Owns(d) /\ StoredBy(d) /\ message[d] \in Messages
    BY DEF SInv, CallsInv, Types, DataType
  <2>2. pc[d] \in {"save", "settle"} => claims'[message[d]] = claims[message[d]]
    BY <1>1, <1>2, <2>1 DEF Owns
  <2>r. RouteOf(d)'
    BY <1>1, <2>1, RouteSame
  <2>3. QED
    BY <1>1, <2>1, <2>2, <2>r, SameCalls DEF Owns, StoredBy
<1>6. QED
  BY <1>1, <1>2, <1>3, <1>5, ClaimStep

(* Every step keeps what is stored exact.                                  *)
LEMMA StoresStep == ASSUME Types, SInv, [Next]_vars PROVE SInv'
<1>0. UNCHANGED input
  BY DEF Next, vars
<1>1. CASE UNCHANGED vars
  BY <1>1, StoredSame DEF vars
<1>2. ASSUME Stop \/ StopReturns \/ \E e \in Keys : CacheExpires(e) PROVE SInv'
  <2>1. UNCHANGED <<input, store, expiries, todo, errs, walk, pc>>
    BY <1>0, <1>2 DEF Stop, StopReturns, CacheExpires
  <2>2. QED
    BY <2>1, StoredSame
<1>3. ASSUME NEW c \in Calls, Begin(c) \/ Cancel(c) \/ CallStep(c) PROVE SInv'
  <2>1. CASE Cancel(c)
    BY <1>0, <2>1, StoredSame DEF Cancel
  <2>2. CASE WaitCanceled(c)
    BY <1>0, <2>2, FailedOnly DEF WaitCanceled, walk
  <2>p. CASE PolicyInvalid(c)
    BY <1>0, <2>p, FailedOnly DEF PolicyInvalid, walk
  <2>3. QED
    BY <1>0, <1>3, <2>1, <2>2, <2>p, BeginStores, LeaveStores, RouteStores, ResolveStores, LookupStores, RuleStores,
       ClaimStores, SaveStores, SettleStores DEF CallStep
<1>4. ASSUME NEW k \in Messages, ClaimExpires(k) PROVE SInv'
  BY <1>0, <1>4, ExpiryStores
<1>5. QED
  BY <1>1, <1>2, <1>3, <1>4 DEF Next, Steps

(* Whatever calls submit one message at the same time, fail, wait for each other or   *)
(* are cancelled, a message that some call reports as accepted is in the queue, on    *)
(* the rule route for every destination, and on the default route at most once per    *)
(* TTL of its claim; and a message that no call wants stored is not: one the account  *)
(* sent, one only asked about, or an automatic one whose source no rule and no entry  *)
(* of the listening list names (message_router.go, destinations, listens,             *)
(* enqueueDefault and SubmitMessage).                                                 *)
THEOREM RouterStoresExactly == Spec => []StoredExactly
<1>1. Init => SInv
  BY DEF Init, SInv, CallsInv, ClaimsInv, RouteOf, Owns, StoredBy, ClaimBooks, NoClaim, NothingUnwanted
<1>2. Init => DataType
  BY DataInit
<1>3. DInv /\ DataType => Types
  BY DEF DInv, LifeType, Types
<1>4. Types /\ SInv => StoredExactly
  <2> SUFFICES ASSUME Types, SInv PROVE StoredExactly
    OBVIOUS
  <2>1. ASSUME NEW k \in Messages PROVE queued[k] <= 1 + expiries[k]
    <3>1. queued[k] \in Nat /\ expiries[k] \in Nat /\ claims[k].ok \in BOOLEAN /\ ClaimBooks(k)
      BY DEF Types, DataType, ClaimType, SInv, ClaimsInv
    <3>2. QED
      BY <3>1 DEF ClaimBooks
  <2>2. AcceptedMeansStored
    BY DEF SInv, CallsInv, StoredBy, AcceptedMeansStored
  <2>3. QED
    BY <2>1, <2>2 DEF StoredExactly, StoredOncePerTTL, SInv
<1>5. QED
  BY <1>1, <1>2, <1>3, <1>4, DrainInit, DrainStep, DataStep, StoresStep, PTL DEF Spec

-----------------------------------------------------------------------------
(***************************************************************************)
(* The queue behind the router: ForwardQueue, for any jobs, messages,      *)
(* policies and any number of controls, faults, shutdowns and crashes.     *)
(*                                                                         *)
(* The invariants are proved one after another: the types, then what the   *)
(* worker knows of the job in its hands, the retry budget, the ownership   *)
(* of results and the duplicates.  The order of the records (created,      *)
(* finished) is not part of them: the proofs hold for every order.         *)
(***************************************************************************)


-----------------------------------------------------------------------------
(* One attempt *)

(* What is converted leaves out only what must be uploaded again or cannot *)
(* be converted, and is empty for a message without media.                 *)
LEMMA ConversionCovers ==
    ASSUME NEW m, Queue!IsMessage(m), NEW S \in Queue!Conversions(m), NEW p \in Queue!Whole(m) \ S,
           S # {} \/ p # "text"
    PROVE  p \in DOMAIN m.parts /\ (Queue!Clones(m, p) \/ ~m.parts[p].convertible)
<1> DEFINE media == {i \in DOMAIN m.parts : m.parts[i].media # "none"}
<1>1. Queue!MustConvert(m) \subseteq S /\ S \subseteq Queue!MustConvert(m) \cup Queue!MayConvert(m)
  BY DEF Queue!Conversions
<1>2. S \subseteq media
  BY <1>1 DEF Queue!MustConvert, Queue!MayConvert, Queue!Clones
<1>3. p \in media
  BY <1>2 DEF Queue!Whole
<1>4. p \notin Queue!MustConvert(m)
  BY <1>1
<1> QED
  BY <1>3, <1>4 DEF Queue!MustConvert

(* A request answered without an error posted its content last.            *)
LEMMA PostAppends ==
    ASSUME NEW before, NEW content, NEW omitted,
           NEW o \in Queue!Post(before, content, omitted), o.err = "nil"
    PROVE  o.posts = Append(before, content)
<1>1. PICK r \in Queue!Replies :
        o = Queue!Outcome(r[1], IF r[2] THEN Append(before, content) ELSE before, omitted)
  BY DEF Queue!Post
<1>2. r[1] = "nil"
  BY <1>1 DEF Queue!Outcome
<1>3. r[2] = TRUE
  <2>1. \A x \in {"failed", "canceled"} \X BOOLEAN : x[1] # "nil"
    OBVIOUS
  <2>2. r = <<"nil", TRUE>>
    BY <1>2, <2>1 DEF Queue!Replies
  <2> QED
    BY <2>2
<1> QED
  BY <1>1, <1>3 DEF Queue!Outcome

(* The last element of a sequence that was appended to.                    *)
LEMMA LastPosted ==
    ASSUME NEW T, NEW before \in Seq(T), NEW content \in T
    PROVE  \E i \in DOMAIN Append(before, content) : Append(before, content)[i] = content
<1>1. Len(before) + 1 \in DOMAIN Append(before, content)
  OBVIOUS
<1>2. Append(before, content)[Len(before) + 1] = content
  OBVIOUS
<1> QED
  BY <1>1, <1>2

(* A clone that reports success is complete.                               *)
LEMMA CloneComplete ==
    ASSUME NEW m, Queue!IsMessage(m), NEW T, NEW before \in Seq(T),
           NEW o \in Queue!Clone(m, before), o.err = "nil",
           {"text"} \in T, Queue!Conversions(m) \subseteq T
    PROVE  Queue!Complete(m, o)
<1>1. PICK S \in Queue!Conversions(m) :
        o \in IF S = {} THEN Queue!TextOnly(m, before) ELSE Queue!Post(before, S, Queue!Whole(m) \ S)
  BY DEF Queue!Clone
<1>2. CASE S = {}
  <2>1. o \in Queue!Post(before, {"text"}, Queue!Whole(m) \ {"text"})
    BY <1>1, <1>2 DEF Queue!TextOnly, Queue!Outcome
  <2>2. o.posts = Append(before, {"text"})
    BY <2>1, PostAppends
  <2>3. PICK i \in DOMAIN o.posts : o.posts[i] = {"text"}
    BY <2>2, LastPosted
  <2>4. \A p \in Queue!Whole(m) \ {"text"} :
            p \in DOMAIN m.parts /\ (Queue!Clones(m, p) \/ ~m.parts[p].convertible)
    BY <1>2, ConversionCovers
  <2> QED
    BY <2>3, <2>4 DEF Queue!Complete
<1>3. CASE S # {}
  <2>1. o \in Queue!Post(before, S, Queue!Whole(m) \ S)
    BY <1>1, <1>3
  <2>2. o.posts = Append(before, S)
    BY <2>1, PostAppends
  <2>3. PICK i \in DOMAIN o.posts : o.posts[i] = S
    BY <2>2, LastPosted
  <2>4. \A p \in Queue!Whole(m) \ S :
            p \in DOMAIN m.parts /\ (Queue!Clones(m, p) \/ ~m.parts[p].convertible)
    BY <1>3, ConversionCovers
  <2> QED
    BY <2>3, <2>4 DEF Queue!Complete
<1> QED
  BY <1>2, <1>3

(* An attempt that reports success has posted everything that travels by   *)
(* reference, whichever of the fallbacks it took (Runtime.Forward).        *)
LEMMA SuccessIsComplete ==
    ASSUME NEW m, Queue!IsMessage(m), NEW o \in Queue!Attempt(m), o.err = "nil"
    PROVE  Queue!Complete(m, o)
<1> DEFINE T == Queue!Conversions(m) \cup {{"text"}, Queue!Whole(m)}
<1>1. o \notin Queue!Unresolved(m) /\ o # Queue!Outcome("failed", <<>>, {})
  BY DEF Queue!Unresolved, Queue!Outcome
<1>2. o \in Queue!Direct(m) \/ o \in Queue!Clone(m, <<>>)
  BY <1>1 DEF Queue!Attempt
<1>3. <<>> \in Seq(T) /\ <<Queue!Whole(m)>> \in Seq(T)
  OBVIOUS
<1>4. ASSUME o = Queue!Outcome("nil", <<Queue!Whole(m)>>, {}) PROVE Queue!Complete(m, o)
  <2>1. o.posts = <<Queue!Whole(m)>>
    BY <1>4 DEF Queue!Outcome
  <2>2. 1 \in DOMAIN o.posts /\ o.posts[1] = Queue!Whole(m)
    BY <2>1
  <2> QED
    BY <2>2 DEF Queue!Complete
<1>5. ASSUME o \in Queue!Clone(m, <<>>) \/ o \in Queue!Clone(m, <<Queue!Whole(m)>>) PROVE Queue!Complete(m, o)
  <2>1. {"text"} \in T /\ Queue!Conversions(m) \subseteq T
    OBVIOUS
  <2> HIDE DEF T
  <2> QED
    BY <1>3, <1>5, <2>1, CloneComplete
<1> QED
  BY <1>2, <1>4, <1>5 DEF Queue!Direct

-----------------------------------------------------------------------------
(* The invariants *)

Holding == {"activate", "claim", "send", "result"}

(* The types of everything but the order of the records; the worker has a  *)
(* job in its hands from pickNext to the end of runJob.                    *)
QueueTypes ==
    /\ status \in [Ids -> Queue!Statuses] /\ attempts \in [Ids -> Nat] /\ fails \in [Ids -> Nat]
    /\ excuse \in [Ids -> SUBSET {"unrecorded", "unanswered", "deleted", "pruned"}]
    /\ wpc \in Queue!WorkerStates /\ mine \in Nat /\ policy \in Policies
    /\ wpc \in Holding => cur \in Ids

(* Only a retrying record waits for its backoff, and the job in hand does  *)
(* not wait.                                                               *)
BackoffInv ==
    /\ \A j \in later : j \in Ids /\ status[j] = "retrying"
    /\ wpc \in {"activate", "claim"} => cur \notin later

(* The worker's copy agrees with the record as long as the record runs,    *)
(* and a record that may still be attempted is within some policy's limit. *)
BudgetInv ==
    /\ \A j \in Ids : attempts[j] = fails[j]
    /\ wpc \in {"send", "result"} /\ status[cur] = "running" => mine = attempts[cur]
    /\ \A j \in Ids : status[j] \in {"queued", "running", "retrying", "paused"} =>
          \E p \in Policies : fails[j] < p.attempts
    /\ Queue!RetryBudget

(* A success in the worker's hands belongs to the record that runs.        *)
OwnInv ==
    /\ Queue!NoForeignResult
    /\ wpc = "result" /\ runErr = "nil" /\ status[cur] = "running" => cur \in sent

(* A message without an excuse was posted once: its record says done, or   *)
(* the success is still in the worker's hands and the record still runs.   *)
DupInv ==
    /\ DuplicatesExcused
    /\ again \subseteq Ids /\ ever \subseteq Ids
    /\ wpc \in {"send", "result"} /\ excuse[cur] = {} => status[cur] = "running"
    /\ \A j \in ever : excuse[j] = {} =>
          status[j] = "done" \/ (wpc = "result" /\ cur = j /\ runErr = "nil")

-----------------------------------------------------------------------------
(* The verdict *)

(* The end of an attempt whose record is still running.                    *)
Settles(s, n) ==
    /\ Queue!ResultWanted(cur) /\ Queue!Store(s, n) /\ ~serveDone
    /\ \/ runErr = "nil" /\ s = "done" /\ n = mine
       \/ runErr = "canceled" /\ s = "queued" /\ n = mine
       \/ runErr = "failed" /\ s = "error" /\ n = mine + 1 /\ n >= policy.attempts
       \/ runErr = "failed" /\ s = "retrying" /\ n = mine + 1 /\ ~(n >= policy.attempts)

(* Finish stores a verdict, finds the record gone, or does not reach it.   *)
LEMMA FinishSettles ==
    ASSUME Queue!Finish
    PROVE  \/ Queue!Unrecorded /\ (serveDone \/ failed')
           \/ ~Queue!ResultWanted(cur) /\ UNCHANGED <<Queue!records, sent, ever, again, excuse, fails>>
           \/ \E s \in Queue!Statuses, n \in {mine, mine + 1} : Settles(s, n)
<1>1. CASE serveDone /\ Queue!Unrecorded
  BY <1>1
<1>2. CASE ~Queue!ResultWanted(cur) /\ UNCHANGED <<Queue!records, sent, ever, again, excuse, fails>>
  BY <1>2
<1>3. CASE ~serveDone /\ Queue!ResultWanted(cur) /\ runErr = "nil" /\ Queue!Store("done", mine)
  BY <1>3 DEF Settles, Queue!Statuses
<1>4. CASE ~serveDone /\ Queue!ResultWanted(cur) /\ runErr = "canceled" /\ Queue!Store("queued", mine)
  BY <1>4 DEF Settles, Queue!Statuses
<1>5. CASE /\ ~serveDone /\ Queue!ResultWanted(cur) /\ runErr = "failed"
           /\ Queue!Store(IF Queue!Exhausted(mine + 1) THEN "error" ELSE "retrying", mine + 1)
  <2>1. CASE Queue!Exhausted(mine + 1)
    <3>1. Settles("error", mine + 1)
      BY <1>5, <2>1 DEF Settles, Queue!Exhausted
    <3> QED
      BY <3>1 DEF Queue!Statuses
  <2>2. CASE ~Queue!Exhausted(mine + 1)
    <3>1. Settles("retrying", mine + 1)
      BY <1>5, <2>2 DEF Settles, Queue!Exhausted
    <3> QED
      BY <3>1 DEF Queue!Statuses
  <2> QED
    BY <2>1, <2>2
<1>6. CASE Queue!Fault /\ Queue!Unrecorded
  BY <1>6 DEF Queue!Fault
<1> QED
  BY <1>1, <1>2, <1>3, <1>4, <1>5, <1>6 DEF Queue!Finish

-----------------------------------------------------------------------------
(* The invariants, one after another *)

(* The types are inductive.                                                *)
LEMMA TypesStep ==
    ASSUME QueueTypes, [Queue!Next]_(Queue!vars)
    PROVE  QueueTypes'
<1> USE DEF QueueTypes, Holding, Queue!Statuses, Queue!WorkerStates
<1>1. CASE Queue!Serve
  BY <1>1 DEF Queue!Serve, Queue!records, Queue!history
<1>2. CASE Queue!RecoverRunning
  BY <1>2 DEF Queue!RecoverRunning, Queue!Requeue, Queue!NoFault, Queue!Fault, Queue!Event, Queue!Leave, Queue!history
<1>3. CASE Queue!PickNext
  <2>1. CASE Queue!RemoveRecords(Queue!Pruned, "pruned") /\ UNCHANGED failed /\ wpc' = "activate"
    BY <1>3, <2>1 DEF Queue!PickNext, Queue!RemoveRecords, Queue!Pruned, Queue!Eligible, Queue!Terminal, Queue!Fault, Queue!records
  <2>2. CASE Queue!RemoveRecords(Queue!Pruned, "pruned") /\ UNCHANGED failed /\ wpc' = "wait"
    BY <1>3, <2>2 DEF Queue!PickNext, Queue!RemoveRecords, Queue!Pruned, Queue!Eligible, Queue!Terminal, Queue!Fault, Queue!records
  <2>3. CASE Queue!Fault /\ UNCHANGED <<Queue!records, Queue!history>> /\ wpc' = "wait"
    BY <1>3, <2>3 DEF Queue!PickNext, Queue!Fault, Queue!records, Queue!history
  <2> QED
    BY <1>3, <2>1, <2>2, <2>3 DEF Queue!PickNext, Queue!NoFault
<1>4. CASE Queue!ServeEnds
  BY <1>4 DEF Queue!ServeEnds, Queue!Leave, Queue!records, Queue!history
<1>5. CASE Queue!Wait
  BY <1>5 DEF Queue!Wait, Queue!records, Queue!history
<1>6. CASE Queue!SetActive
  BY <1>6 DEF Queue!SetActive, Queue!records, Queue!history
<1>7. CASE Queue!Claim
  BY <1>7 DEF Queue!Claim, Queue!NoFault, Queue!Fault, Queue!Event, Queue!EndJob, Queue!Updated, Queue!AttemptsKept, Queue!Claimable
<1>8. CASE Queue!Forward
  BY <1>8 DEF Queue!Forward, Queue!Landed, Queue!Event, Queue!records
<1>9. CASE Queue!Finish
  <2>1. CASE Queue!Unrecorded
    BY <1>9, <2>1 DEF Queue!Finish, Queue!EndJob, Queue!Unrecorded, Queue!records
  <2>2. CASE ~Queue!ResultWanted(cur) /\ UNCHANGED <<Queue!records, sent, ever, again, excuse, fails>>
    BY <1>9, <2>2 DEF Queue!Finish, Queue!EndJob, Queue!ResultWanted, Queue!records
  <2>3. ASSUME NEW s \in Queue!Statuses, NEW n \in {mine, mine + 1}, Settles(s, n) PROVE QueueTypes'
    BY <1>9, <2>3 DEF Queue!Finish, Queue!EndJob, Settles, Queue!Store, Queue!Updated, Queue!ResultWanted, Queue!Exhausted
  <2> QED
    BY <1>9, <2>1, <2>2, <2>3, FinishSettles DEF Queue!Finish
<1>10. CASE Queue!Progress
  BY <1>10 DEF Queue!Progress, Queue!worker, Queue!history
<1>11. CASE Queue!Reconfigure
  BY <1>11 DEF Queue!Reconfigure, Queue!Event, Queue!records, Queue!worker, Queue!history
<1>12. CASE Queue!Shutdown
  BY <1>12 DEF Queue!Shutdown, Queue!Event, Queue!records, Queue!worker, Queue!history
<1>13. CASE Queue!Crash
  <2>1. CASE wpc = "send" /\ \E o \in Queue!Attempt(JobMessage[cur]) : Queue!Landed(o, TRUE)
    BY <1>13, <2>1 DEF Queue!Crash, Queue!Leave, Queue!Landed, Queue!records
  <2>2. CASE wpc = "result" /\ runErr = "nil"
    BY <1>13, <2>2 DEF Queue!Crash, Queue!Leave, Queue!records
  <2>3. CASE wpc # "send" /\ UNCHANGED <<sent, ever, again, excuse>>
    BY <1>13, <2>3 DEF Queue!Crash, Queue!Leave, Queue!records
  <2> QED
    BY <1>13, <2>1, <2>2, <2>3 DEF Queue!Crash
<1>14. ASSUME NEW j \in Ids, Queue!EnqueueOnce(j) PROVE QueueTypes'
  BY <1>14 DEF Queue!EnqueueOnce, Queue!Event, Queue!Save, Queue!Updated, Queue!worker
<1>15. ASSUME NEW j \in Ids, Queue!EnqueueRouted(j) PROVE QueueTypes'
  <2>1. CASE UNCHANGED <<Queue!records, Queue!history>>
    BY <1>15, <2>1 DEF Queue!EnqueueRouted, Queue!worker, Queue!records, Queue!history
  <2>2. CASE status[j] = "absent" /\ Queue!Save(j) /\ wake'
    BY <1>15, <2>2 DEF Queue!EnqueueRouted, Queue!Save, Queue!Updated, Queue!worker
  <2> QED
    BY <1>15, <2>1, <2>2 DEF Queue!EnqueueRouted
<1>16. ASSUME NEW j \in Ids, Queue!Pause(j) PROVE QueueTypes'
  BY <1>16 DEF Queue!Pause, Queue!Change, Queue!Event, Queue!Updated, Queue!PauseStatus, Queue!worker, Queue!history
<1>17. ASSUME NEW j \in Ids, Queue!Resume(j) PROVE QueueTypes'
  BY <1>17 DEF Queue!Resume, Queue!Change, Queue!Event, Queue!Updated, Queue!worker
<1>18. ASSUME NEW j \in Ids, Queue!Delete(j) PROVE QueueTypes'
  BY <1>18 DEF Queue!Delete, Queue!Event, Queue!RemoveRecords, Queue!cancelIfActive
<1>19. ASSUME NEW j \in Ids, Queue!BackoffElapses(j) PROVE QueueTypes'
  BY <1>19 DEF Queue!BackoffElapses, Queue!worker, Queue!history
<1>20. ASSUME NEW j \in Ids, Queue!Expire(j) PROVE QueueTypes'
  BY <1>20 DEF Queue!Expire, Queue!Event, Queue!worker, Queue!history
<1>21. CASE UNCHANGED Queue!vars
  BY <1>21 DEF Queue!vars, Queue!records, Queue!worker, Queue!history
<1> QED
  BY <1>1, <1>2, <1>3, <1>4, <1>5, <1>6, <1>7, <1>8, <1>9, <1>10, <1>11, <1>12, <1>13,
     <1>14, <1>15, <1>16, <1>17, <1>18, <1>19, <1>20, <1>21 DEF Queue!Next, Queue!WorkerStep

(* The backoff is inductive: only Store delays a record.                   *)
LEMMA BackoffStep ==
    ASSUME QueueTypes, BackoffInv, [Queue!Next]_(Queue!vars)
    PROVE  BackoffInv'
<1> USE DEF QueueTypes, BackoffInv, Holding
<1>1. CASE Queue!Serve
  BY <1>1 DEF Queue!Serve, Queue!records, Queue!history
<1>2. CASE Queue!RecoverRunning
  BY <1>2 DEF Queue!RecoverRunning, Queue!Requeue, Queue!NoFault, Queue!Fault, Queue!Event, Queue!Leave, Queue!history
<1>3. CASE Queue!PickNext
  <2>1. CASE Queue!RemoveRecords(Queue!Pruned, "pruned") /\ UNCHANGED failed /\ wpc' = "activate"
    BY <1>3, <2>1 DEF Queue!PickNext, Queue!RemoveRecords, Queue!Pruned, Queue!Eligible, Queue!Terminal, Queue!Fault, Queue!records
  <2>2. CASE Queue!RemoveRecords(Queue!Pruned, "pruned") /\ UNCHANGED failed /\ wpc' = "wait"
    BY <1>3, <2>2 DEF Queue!PickNext, Queue!RemoveRecords, Queue!Pruned, Queue!Eligible, Queue!Terminal, Queue!Fault, Queue!records
  <2>3. CASE Queue!Fault /\ UNCHANGED <<Queue!records, Queue!history>> /\ wpc' = "wait"
    BY <1>3, <2>3 DEF Queue!PickNext, Queue!Fault, Queue!records, Queue!history
  <2> QED
    BY <1>3, <2>1, <2>2, <2>3 DEF Queue!PickNext, Queue!NoFault
<1>4. CASE Queue!ServeEnds
  BY <1>4 DEF Queue!ServeEnds, Queue!Leave, Queue!records, Queue!history
<1>5. CASE Queue!Wait
  BY <1>5 DEF Queue!Wait, Queue!records, Queue!history
<1>6. CASE Queue!SetActive
  BY <1>6 DEF Queue!SetActive, Queue!records, Queue!history
<1>7. CASE Queue!Claim
  BY <1>7 DEF Queue!Claim, Queue!NoFault, Queue!Fault, Queue!Event, Queue!EndJob, Queue!Updated, Queue!AttemptsKept, Queue!Claimable
<1>8. CASE Queue!Forward
  BY <1>8 DEF Queue!Forward, Queue!Landed, Queue!Event, Queue!records
<1>9. CASE Queue!Finish
  <2>1. CASE Queue!Unrecorded
    BY <1>9, <2>1 DEF Queue!Finish, Queue!EndJob, Queue!Unrecorded, Queue!records
  <2>2. CASE ~Queue!ResultWanted(cur) /\ UNCHANGED <<Queue!records, sent, ever, again, excuse, fails>>
    BY <1>9, <2>2 DEF Queue!Finish, Queue!EndJob, Queue!ResultWanted, Queue!records
  <2>3. ASSUME NEW s \in Queue!Statuses, NEW n \in {mine, mine + 1}, Settles(s, n) PROVE BackoffInv'
    BY <1>9, <2>3 DEF Queue!Finish, Queue!EndJob, Settles, Queue!Store, Queue!Updated, Queue!ResultWanted, Queue!Exhausted
  <2> QED
    BY <1>9, <2>1, <2>2, <2>3, FinishSettles DEF Queue!Finish
<1>10. CASE Queue!Progress
  BY <1>10 DEF Queue!Progress, Queue!worker, Queue!history
<1>11. CASE Queue!Reconfigure
  BY <1>11 DEF Queue!Reconfigure, Queue!Event, Queue!records, Queue!worker, Queue!history
<1>12. CASE Queue!Shutdown
  BY <1>12 DEF Queue!Shutdown, Queue!Event, Queue!records, Queue!worker, Queue!history
<1>13. CASE Queue!Crash
  <2>1. CASE wpc = "send" /\ \E o \in Queue!Attempt(JobMessage[cur]) : Queue!Landed(o, TRUE)
    BY <1>13, <2>1 DEF Queue!Crash, Queue!Leave, Queue!Landed, Queue!records
  <2>2. CASE wpc = "result" /\ runErr = "nil"
    BY <1>13, <2>2 DEF Queue!Crash, Queue!Leave, Queue!records
  <2>3. CASE wpc # "send" /\ UNCHANGED <<sent, ever, again, excuse>>
    BY <1>13, <2>3 DEF Queue!Crash, Queue!Leave, Queue!records
  <2> QED
    BY <1>13, <2>1, <2>2, <2>3 DEF Queue!Crash
<1>14. ASSUME NEW j \in Ids, Queue!EnqueueOnce(j) PROVE BackoffInv'
  BY <1>14 DEF Queue!EnqueueOnce, Queue!Event, Queue!Save, Queue!Updated, Queue!worker
<1>15. ASSUME NEW j \in Ids, Queue!EnqueueRouted(j) PROVE BackoffInv'
  <2>1. CASE UNCHANGED <<Queue!records, Queue!history>>
    BY <1>15, <2>1 DEF Queue!EnqueueRouted, Queue!worker, Queue!records, Queue!history
  <2>2. CASE status[j] = "absent" /\ Queue!Save(j) /\ wake'
    BY <1>15, <2>2 DEF Queue!EnqueueRouted, Queue!Save, Queue!Updated, Queue!worker
  <2> QED
    BY <1>15, <2>1, <2>2 DEF Queue!EnqueueRouted
<1>16. ASSUME NEW j \in Ids, Queue!Pause(j) PROVE BackoffInv'
  BY <1>16 DEF Queue!Pause, Queue!Change, Queue!Event, Queue!Updated, Queue!PauseStatus, Queue!worker, Queue!history
<1>17. ASSUME NEW j \in Ids, Queue!Resume(j) PROVE BackoffInv'
  BY <1>17 DEF Queue!Resume, Queue!Change, Queue!Event, Queue!Updated, Queue!worker
<1>18. ASSUME NEW j \in Ids, Queue!Delete(j) PROVE BackoffInv'
  BY <1>18 DEF Queue!Delete, Queue!Event, Queue!RemoveRecords, Queue!cancelIfActive
<1>19. ASSUME NEW j \in Ids, Queue!BackoffElapses(j) PROVE BackoffInv'
  BY <1>19 DEF Queue!BackoffElapses, Queue!worker, Queue!history
<1>20. ASSUME NEW j \in Ids, Queue!Expire(j) PROVE BackoffInv'
  BY <1>20 DEF Queue!Expire, Queue!Event, Queue!worker, Queue!history
<1>21. CASE UNCHANGED Queue!vars
  BY <1>21 DEF Queue!vars, Queue!records, Queue!worker, Queue!history
<1> QED
  BY <1>1, <1>2, <1>3, <1>4, <1>5, <1>6, <1>7, <1>8, <1>9, <1>10, <1>11, <1>12, <1>13,
     <1>14, <1>15, <1>16, <1>17, <1>18, <1>19, <1>20, <1>21 DEF Queue!Next, Queue!WorkerStep

(* The retry budget is inductive.                                          *)
LEMMA BudgetStep ==
    ASSUME Queue!QueueAssumption, QueueTypes, BudgetInv, [Queue!Next]_(Queue!vars)
    PROVE  BudgetInv'
<1> USE DEF QueueTypes, BudgetInv, Queue!RetryBudget, Holding
<1>1. CASE Queue!Serve
  BY <1>1 DEF Queue!Serve, Queue!records, Queue!history
<1>2. CASE Queue!RecoverRunning
  BY <1>2 DEF Queue!RecoverRunning, Queue!Requeue, Queue!NoFault, Queue!Fault, Queue!Event, Queue!Leave, Queue!history
<1>3. CASE Queue!PickNext
  <2>1. CASE Queue!RemoveRecords(Queue!Pruned, "pruned") /\ UNCHANGED failed /\ wpc' = "activate"
    BY <1>3, <2>1 DEF Queue!PickNext, Queue!RemoveRecords, Queue!Pruned, Queue!Eligible, Queue!Terminal, Queue!Fault, Queue!records
  <2>2. CASE Queue!RemoveRecords(Queue!Pruned, "pruned") /\ UNCHANGED failed /\ wpc' = "wait"
    BY <1>3, <2>2 DEF Queue!PickNext, Queue!RemoveRecords, Queue!Pruned, Queue!Eligible, Queue!Terminal, Queue!Fault, Queue!records
  <2>3. CASE Queue!Fault /\ UNCHANGED <<Queue!records, Queue!history>> /\ wpc' = "wait"
    BY <1>3, <2>3 DEF Queue!PickNext, Queue!Fault, Queue!records, Queue!history
  <2> QED
    BY <1>3, <2>1, <2>2, <2>3 DEF Queue!PickNext, Queue!NoFault
<1>4. CASE Queue!ServeEnds
  BY <1>4 DEF Queue!ServeEnds, Queue!Leave, Queue!records, Queue!history
<1>5. CASE Queue!Wait
  BY <1>5 DEF Queue!Wait, Queue!records, Queue!history
<1>6. CASE Queue!SetActive
  BY <1>6 DEF Queue!SetActive, Queue!records, Queue!history
<1>7. CASE Queue!Claim
  BY <1>7 DEF Queue!Claim, Queue!NoFault, Queue!Fault, Queue!Event, Queue!EndJob, Queue!Updated,
     Queue!AttemptsKept, Queue!Claimable
<1>8. CASE Queue!Forward
  BY <1>8 DEF Queue!Forward, Queue!Landed, Queue!Event, Queue!records
<1>9. CASE Queue!Finish
  <2>1. CASE Queue!Unrecorded
    BY <1>9, <2>1 DEF Queue!Finish, Queue!EndJob, Queue!Unrecorded, Queue!records
  <2>2. CASE ~Queue!ResultWanted(cur) /\ UNCHANGED <<Queue!records, sent, ever, again, excuse, fails>>
    BY <1>9, <2>2 DEF Queue!Finish, Queue!EndJob, Queue!ResultWanted, Queue!records
  <2>3. ASSUME NEW s \in Queue!Statuses, NEW n \in {mine, mine + 1}, Settles(s, n) PROVE BudgetInv'
    <3>1. /\ cur \in Ids /\ mine = attempts[cur] /\ mine = fails[cur] /\ wpc' = "pick"
          /\ policy \in Policies /\ policy.attempts \in Nat \ {0}
      BY <1>9, <2>3, Queue!QueueAssumption DEF Queue!QueueAssumption, Queue!Finish, Queue!EndJob, Settles, Queue!ResultWanted
    <3>2. PICK p \in Policies : mine < p.attempts
      BY <2>3, <3>1 DEF Settles, Queue!ResultWanted
    <3>3. p.attempts \in Nat
      BY Queue!QueueAssumption DEF Queue!QueueAssumption
    <3>4. /\ status' = [status EXCEPT ![cur] = s]
          /\ attempts' = [attempts EXCEPT ![cur] = n]
          /\ fails' = [fails EXCEPT ![cur] = n]
      BY <2>3, <3>1 DEF Settles, Queue!Store, Queue!Updated
    <3>5. /\ s # "absent" => s \in {"done", "queued", "error", "retrying"}
          /\ s \in {"queued", "retrying"} => \E q \in Policies : n < q.attempts
          /\ s = "error" => n >= policy.attempts
          /\ n <= p.attempts
      BY <2>3, <3>1, <3>2, <3>3 DEF Settles
    <3>6. s \notin {"running", "paused"}
      BY <2>3 DEF Settles
    <3>7. ASSUME NEW j \in Ids
          PROVE  /\ attempts'[j] = fails'[j]
                 /\ status'[j] \in {"queued", "running", "retrying", "paused"} =>
                      \E q \in Policies : fails'[j] < q.attempts
                 /\ \E q \in Policies : fails'[j] <= q.attempts
                 /\ status'[j] = "error" => \E q \in Policies : fails'[j] >= q.attempts
      BY <3>1, <3>4, <3>5, <3>6
    <3> QED
      BY <3>1, <3>7
  <2> QED
    BY <1>9, <2>1, <2>2, <2>3, FinishSettles DEF Queue!Finish
<1>10. CASE Queue!Progress
  BY <1>10 DEF Queue!Progress, Queue!worker, Queue!history
<1>11. CASE Queue!Reconfigure
  BY <1>11 DEF Queue!Reconfigure, Queue!Event, Queue!records, Queue!worker, Queue!history
<1>12. CASE Queue!Shutdown
  BY <1>12 DEF Queue!Shutdown, Queue!Event, Queue!records, Queue!worker, Queue!history
<1>13. CASE Queue!Crash
  <2>1. CASE wpc = "send" /\ \E o \in Queue!Attempt(JobMessage[cur]) : Queue!Landed(o, TRUE)
    BY <1>13, <2>1 DEF Queue!Crash, Queue!Leave, Queue!Landed, Queue!records
  <2>2. CASE wpc = "result" /\ runErr = "nil"
    BY <1>13, <2>2 DEF Queue!Crash, Queue!Leave, Queue!records
  <2>3. CASE wpc # "send" /\ UNCHANGED <<sent, ever, again, excuse>>
    BY <1>13, <2>3 DEF Queue!Crash, Queue!Leave, Queue!records
  <2> QED
    BY <1>13, <2>1, <2>2, <2>3 DEF Queue!Crash
<1>14. ASSUME NEW j \in Ids, Queue!EnqueueOnce(j) PROVE BudgetInv'
  BY <1>14, Queue!QueueAssumption DEF Queue!QueueAssumption, Queue!EnqueueOnce, Queue!Event, Queue!Save, Queue!Updated, Queue!worker
<1>15. ASSUME NEW j \in Ids, Queue!EnqueueRouted(j) PROVE BudgetInv'
  <2>1. CASE UNCHANGED <<Queue!records, Queue!history>>
    BY <1>15, <2>1 DEF Queue!EnqueueRouted, Queue!worker, Queue!records, Queue!history
  <2>2. CASE status[j] = "absent" /\ Queue!Save(j) /\ wake'
    BY <1>15, <2>2, Queue!QueueAssumption DEF Queue!QueueAssumption, Queue!EnqueueRouted, Queue!Save, Queue!Updated, Queue!worker
  <2> QED
    BY <1>15, <2>1, <2>2 DEF Queue!EnqueueRouted
<1>16. ASSUME NEW j \in Ids, Queue!Pause(j) PROVE BudgetInv'
  BY <1>16 DEF Queue!Pause, Queue!Change, Queue!Event, Queue!Updated, Queue!PauseStatus, Queue!worker, Queue!history
<1>17. ASSUME NEW j \in Ids, Queue!Resume(j) PROVE BudgetInv'
  BY <1>17, Queue!QueueAssumption DEF Queue!QueueAssumption, Queue!Resume, Queue!Change, Queue!Event, Queue!Updated, Queue!worker
<1>18. ASSUME NEW j \in Ids, Queue!Delete(j) PROVE BudgetInv'
  BY <1>18 DEF Queue!Delete, Queue!Event, Queue!RemoveRecords, Queue!cancelIfActive
<1>19. ASSUME NEW j \in Ids, Queue!BackoffElapses(j) PROVE BudgetInv'
  BY <1>19 DEF Queue!BackoffElapses, Queue!worker, Queue!history
<1>20. ASSUME NEW j \in Ids, Queue!Expire(j) PROVE BudgetInv'
  BY <1>20 DEF Queue!Expire, Queue!Event, Queue!worker, Queue!history
<1>21. CASE UNCHANGED Queue!vars
  BY <1>21 DEF Queue!vars, Queue!records, Queue!worker, Queue!history
<1> QED
  BY <1>1, <1>2, <1>3, <1>4, <1>5, <1>6, <1>7, <1>8, <1>9, <1>10, <1>11, <1>12, <1>13,
     <1>14, <1>15, <1>16, <1>17, <1>18, <1>19, <1>20, <1>21 DEF Queue!Next, Queue!WorkerStep

(* The ownership of results is inductive.                                  *)
LEMMA OwnStep ==
    ASSUME Queue!QueueAssumption, QueueTypes, OwnInv, [Queue!Next]_(Queue!vars)
    PROVE  OwnInv'
<1> USE DEF QueueTypes, OwnInv, Queue!NoForeignResult, Holding
<1>1. CASE Queue!Serve
  BY <1>1 DEF Queue!Serve, Queue!records, Queue!history
<1>2. CASE Queue!RecoverRunning
  BY <1>2 DEF Queue!RecoverRunning, Queue!Requeue, Queue!NoFault, Queue!Fault, Queue!Event, Queue!Leave, Queue!history
<1>3. CASE Queue!PickNext
  <2>1. CASE Queue!RemoveRecords(Queue!Pruned, "pruned") /\ UNCHANGED failed /\ wpc' = "activate"
    BY <1>3, <2>1 DEF Queue!PickNext, Queue!RemoveRecords, Queue!Pruned, Queue!Eligible, Queue!Terminal, Queue!Fault, Queue!records
  <2>2. CASE Queue!RemoveRecords(Queue!Pruned, "pruned") /\ UNCHANGED failed /\ wpc' = "wait"
    BY <1>3, <2>2 DEF Queue!PickNext, Queue!RemoveRecords, Queue!Pruned, Queue!Eligible, Queue!Terminal, Queue!Fault, Queue!records
  <2>3. CASE Queue!Fault /\ UNCHANGED <<Queue!records, Queue!history>> /\ wpc' = "wait"
    BY <1>3, <2>3 DEF Queue!PickNext, Queue!Fault, Queue!records, Queue!history
  <2> QED
    BY <1>3, <2>1, <2>2, <2>3 DEF Queue!PickNext, Queue!NoFault
<1>4. CASE Queue!ServeEnds
  BY <1>4 DEF Queue!ServeEnds, Queue!Leave, Queue!records, Queue!history
<1>5. CASE Queue!Wait
  BY <1>5 DEF Queue!Wait, Queue!records, Queue!history
<1>6. CASE Queue!SetActive
  BY <1>6 DEF Queue!SetActive, Queue!records, Queue!history
<1>7. CASE Queue!Claim
  BY <1>7 DEF Queue!Claim, Queue!NoFault, Queue!Fault, Queue!Event, Queue!EndJob, Queue!Updated, Queue!AttemptsKept, Queue!Claimable
<1>8. CASE Queue!Forward
  <2>1. PICK o \in Queue!Attempt(JobMessage[cur]) : runErr' = o.err /\ Queue!Landed(o, o.err # "nil")
    BY <1>8 DEF Queue!Forward
  <2>2. cur \in Ids /\ Queue!IsMessage(JobMessage[cur])
    BY <1>8, Queue!QueueAssumption DEF Queue!QueueAssumption, Queue!Forward
  <2>3. runErr' = "nil" => Queue!Complete(JobMessage[cur], o)
    BY <2>1, <2>2, SuccessIsComplete
  <2>4. /\ sent \subseteq sent'
        /\ cur \in claimed /\ runErr' = "nil" => cur \in sent'
    BY <2>1, <2>3 DEF Queue!Landed
  <2>5. UNCHANGED <<status, claimed, cur>>
    BY <1>8 DEF Queue!Forward, Queue!records
  <2> QED
    BY <2>2, <2>4, <2>5
<1>9. CASE Queue!Finish
  <2>1. CASE Queue!Unrecorded
    BY <1>9, <2>1 DEF Queue!Finish, Queue!EndJob, Queue!Unrecorded, Queue!records
  <2>2. CASE ~Queue!ResultWanted(cur) /\ UNCHANGED <<Queue!records, sent, ever, again, excuse, fails>>
    BY <1>9, <2>2 DEF Queue!Finish, Queue!EndJob, Queue!ResultWanted, Queue!records
  <2>3. ASSUME NEW s \in Queue!Statuses, NEW n \in {mine, mine + 1}, Settles(s, n) PROVE OwnInv'
    BY <1>9, <2>3 DEF Queue!Finish, Queue!EndJob, Settles, Queue!Store, Queue!Updated, Queue!ResultWanted, Queue!Exhausted
  <2> QED
    BY <1>9, <2>1, <2>2, <2>3, FinishSettles DEF Queue!Finish
<1>10. CASE Queue!Progress
  BY <1>10 DEF Queue!Progress, Queue!worker, Queue!history
<1>11. CASE Queue!Reconfigure
  BY <1>11 DEF Queue!Reconfigure, Queue!Event, Queue!records, Queue!worker, Queue!history
<1>12. CASE Queue!Shutdown
  BY <1>12 DEF Queue!Shutdown, Queue!Event, Queue!records, Queue!worker, Queue!history
<1>13. CASE Queue!Crash
  <2>1. CASE wpc = "send" /\ \E o \in Queue!Attempt(JobMessage[cur]) : Queue!Landed(o, TRUE)
    BY <1>13, <2>1 DEF Queue!Crash, Queue!Leave, Queue!Landed, Queue!records
  <2>2. CASE wpc = "result" /\ runErr = "nil"
    BY <1>13, <2>2 DEF Queue!Crash, Queue!Leave, Queue!records
  <2>3. CASE wpc # "send" /\ UNCHANGED <<sent, ever, again, excuse>>
    BY <1>13, <2>3 DEF Queue!Crash, Queue!Leave, Queue!records
  <2> QED
    BY <1>13, <2>1, <2>2, <2>3 DEF Queue!Crash
<1>14. ASSUME NEW j \in Ids, Queue!EnqueueOnce(j) PROVE OwnInv'
  BY <1>14 DEF Queue!EnqueueOnce, Queue!Event, Queue!Save, Queue!Updated, Queue!worker
<1>15. ASSUME NEW j \in Ids, Queue!EnqueueRouted(j) PROVE OwnInv'
  <2>1. CASE UNCHANGED <<Queue!records, Queue!history>>
    BY <1>15, <2>1 DEF Queue!EnqueueRouted, Queue!worker, Queue!records, Queue!history
  <2>2. CASE status[j] = "absent" /\ Queue!Save(j) /\ wake'
    BY <1>15, <2>2 DEF Queue!EnqueueRouted, Queue!Save, Queue!Updated, Queue!worker
  <2> QED
    BY <1>15, <2>1, <2>2 DEF Queue!EnqueueRouted
<1>16. ASSUME NEW j \in Ids, Queue!Pause(j) PROVE OwnInv'
  BY <1>16 DEF Queue!Pause, Queue!Change, Queue!Event, Queue!Updated, Queue!PauseStatus, Queue!worker, Queue!history
<1>17. ASSUME NEW j \in Ids, Queue!Resume(j) PROVE OwnInv'
  BY <1>17 DEF Queue!Resume, Queue!Change, Queue!Event, Queue!Updated, Queue!worker
<1>18. ASSUME NEW j \in Ids, Queue!Delete(j) PROVE OwnInv'
  BY <1>18 DEF Queue!Delete, Queue!Event, Queue!RemoveRecords, Queue!cancelIfActive
<1>19. ASSUME NEW j \in Ids, Queue!BackoffElapses(j) PROVE OwnInv'
  BY <1>19 DEF Queue!BackoffElapses, Queue!worker, Queue!history
<1>20. ASSUME NEW j \in Ids, Queue!Expire(j) PROVE OwnInv'
  BY <1>20 DEF Queue!Expire, Queue!Event, Queue!worker, Queue!history
<1>21. CASE UNCHANGED Queue!vars
  BY <1>21 DEF Queue!vars, Queue!records, Queue!worker, Queue!history
<1> QED
  BY <1>1, <1>2, <1>3, <1>4, <1>5, <1>6, <1>7, <1>8, <1>9, <1>10, <1>11, <1>12, <1>13,
     <1>14, <1>15, <1>16, <1>17, <1>18, <1>19, <1>20, <1>21 DEF Queue!Next, Queue!WorkerStep

(* What an attempt posts for the second time, or without a verdict that    *)
(* will be recorded, leaves an excuse.                                     *)
LEMMA LandedExcused ==
    ASSUME QueueTypes, DupInv, wpc = "send", NEW o, NEW unrecorded \in BOOLEAN,
           Queue!Landed(o, unrecorded)
    PROVE  /\ again' \subseteq Ids /\ ever' \subseteq Ids
           /\ \A j \in again' : excuse'[j] # {}
           /\ \A j \in Ids : excuse[j] \subseteq excuse'[j]
           /\ \A j \in ever' : excuse'[j] = {} =>
                 status[j] = "done" \/ (j = cur /\ ~unrecorded)
<1> DEFINE posted == o.posts # <<>>
           twice == Len(o.posts) > 1
           more == (IF posted /\ unrecorded THEN {"unrecorded"} ELSE {})
                     \cup (IF twice THEN {"unanswered"} ELSE {})
<1>1. cur \in Ids
  BY DEF QueueTypes, Holding
<1>2. excuse' = [excuse EXCEPT ![cur] = @ \cup more]
  BY DEF Queue!Landed
<1>3. \A j \in Ids : excuse'[j] = IF j = cur THEN excuse[cur] \cup more ELSE excuse[j]
  BY <1>1, <1>2 DEF QueueTypes
<1>4. ever' = IF posted THEN ever \cup {cur} ELSE ever
  BY DEF Queue!Landed
<1>5. again' = IF posted /\ (twice \/ cur \in ever) THEN again \cup {cur} ELSE again
  BY DEF Queue!Landed
<1>6. posted /\ unrecorded => more # {}
  OBVIOUS
<1>7. twice => more # {}
  OBVIOUS
<1> HIDE DEF posted, twice, more
<1>8. cur \in ever => excuse[cur] # {}
  BY <1>1 DEF DupInv
<1> QED
  BY <1>1, <1>3, <1>4, <1>5, <1>6, <1>7, <1>8 DEF DupInv, DuplicatesExcused

(* That every second delivery has an excuse is inductive.                  *)
LEMMA DupStep ==
    ASSUME QueueTypes, DupInv, [Queue!Next]_(Queue!vars)
    PROVE  DupInv'
<1> USE DEF QueueTypes, DupInv, DuplicatesExcused, Holding
<1>1. CASE Queue!Serve
  BY <1>1 DEF Queue!Serve, Queue!records, Queue!history
<1>2. CASE Queue!RecoverRunning
  BY <1>2 DEF Queue!RecoverRunning, Queue!Requeue, Queue!NoFault, Queue!Fault, Queue!Event, Queue!Leave, Queue!history
<1>3. CASE Queue!PickNext
  <2>1. wpc = "pick" /\ wpc' \in {"activate", "wait"}
    BY <1>3 DEF Queue!PickNext
  <2>2. CASE Queue!RemoveRecords(Queue!Pruned, "pruned")
    <3>1. PICK S : S = Queue!Pruned
      OBVIOUS
    <3>2. /\ status' = [j \in Ids |-> IF j \in S THEN "absent" ELSE status[j]]
          /\ excuse' = [j \in Ids |-> excuse[j] \cup IF j \in S THEN {"pruned"} ELSE {}]
          /\ UNCHANGED <<ever, again>>
      BY <2>2, <3>1 DEF Queue!RemoveRecords
    <3>3. \A j \in Ids : excuse[j] \subseteq excuse'[j] /\ (j \in S => excuse'[j] # {})
                         /\ (j \notin S => status'[j] = status[j])
      BY <3>2
    <3> QED
      BY <2>1, <3>2, <3>3
  <2>3. CASE UNCHANGED <<Queue!records, Queue!history>>
    BY <2>1, <2>3 DEF Queue!records, Queue!history
  <2> QED
    BY <1>3, <2>2, <2>3 DEF Queue!PickNext
<1>4. CASE Queue!ServeEnds
  BY <1>4 DEF Queue!ServeEnds, Queue!Leave, Queue!records, Queue!history
<1>5. CASE Queue!Wait
  BY <1>5 DEF Queue!Wait, Queue!records, Queue!history
<1>6. CASE Queue!SetActive
  BY <1>6 DEF Queue!SetActive, Queue!records, Queue!history
<1>7. CASE Queue!Claim
  BY <1>7 DEF Queue!Claim, Queue!NoFault, Queue!Fault, Queue!Event, Queue!EndJob, Queue!Updated, Queue!AttemptsKept, Queue!Claimable
<1>8. CASE Queue!Forward
  <2>1. PICK o \in Queue!Attempt(JobMessage[cur]) : runErr' = o.err /\ Queue!Landed(o, o.err # "nil")
    BY <1>8 DEF Queue!Forward
  <2>2. wpc = "send" /\ wpc' = "result" /\ cur' = cur /\ status' = status /\ cur \in Ids
    BY <1>8 DEF Queue!Forward, Queue!records
  <2>3. /\ again' \subseteq Ids /\ ever' \subseteq Ids
        /\ \A j \in again' : excuse'[j] # {}
        /\ \A j \in Ids : excuse[j] \subseteq excuse'[j]
        /\ \A j \in ever' : excuse'[j] = {} =>
              status[j] = "done" \/ (j = cur /\ ~(o.err # "nil"))
    <3> HIDE DEF QueueTypes, DupInv, DuplicatesExcused
    <3> QED
      BY <2>1, <2>2, LandedExcused
  <2> QED
    BY <2>1, <2>2, <2>3
<1>9. CASE Queue!Finish
  <2>1. CASE Queue!Unrecorded
    BY <1>9, <2>1 DEF Queue!Finish, Queue!EndJob, Queue!Unrecorded, Queue!records
  <2>2. CASE ~Queue!ResultWanted(cur) /\ UNCHANGED <<Queue!records, sent, ever, again, excuse, fails>>
    BY <1>9, <2>2 DEF Queue!Finish, Queue!EndJob, Queue!ResultWanted, Queue!records
  <2>3. ASSUME NEW s \in Queue!Statuses, NEW n \in {mine, mine + 1}, Settles(s, n) PROVE DupInv'
    BY <1>9, <2>3 DEF Queue!Finish, Queue!EndJob, Settles, Queue!Store, Queue!Updated, Queue!ResultWanted, Queue!Exhausted
  <2> QED
    BY <1>9, <2>1, <2>2, <2>3, FinishSettles DEF Queue!Finish
<1>10. CASE Queue!Progress
  BY <1>10 DEF Queue!Progress, Queue!worker, Queue!history
<1>11. CASE Queue!Reconfigure
  BY <1>11 DEF Queue!Reconfigure, Queue!Event, Queue!records, Queue!worker, Queue!history
<1>12. CASE Queue!Shutdown
  BY <1>12 DEF Queue!Shutdown, Queue!Event, Queue!records, Queue!worker, Queue!history
<1>13. CASE Queue!Crash
  <2>1. CASE wpc = "send" /\ \E o \in Queue!Attempt(JobMessage[cur]) : Queue!Landed(o, TRUE)
    <3>1. PICK o : Queue!Landed(o, TRUE)
      BY <2>1
    <3>2. wpc' = "down" /\ status' = status
      BY <1>13 DEF Queue!Crash, Queue!Leave, Queue!records
    <3>3. /\ again' \subseteq Ids /\ ever' \subseteq Ids
          /\ \A j \in again' : excuse'[j] # {}
          /\ \A j \in Ids : excuse[j] \subseteq excuse'[j]
          /\ \A j \in ever' : excuse'[j] = {} => status[j] = "done"
      <4> HIDE DEF QueueTypes, DupInv, DuplicatesExcused
      <4> QED
        BY <2>1, <3>1, LandedExcused
    <3> QED
      BY <3>2, <3>3
  <2>2. CASE wpc = "result" /\ runErr = "nil"
    BY <1>13, <2>2 DEF Queue!Crash, Queue!Leave, Queue!records
  <2>3. CASE wpc # "send" /\ UNCHANGED <<sent, ever, again, excuse>>
    BY <1>13, <2>3 DEF Queue!Crash, Queue!Leave, Queue!records
  <2> QED
    BY <1>13, <2>1, <2>2, <2>3 DEF Queue!Crash
<1>14. ASSUME NEW j \in Ids, Queue!EnqueueOnce(j) PROVE DupInv'
  BY <1>14 DEF Queue!EnqueueOnce, Queue!Event, Queue!Save, Queue!Updated, Queue!worker
<1>15. ASSUME NEW j \in Ids, Queue!EnqueueRouted(j) PROVE DupInv'
  <2>1. CASE UNCHANGED <<Queue!records, Queue!history>>
    BY <1>15, <2>1 DEF Queue!EnqueueRouted, Queue!worker, Queue!records, Queue!history
  <2>2. CASE status[j] = "absent" /\ Queue!Save(j) /\ wake'
    BY <1>15, <2>2 DEF Queue!EnqueueRouted, Queue!Save, Queue!Updated, Queue!worker
  <2> QED
    BY <1>15, <2>1, <2>2 DEF Queue!EnqueueRouted
<1>16. ASSUME NEW j \in Ids, Queue!Pause(j) PROVE DupInv'
  BY <1>16 DEF Queue!Pause, Queue!Change, Queue!Event, Queue!Updated, Queue!PauseStatus, Queue!worker, Queue!history
<1>17. ASSUME NEW j \in Ids, Queue!Resume(j) PROVE DupInv'
  BY <1>17 DEF Queue!Resume, Queue!Change, Queue!Event, Queue!Updated, Queue!worker
<1>18. ASSUME NEW j \in Ids, Queue!Delete(j) PROVE DupInv'
  BY <1>18 DEF Queue!Delete, Queue!Event, Queue!RemoveRecords, Queue!cancelIfActive
<1>19. ASSUME NEW j \in Ids, Queue!BackoffElapses(j) PROVE DupInv'
  BY <1>19 DEF Queue!BackoffElapses, Queue!worker, Queue!history
<1>20. ASSUME NEW j \in Ids, Queue!Expire(j) PROVE DupInv'
  BY <1>20 DEF Queue!Expire, Queue!Event, Queue!worker, Queue!history
<1>21. CASE UNCHANGED Queue!vars
  BY <1>21 DEF Queue!vars, Queue!records, Queue!worker, Queue!history
<1> QED
  BY <1>1, <1>2, <1>3, <1>4, <1>5, <1>6, <1>7, <1>8, <1>9, <1>10, <1>11, <1>12, <1>13,
     <1>14, <1>15, <1>16, <1>17, <1>18, <1>19, <1>20, <1>21 DEF Queue!Next, Queue!WorkerStep

(* That the worker tracks the store is inductive once nothing queued waits.*)
LEMMA TracksStep ==
    ASSUME QueueTypes, BackoffInv, WorkerTracksStore, [Queue!Next]_(Queue!vars)
    PROVE  WorkerTracksStore'
<1> USE DEF QueueTypes, BackoffInv, WorkerTracksStore, Queue!RunningHasRunner, Queue!PromptPickup, Holding
<1>1. CASE Queue!Serve
  BY <1>1 DEF Queue!Serve, Queue!records, Queue!history
<1>2. CASE Queue!RecoverRunning
  BY <1>2 DEF Queue!RecoverRunning, Queue!Requeue, Queue!NoFault, Queue!Fault, Queue!Event, Queue!Leave, Queue!history
<1>3. CASE Queue!PickNext
  <2>1. CASE Queue!RemoveRecords(Queue!Pruned, "pruned") /\ UNCHANGED failed /\ wpc' = "activate"
    BY <1>3, <2>1 DEF Queue!PickNext, Queue!RemoveRecords, Queue!Pruned, Queue!Eligible, Queue!Terminal, Queue!Fault, Queue!records
  <2>2. CASE Queue!RemoveRecords(Queue!Pruned, "pruned") /\ UNCHANGED failed /\ wpc' = "wait"
    BY <1>3, <2>2 DEF Queue!PickNext, Queue!RemoveRecords, Queue!Pruned, Queue!Eligible, Queue!Terminal, Queue!Fault, Queue!records
  <2>3. CASE Queue!Fault /\ UNCHANGED <<Queue!records, Queue!history>> /\ wpc' = "wait"
    BY <1>3, <2>3 DEF Queue!PickNext, Queue!Fault, Queue!records, Queue!history
  <2> QED
    BY <1>3, <2>1, <2>2, <2>3 DEF Queue!PickNext, Queue!NoFault
<1>4. CASE Queue!ServeEnds
  BY <1>4 DEF Queue!ServeEnds, Queue!Leave, Queue!records, Queue!history
<1>5. CASE Queue!Wait
  BY <1>5 DEF Queue!Wait, Queue!records, Queue!history
<1>6. CASE Queue!SetActive
  BY <1>6 DEF Queue!SetActive, Queue!records, Queue!history
<1>7. CASE Queue!Claim
  BY <1>7 DEF Queue!Claim, Queue!NoFault, Queue!Fault, Queue!Event, Queue!EndJob, Queue!Updated, Queue!AttemptsKept, Queue!Claimable
<1>8. CASE Queue!Forward
  BY <1>8 DEF Queue!Forward, Queue!Landed, Queue!Event, Queue!records
<1>9. CASE Queue!Finish
  <2>1. (failed => failed') /\ serveDone' = serveDone /\ wpc = "result" /\ wpc' = "pick"
    BY <1>9 DEF Queue!Finish, Queue!NoFault, Queue!Fault, Queue!EndJob
  <2>2. CASE Queue!Unrecorded /\ (serveDone \/ failed')
    BY <2>1, <2>2 DEF Queue!Unrecorded, Queue!records
  <2>3. CASE ~Queue!ResultWanted(cur) /\ UNCHANGED <<Queue!records, sent, ever, again, excuse, fails>>
    BY <2>1, <2>3 DEF Queue!ResultWanted, Queue!records
  <2>4. ASSUME NEW s \in Queue!Statuses, NEW n \in {mine, mine + 1}, Settles(s, n)
        PROVE  WorkerTracksStore'
    <3>1. status' = [status EXCEPT ![cur] = s] /\ s # "running" /\ ~serveDone
      BY <2>4 DEF Settles, Queue!Store, Queue!Updated
    <3> QED
      BY <2>1, <3>1
  <2> QED
    BY <1>9, <2>2, <2>3, <2>4, FinishSettles
<1>10. CASE Queue!Progress
  BY <1>10 DEF Queue!Progress, Queue!worker, Queue!history
<1>11. CASE Queue!Reconfigure
  BY <1>11 DEF Queue!Reconfigure, Queue!Event, Queue!records, Queue!worker, Queue!history
<1>12. CASE Queue!Shutdown
  BY <1>12 DEF Queue!Shutdown, Queue!Event, Queue!records, Queue!worker, Queue!history
<1>13. CASE Queue!Crash
  <2>1. CASE wpc = "send" /\ \E o \in Queue!Attempt(JobMessage[cur]) : Queue!Landed(o, TRUE)
    BY <1>13, <2>1 DEF Queue!Crash, Queue!Leave, Queue!Landed, Queue!records
  <2>2. CASE wpc = "result" /\ runErr = "nil"
    BY <1>13, <2>2 DEF Queue!Crash, Queue!Leave, Queue!records
  <2>3. CASE wpc # "send" /\ UNCHANGED <<sent, ever, again, excuse>>
    BY <1>13, <2>3 DEF Queue!Crash, Queue!Leave, Queue!records
  <2> QED
    BY <1>13, <2>1, <2>2, <2>3 DEF Queue!Crash
<1>14. ASSUME NEW j \in Ids, Queue!EnqueueOnce(j) PROVE WorkerTracksStore'
  BY <1>14 DEF Queue!EnqueueOnce, Queue!Event, Queue!Save, Queue!Updated, Queue!worker
<1>15. ASSUME NEW j \in Ids, Queue!EnqueueRouted(j) PROVE WorkerTracksStore'
  <2>1. CASE UNCHANGED <<Queue!records, Queue!history>>
    BY <1>15, <2>1 DEF Queue!EnqueueRouted, Queue!worker, Queue!records, Queue!history
  <2>2. CASE status[j] = "absent" /\ Queue!Save(j) /\ wake'
    BY <1>15, <2>2 DEF Queue!EnqueueRouted, Queue!Save, Queue!Updated, Queue!worker
  <2> QED
    BY <1>15, <2>1, <2>2 DEF Queue!EnqueueRouted
<1>16. ASSUME NEW j \in Ids, Queue!Pause(j) PROVE WorkerTracksStore'
  BY <1>16 DEF Queue!Pause, Queue!Change, Queue!Event, Queue!Updated, Queue!PauseStatus, Queue!worker, Queue!history
<1>17. ASSUME NEW j \in Ids, Queue!Resume(j) PROVE WorkerTracksStore'
  BY <1>17 DEF Queue!Resume, Queue!Change, Queue!Event, Queue!Updated, Queue!worker
<1>18. ASSUME NEW j \in Ids, Queue!Delete(j) PROVE WorkerTracksStore'
  BY <1>18 DEF Queue!Delete, Queue!Event, Queue!RemoveRecords, Queue!cancelIfActive
<1>19. ASSUME NEW j \in Ids, Queue!BackoffElapses(j) PROVE WorkerTracksStore'
  BY <1>19 DEF Queue!BackoffElapses, Queue!worker, Queue!history
<1>20. ASSUME NEW j \in Ids, Queue!Expire(j) PROVE WorkerTracksStore'
  BY <1>20 DEF Queue!Expire, Queue!Event, Queue!worker, Queue!history
<1>21. CASE UNCHANGED Queue!vars
  BY <1>21 DEF Queue!vars, Queue!records, Queue!worker, Queue!history
<1> QED
  BY <1>1, <1>2, <1>3, <1>4, <1>5, <1>6, <1>7, <1>8, <1>9, <1>10, <1>11, <1>12, <1>13,
     <1>14, <1>15, <1>16, <1>17, <1>18, <1>19, <1>20, <1>21 DEF Queue!Next, Queue!WorkerStep

(* A step that moves the worker leaves a paused record paused: it requeues *)
(* running records, prunes terminal ones, claims queued or retrying ones   *)
(* and stores a verdict over a running one.                                *)
LEMMA PausedKept ==
    ASSUME QueueTypes, Queue!Next, wpc' # wpc, NEW j \in Ids, status[j] = "paused"
    PROVE  status'[j] = "paused"
<1> USE DEF QueueTypes, Holding
<1>1. CASE \/ Queue!Serve \/ Queue!ServeEnds \/ Queue!Wait \/ Queue!SetActive \/ Queue!Forward \/ Queue!Crash
  BY <1>1 DEF Queue!Serve, Queue!ServeEnds, Queue!Wait, Queue!SetActive, Queue!Forward, Queue!Crash, Queue!records
<1>2. CASE Queue!RecoverRunning
  BY <1>2 DEF Queue!RecoverRunning, Queue!Requeue
<1>3. CASE Queue!PickNext
  BY <1>3 DEF Queue!PickNext, Queue!RemoveRecords, Queue!Pruned, Queue!Terminal, Queue!records
<1>4. CASE Queue!Claim
  BY <1>4 DEF Queue!Claim, Queue!Claimable, Queue!Updated
<1>5. CASE Queue!Finish
  <2>1. CASE UNCHANGED Queue!records
    BY <2>1 DEF Queue!records
  <2>2. ASSUME NEW s, NEW n, Settles(s, n) PROVE status'[j] = "paused"
    BY <1>5, <2>2 DEF Queue!Finish, Settles, Queue!Store, Queue!Updated, Queue!ResultWanted
  <2> QED
    BY <1>5, <2>1, <2>2, FinishSettles DEF Queue!Unrecorded
<1>6. CASE Queue!Progress \/ Queue!Reconfigure \/ Queue!Shutdown
  BY <1>6 DEF Queue!Progress, Queue!Reconfigure, Queue!Shutdown, Queue!worker
<1>7. ASSUME NEW i \in Ids,
             \/ Queue!EnqueueOnce(i) \/ Queue!EnqueueRouted(i) \/ Queue!Pause(i) \/ Queue!Resume(i) \/ Queue!Delete(i)
             \/ Queue!BackoffElapses(i) \/ Queue!Expire(i)
      PROVE  FALSE
  BY <1>7 DEF Queue!EnqueueOnce, Queue!EnqueueRouted, Queue!Pause, Queue!Resume, Queue!Delete, Queue!BackoffElapses, Queue!Expire, Queue!worker
<1> QED
  BY <1>1, <1>2, <1>3, <1>4, <1>5, <1>6, <1>7 DEF Queue!Next, Queue!WorkerStep

-----------------------------------------------------------------------------
(* The theorems *)

(* The invariants hold before anything is enqueued.                        *)
LEMMA InitInv ==
    ASSUME Queue!QueueAssumption, Queue!Init
    PROVE  QueueTypes /\ BackoffInv /\ BudgetInv /\ OwnInv /\ DupInv /\ WorkerTracksStore
<1>1. policy.attempts \in Nat \ {0} /\ policy \in Policies
  BY Queue!QueueAssumption DEF Queue!QueueAssumption, Queue!Init
<1>2. QueueTypes
  BY DEF Queue!Init, QueueTypes, Queue!Statuses, Queue!WorkerStates, Holding
<1>3. BudgetInv
  <2>1. \E p \in Policies : 0 <= p.attempts
    BY <1>1
  <2> QED
    BY <2>1 DEF Queue!Init, BudgetInv, Queue!RetryBudget
<1> QED
  BY <1>2, <1>3 DEF Queue!Init, BackoffInv, OwnInv, Queue!NoForeignResult, DupInv, DuplicatesExcused,
     WorkerTracksStore, Queue!RunningHasRunner, Queue!PromptPickup

(* Every reachable state has the types, and in every state in which the    *)
(* worker is past pickNext it has a job of the store in its hands.         *)
THEOREM QueueTyped == QueueSpec => []QueueTypes
<1>1. Queue!Init => QueueTypes
  BY JobsAssumption, InitInv
<1>2. QueueTypes /\ [Queue!Next]_(Queue!vars) => QueueTypes'
  BY JobsAssumption, TypesStep
<1> QED
  BY <1>1, <1>2, JobsAssumption, PTL DEF QueueSpec, Queue!Spec

(* No record is stranded in running and no queued job waits for the poll   *)
(* interval, for any number of shutdowns, crashes and controls between any *)
(* two steps of the worker (Serve, recoverRunning, pickNext, runJob).      *)
THEOREM QueueTracksStore == QueueSpec => []WorkerTracksStore
<1>1. Queue!Init => BackoffInv /\ WorkerTracksStore
  BY JobsAssumption, InitInv
<1>2. /\ QueueTypes /\ BackoffInv /\ WorkerTracksStore /\ [Queue!Next]_(Queue!vars)
      => (BackoffInv /\ WorkerTracksStore)'
  BY JobsAssumption, BackoffStep, TracksStep
<1> QED
  BY <1>1, <1>2, QueueTyped, JobsAssumption, PTL DEF QueueSpec, Queue!Spec

(* What a record says of its attempts is true for any messages, policies   *)
(* and changes of policy: the result stored over it is that of its own     *)
(* attempt, a job shown as done has posted all that travels by reference,  *)
(* and the failed attempts stay within max_attempts (runJob).              *)
THEOREM QueueRecordsTrue == QueueSpec => []RecordsTrue
<1>1. Queue!Init => BudgetInv /\ OwnInv
  BY JobsAssumption, InitInv
<1>2. QueueTypes /\ BudgetInv /\ OwnInv /\ [Queue!Next]_(Queue!vars) => (BudgetInv /\ OwnInv)'
  BY JobsAssumption, BudgetStep, OwnStep
<1>3. BudgetInv /\ OwnInv => RecordsTrue
  BY DEF BudgetInv, OwnInv, RecordsTrue
<1> QED
  BY <1>1, <1>2, <1>3, QueueTyped, JobsAssumption, PTL DEF QueueSpec, Queue!Spec

(* A message is delivered twice only when the first delivery was           *)
(* unanswered, could not be recorded, or its record was deleted or pruned. *)
THEOREM QueueDuplicatesExcused == QueueSpec => []DuplicatesExcused
<1>1. Queue!Init => DupInv
  BY JobsAssumption, InitInv
<1>2. QueueTypes /\ DupInv /\ [Queue!Next]_(Queue!vars) => DupInv'
  BY JobsAssumption, DupStep
<1>3. DupInv => DuplicatesExcused
  BY DEF DupInv
<1> QED
  BY <1>1, <1>2, <1>3, QueueTyped, JobsAssumption, PTL DEF QueueSpec, Queue!Spec

(* No step of the worker moves a paused record, also when it had picked    *)
(* the job before the pause (the recheck in runJob's claim).               *)
THEOREM QueuePauseHolds == QueueSpec => Queue!PauseHolds
<1>1. QueueTypes /\ [Queue!Next]_(Queue!vars) =>
        [\A j \in Ids : status[j] = "paused" /\ wpc' # wpc => status'[j] = "paused"]_(Queue!vars)
  BY JobsAssumption, PausedKept DEF Queue!vars
<1> QED
  BY <1>1, QueueTyped, JobsAssumption, PTL DEF QueueSpec, Queue!Spec, Queue!PauseHolds
=============================================================================
