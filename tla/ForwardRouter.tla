--------------------------- MODULE ForwardRouter ---------------------------
(***************************************************************************)
(* MessageRouter of application/forwarder/message_router.go: each call of  *)
(* SubmitMessage chooses the destinations of one message and hands them to *)
(* the queue, while Stop closes the router and drains the calls inside.    *)
(*                                                                         *)
(* A message takes the rule route (destinations with a durable identity in *)
(* the queue) or the default route, whose duplicates are suppressed by     *)
(* claims that live for dedupe_ttl_seconds.  An automatic message without  *)
(* a rule is routed only if its source is listened to.  The entries of the *)
(* listening list and the default target are resolved through a cache that *)
(* peerMu guards.  mu, claimMu and the queue's own locks make single       *)
(* steps; peerMu is held across the network lookup.                        *)
(***************************************************************************)
EXTENDS Naturals, FiniteSets, Sequences

CONSTANTS
    Calls,        \* calls of SubmitMessage and of Interested
    Messages,     \* message (or album) identities
    Submissions,  \* what the calls may be for: a message and a kind of each
    ByRule,       \* the messages whose source has forward rules
    Listening,    \* the configured sources: the messages that each one is
                  \* the source of, itself or by its linked discussion
    Targets,      \* destinations of the rules
    MaxFaults,    \* bound: failing lookups, settings and saves
    MaxExpiry,    \* bound: expiries of the claim of a message
    MaxLapses,    \* bound: expiries of cached lookups
    None

(* A message picked by hand, one that the watcher forwards by itself, one  *)
(* that the account sent, and the watcher's question (Interested) if it    *)
(* would be forwarded.                                                     *)
Kinds == {"manual", "automatic", "outgoing", "ask"}

ASSUME RouterAssumption ==
    /\ IsFiniteSet(Calls) /\ None \notin Calls
    /\ Submissions \subseteq [message : [Calls -> Messages], kind : [Calls -> Kinds]]
    /\ ByRule \subseteq Messages
    /\ Listening \in Seq([parent : SUBSET Messages, linked : SUBSET Messages])
    /\ MaxFaults \in Nat /\ MaxExpiry \in Nat /\ MaxLapses \in Nat

VARIABLES
    message,   \* the message a call is for
    kind,      \* what the call is
    closed,    \* MessageRouter.closed
    active,    \* MessageRouter.active
    drained,   \* how often the channel drained was closed
    stopped,   \* Stop has returned nil
    pc,        \* where a call is in SubmitMessage
    canceled,  \* calls whose derived context is cancelled
    todo,      \* destinations a call has still to hand over
    errs,      \* calls whose joined result is an error
    want,      \* what a call resolves: a position of Listening, 0 for the target
    lost,      \* calls with a failed lookup of a listening entry
    peerMu,    \* the call that holds peerMu
    cache,     \* the cached lookups
    lapses,    \* number of expiries of cached lookups
    claims,    \* MessageRouter.claims: the owner of a claim, and if accepted
    routed,    \* routed identities in the queue
    queued,    \* number of default-route jobs stored per message
    faults,    \* number of faults so far
    expiries   \* number of expiries of its claim, per message

input == <<message, kind>>
walk == <<want, lost>>
life == <<closed, active, drained, stopped>>
peerVars == <<peerMu, cache, lapses>>
store == <<claims, routed, queued>>
vars == <<input, life, pc, canceled, todo, errs, walk, peerVars, store, faults, expiries>>

Stages == {"idle", "route", "resolve", "lookup", "rule", "claim", "wait", "save", "settle",
           "leave", "done"}
Keys == 0..Len(Listening)
Answers == {"none", "ok", "partial", "error"}
NoClaim == [owner |-> None, accepted |-> FALSE, ok |-> FALSE]

TypeOK ==
    /\ message \in [Calls -> Messages] /\ kind \in [Calls -> Kinds]
    /\ closed \in BOOLEAN /\ active \in 0..Cardinality(Calls) /\ drained \in Nat /\ stopped \in BOOLEAN
    /\ pc \in [Calls -> Stages]
    /\ canceled \subseteq Calls /\ errs \subseteq Calls
    /\ todo \in [Calls -> SUBSET Targets]
    /\ want \in [Calls -> Keys] /\ lost \subseteq Calls
    /\ peerMu \in Calls \cup {None} /\ cache \in [Keys -> Answers] /\ lapses \in 0..MaxLapses
    /\ claims \in [Messages -> [owner : Calls \cup {None}, accepted : BOOLEAN, ok : BOOLEAN]]
    /\ routed \subseteq (Messages \X Targets)
    /\ queued \in [Messages -> Nat] /\ expiries \in [Messages -> Nat]
    /\ faults \in 0..MaxFaults

Init ==
    /\ \E s \in Submissions : message = s.message /\ kind = s.kind
    /\ closed = FALSE /\ active = 0 /\ drained = 0 /\ stopped = FALSE
    /\ pc = [c \in Calls |-> "idle"]
    /\ canceled = {} /\ errs = {}
    /\ todo = [c \in Calls |-> {}]
    /\ want = [c \in Calls |-> 0] /\ lost = {}
    /\ peerMu = None /\ cache = [k \in Keys |-> "none"] /\ lapses = 0
    /\ claims = [k \in Messages |-> NoClaim]
    /\ routed = {} /\ queued = [k \in Messages |-> 0]
    /\ faults = 0 /\ expiries = [k \in Messages |-> 0]

Go(c, stage) == pc' = [pc EXCEPT ![c] = stage]
Fails(c) == errs' = errs \cup {c} /\ Go(c, "leave")
Fault == faults < MaxFaults /\ faults' = faults + 1

-----------------------------------------------------------------------------
BeginAlways(c) ==
    /\ pc[c] = "idle"
    /\ active' = active + 1 /\ Go(c, "route") /\ UNCHANGED errs
    /\ UNCHANGED <<closed, drained, stopped, canceled, todo, walk, peerVars, store, faults,
                   expiries>>

(* begin: a closed router admits nobody.                                   *)
Begin(c) ==
    /\ pc[c] = "idle"
    /\ IF closed
       THEN errs' = errs \cup {c} /\ Go(c, "done") /\ UNCHANGED active
       ELSE active' = active + 1 /\ Go(c, "route") /\ UNCHANGED errs
    /\ UNCHANGED <<closed, drained, stopped, canceled, todo, walk, peerVars, store, faults,
                   expiries>>

(* The last call out of a closed router closes the channel.                *)
DrainedByLast == IF closed /\ active = 1 THEN drained + 1 ELSE drained

(* The done function of begin, deferred by every call.                     *)
Leave(c) ==
    /\ pc[c] = "leave"
    /\ Go(c, "done")
    /\ active' = active - 1
    /\ drained' = DrainedByLast
    /\ UNCHANGED <<closed, stopped, canceled, todo, errs, walk, peerVars, store, faults, expiries>>

DrainedTwice == drained + 1
DrainedByStop == IF active = 0 THEN drained + 1 ELSE drained

(* Stop: close once, cancel everything inside.                             *)
Stop ==
    /\ ~closed
    /\ closed' = TRUE
    /\ drained' = DrainedByStop
    /\ UNCHANGED <<active, stopped, pc, canceled, todo, errs, walk, peerVars, store, faults,
                   expiries>>

StopReturns ==
    /\ closed /\ ~stopped /\ drained > 0
    /\ stopped' = TRUE
    /\ UNCHANGED <<closed, active, drained, pc, canceled, todo, errs, walk, peerVars, store, faults,
                   expiries>>

(* The caller gives up, or context.AfterFunc passes Stop on to the call.   *)
Cancel(c) ==
    /\ pc[c] \notin {"idle", "done"} /\ c \notin canceled
    /\ canceled' = canceled \cup {c}
    /\ UNCHANGED <<life, pc, todo, errs, walk, peerVars, store, faults, expiries>>

-----------------------------------------------------------------------------
(* destinations and listens *)

Automatic(c) == kind[c] \in {"automatic", "ask"}

(* The walk of listens goes on at entry e, or ends: a source that no entry *)
(* matched is not listened to, unless an entry could not be resolved.      *)
Walk(c, e, failed) ==
    \/ /\ e <= Len(Listening)
       /\ want' = [want EXCEPT ![c] = e]
       /\ Go(c, "resolve") /\ UNCHANGED errs
    \/ e > Len(Listening) /\ failed /\ Fails(c) /\ UNCHANGED want
    \/ e > Len(Listening) /\ ~failed /\ Go(c, "leave") /\ UNCHANGED <<want, errs>>

(* SubmitMessage up to its destinations: nothing for what the account sent *)
(* itself, rules first for an automatic message, else the default target,  *)
(* for an automatic message after a look at the listening list.  Interested*)
(* stops at the destinations.                                              *)
Route(c) ==
    /\ pc[c] = "route"
    /\ \/ c \in canceled /\ Fails(c) /\ UNCHANGED <<todo, want, faults>>
       \/ /\ c \notin canceled /\ kind[c] = "outgoing"
          /\ Go(c, "leave") /\ UNCHANGED <<todo, errs, want, faults>>
       \/ /\ c \notin canceled /\ kind[c] = "automatic" /\ message[c] \in ByRule
          /\ todo' = [todo EXCEPT ![c] = Targets]
          /\ Go(c, "rule") /\ UNCHANGED <<errs, want, faults>>
       \/ /\ c \notin canceled /\ kind[c] = "ask" /\ message[c] \in ByRule
          /\ Go(c, "leave") /\ UNCHANGED <<todo, errs, want, faults>>
       \/ /\ c \notin canceled /\ Automatic(c) /\ message[c] \notin ByRule
          /\ \/ Walk(c, 1, FALSE) /\ UNCHANGED faults
             \/ Fault /\ Fails(c) /\ UNCHANGED want
          /\ UNCHANGED todo
       \/ /\ c \notin canceled /\ kind[c] = "manual"
          /\ Go(c, "resolve") /\ UNCHANGED <<todo, errs, want, faults>>
    /\ UNCHANGED <<life, canceled, lost, peerVars, store, expiries>>

(* Without queue, or with a mode that is neither default nor clone, there  *)
(* is no default target to resolve.                                        *)
PolicyInvalid(c) ==
    /\ pc[c] = "resolve" /\ want[c] = 0
    /\ Fault /\ Fails(c)
    /\ UNCHANGED <<life, canceled, todo, walk, peerVars, store, expiries>>

(* An entry is the source of the message.  A channel whose discussion      *)
(* could not be looked up still matches as itself.                         *)
Matches(c, found) ==
    \/ found \in {"ok", "partial"} /\ message[c] \in Listening[want[c]].parent
    \/ found = "ok" /\ message[c] \in Listening[want[c]].linked

(* What a call does with the answer of resolve.                            *)
Resolved(c, found) ==
    \/ /\ want[c] = 0 /\ found = "ok"
       /\ Go(c, IF kind[c] = "ask" THEN "leave" ELSE "claim") /\ UNCHANGED <<errs, walk>>
    \/ want[c] = 0 /\ found # "ok" /\ Fails(c) /\ UNCHANGED walk
    \/ /\ want[c] # 0 /\ Matches(c, found)
       /\ want' = [want EXCEPT ![c] = 0]
       /\ Go(c, "resolve") /\ UNCHANGED <<errs, lost>>
    \/ /\ want[c] # 0 /\ ~Matches(c, found)
       /\ lost' = IF found = "ok" THEN lost ELSE lost \cup {c}
       /\ Walk(c, want[c] + 1, c \in lost')

(* resolve: peerMu, then the caller's context, the cache and the network.  *)
Resolve(c) ==
    LET known == IF c \in canceled THEN "error" ELSE cache[want[c]]
    IN /\ pc[c] = "resolve" /\ peerMu = None
       /\ \/ known # "none" /\ Resolved(c, known) /\ UNCHANGED peerMu
          \/ known = "none" /\ peerMu' = c /\ Go(c, "lookup") /\ UNCHANGED <<errs, walk>>
       /\ UNCHANGED <<life, canceled, todo, cache, lapses, store, faults, expiries>>

(* A lookup that the caller's own cancellation ended says nothing of the   *)
(* peer and is not cached.                                                 *)
LookupReturns(c) ==
    /\ pc[c] = "lookup"
    /\ peerMu' = None
    /\ \E found \in {"ok", "partial", "error"} :
         /\ \/ c \in canceled /\ found = "error" /\ UNCHANGED <<cache, faults>>
            \/ /\ c \notin canceled /\ (found = "partial" => want[c] # 0)
               /\ cache' = [cache EXCEPT ![want[c]] = found]
               /\ IF found = "ok" THEN UNCHANGED faults ELSE Fault
         /\ Resolved(c, found)
    /\ UNCHANGED <<life, canceled, todo, lapses, store, expiries>>

-----------------------------------------------------------------------------
(* SubmitMessage and enqueueDefault *)

(* One destination of a rule: EnqueueRouted keeps one record per identity; *)
(* a failed destination does not stop the others, a cancellation does.     *)
EnqueueRule(c) ==
    /\ pc[c] = "rule"
    /\ \/ todo[c] = {} /\ Go(c, "leave") /\ UNCHANGED <<todo, errs, routed, faults>>
       \/ /\ todo[c] # {} /\ c \in canceled /\ Fails(c)
          /\ UNCHANGED <<todo, routed, faults>>
       \/ \E t \in todo[c] :
            /\ c \notin canceled
            /\ todo' = [todo EXCEPT ![c] = @ \ {t}]
            /\ \/ routed' = routed \cup {<<message[c], t>>} /\ UNCHANGED <<errs, faults>>
               \/ Fault /\ errs' = errs \cup {c} /\ UNCHANGED routed
            /\ UNCHANGED pc
    /\ UNCHANGED <<life, canceled, walk, peerVars, claims, queued, expiries>>

AcceptedBlindly(k) == claims[k].owner # None
Accepted(k) == claims[k].accepted

(* enqueueDefault: an accepted claim ends the call, a pending one is       *)
(* waited for, and otherwise the call makes the claim its own.             *)
ClaimMessage(c) ==
    LET k == message[c]
    IN /\ pc[c] = "claim"
       /\ \/ c \in canceled /\ Fails(c) /\ UNCHANGED claims
          \/ c \notin canceled /\ Accepted(k) /\ Go(c, "leave") /\ UNCHANGED <<errs, claims>>
          \/ /\ c \notin canceled /\ ~Accepted(k) /\ claims[k].owner # None
             /\ Go(c, "wait") /\ UNCHANGED <<errs, claims>>
          \/ /\ c \notin canceled /\ claims[k].owner = None
             /\ claims' = [claims EXCEPT ![k] = [NoClaim EXCEPT !.owner = c]]
             /\ Go(c, "save") /\ UNCHANGED errs
       /\ UNCHANGED <<life, canceled, todo, walk, peerVars, routed, queued, faults, expiries>>

(* A waiting call gives up on its own cancellation only.                   *)
WaitCanceled(c) ==
    /\ pc[c] = "wait" /\ c \in canceled
    /\ Fails(c)
    /\ UNCHANGED <<life, canceled, todo, walk, peerVars, store, faults, expiries>>

(* queue.enqueueMessage: Save fails with the context or with the storage.  *)
SaveMessage(c) ==
    LET k == message[c]
    IN /\ pc[c] = "save"
       /\ Go(c, "settle")
       /\ \/ /\ c \notin canceled
             /\ queued' = [queued EXCEPT ![k] = @ + 1]
             /\ claims' = [claims EXCEPT ![k].ok = TRUE] /\ UNCHANGED <<errs, faults>>
          \/ /\ c \in canceled /\ errs' = errs \cup {c} /\ UNCHANGED <<queued, claims, faults>>
          \/ /\ c \notin canceled /\ Fault /\ errs' = errs \cup {c}
             /\ UNCHANGED <<queued, claims>>
       /\ UNCHANGED <<life, canceled, todo, walk, peerVars, routed, expiries>>

(* A claim that stored its job is accepted for the TTL, a failed one goes. *)
ClaimSettled(k) == IF claims[k].ok THEN [claims[k] EXCEPT !.accepted = TRUE] ELSE NoClaim

NobodyWoken(c, k) == [pc EXCEPT ![c] = "leave"]
(* close(claim.done): the calls that wait on this claim look again.        *)
Woken(c, k) == [d \in Calls |-> IF d = c THEN "leave"
                                ELSE IF pc[d] = "wait" /\ message[d] = k THEN "claim"
                                ELSE pc[d]]

Settle(c) ==
    LET k == message[c]
    IN /\ pc[c] = "settle"
       /\ claims' = [claims EXCEPT ![k] = ClaimSettled(k)]
       /\ pc' = Woken(c, k)
       /\ UNCHANGED <<life, canceled, todo, errs, walk, peerVars, routed, queued, faults, expiries>>

(* dedupe_ttl_seconds pass; the next caller sweeps the claim.              *)
ClaimExpires(k) ==
    /\ claims[k].accepted /\ expiries[k] < MaxExpiry
    /\ claims' = [claims EXCEPT ![k] = NoClaim]
    /\ expiries' = [expiries EXCEPT ![k] = @ + 1]
    /\ UNCHANGED <<life, pc, canceled, todo, errs, walk, peerVars, routed, queued, faults>>

(* The TTL of a cached lookup: 5 minutes, or 5 seconds for a failure.      *)
CacheExpires(e) ==
    /\ cache[e] # "none" /\ peerMu = None
    /\ lapses < MaxLapses /\ lapses' = lapses + 1
    /\ cache' = [cache EXCEPT ![e] = "none"]
    /\ UNCHANGED <<life, pc, canceled, todo, errs, walk, peerMu, store, faults, expiries>>

CallStep(c) ==
    \/ Leave(c) \/ Route(c) \/ PolicyInvalid(c) \/ Resolve(c) \/ LookupReturns(c)
    \/ EnqueueRule(c) \/ ClaimMessage(c) \/ WaitCanceled(c) \/ SaveMessage(c) \/ Settle(c)

Steps ==
    \/ Stop \/ StopReturns
    \/ \E c \in Calls : Begin(c) \/ Cancel(c) \/ CallStep(c)
    \/ \E k \in Messages : ClaimExpires(k)
    \/ \E e \in Keys : CacheExpires(e)

Next == Steps /\ UNCHANGED input

Spec == Init /\ [][Next]_vars

(* Goroutines run; the lookup has a 10 second deadline and the others end  *)
(* with their context.                                                     *)
Fairness == /\ WF_vars(StopReturns /\ UNCHANGED input)
            /\ \A c \in Calls : WF_vars(CallStep(c) /\ UNCHANGED input)
FairSpec == Spec /\ Fairness

-----------------------------------------------------------------------------
(* Properties *)

Inside == {c \in Calls : pc[c] \notin {"idle", "done"}}

(* The drained channel is closed at most once, whoever is last, and only   *)
(* with nobody inside (closing it twice would panic).                      *)
DrainedOnce == drained <= 1 /\ (drained = 1 => closed /\ Inside = {})

(* Once Stop has returned nil the router admits nothing any more.          *)
QuietAfterStop == [][stopped => UNCHANGED <<routed, queued>>]_vars

(* Within one TTL a default-route message is stored once, however many     *)
(* calls submit it at the same time.                                       *)
StoredOncePerTTL == \A k \in Messages : queued[k] <= 1 + expiries[k]

(* The calls that ask for a message to be stored, on either route: the     *)
(* account's own messages, questions and automatic messages from a source  *)
(* that nobody listens to do not.                                          *)
Listened(m) == \E e \in DOMAIN Listening : m \in Listening[e].parent \cup Listening[e].linked
RuleCall(c) == kind[c] = "automatic" /\ message[c] \in ByRule
DefaultCall(c) ==
    \/ kind[c] = "manual"
    \/ kind[c] = "automatic" /\ message[c] \notin ByRule /\ Listened(message[c])

(* A call that returned nil has its message stored: by itself, or by the   *)
(* concurrent call it waited for; on the rule route for every target.  A   *)
(* failed lookup of an entry never makes a listened source pass for one    *)
(* that nobody listens to.                                                 *)
AcceptedMeansStored ==
    \A c \in Calls : pc[c] = "done" /\ c \notin errs =>
        /\ RuleCall(c) => {message[c]} \X Targets \subseteq routed
        /\ DefaultCall(c) => queued[message[c]] > 0

(* Nothing is stored that no call asked to store, whatever the cache and   *)
(* the failed lookups of others say.                                       *)
NothingUnwanted ==
    \A m \in Messages :
        /\ (\E t \in Targets : <<m, t>> \in routed) => \E c \in Calls : message[c] = m /\ RuleCall(c)
        /\ queued[m] > 0 => \E c \in Calls : message[c] = m /\ DefaultCall(c)

(* Every admitted call returns, also one that waits for the claim of       *)
(* another, and so does Stop.                                              *)
CallsReturn ==
    /\ \A c \in Calls : (c \in Inside) ~> (pc[c] = "done")
    /\ closed ~> stopped

(* A message accepted by some call is stored, within one TTL once, and a   *)
(* message that no call wants stored is not.                               *)
StoredExactly == StoredOncePerTTL /\ AcceptedMeansStored /\ NothingUnwanted

=============================================================================
