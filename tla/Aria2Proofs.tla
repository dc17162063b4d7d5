----------------------------- MODULE Aria2Proofs ----------------------------
(***************************************************************************)
(* What holds of the aria2 control plane for every set of gids, actors,    *)
(* observers and scenarios: no two controls of a gid talk to aria2 at      *)
(* once, and neither a late reading nor a late registration revives a      *)
(* deleted task or completes another link.  Both follow from the inductive *)
(* invariant Inv: a lease is backed by the stored fence as long as the     *)
(* first link stays, and a stored tombstone is never an absent record.     *)
(* The second part (Evt, of Aria2Automation) is about the governors and the       *)
(* listener of their events.                                               *)
(***************************************************************************)
EXTENDS Aria2Control, Aria2Automation, FiniteSetTheorems, SequenceTheorems, TLAPS

\* The words of the daemon and of the records; "absent" is a record that is not stored.
Words == {"unused", "none", "waiting", "active", "paused", "pausing", "removing", "removed",
          "complete", "short", "error"}
Statuses == Words \cup {"absent"}
Pcs == {"idle", "reserve", "active", "waiting", "stopped", "apply"} \cup Leased
Controls == {"pause", "resume", "delete", "retry"}
Acts == Controls \cup {"submit", None}
RemoteCalls == {"pause", "forcePause", "unpause", "remove", "removeResult"}
Calls == RemoteCalls \cup {None}
Intents == {"none", "delete"}

RecordType == [status : Statuses, rev : Nat, fence : BOOLEAN, owner : Actors \cup {None},
               deleted : BOOLEAN]
ControlType == [pc : Pcs, act : Acts, gid : Gids \cup {None}, read : RecordType,
                rev : Nat, owner : Actors \cup {None}, force : BOOLEAN, call : Calls,
                next : Words \cup {None}, remove : BOOLEAN, new : Gids \cup {None}]
PassType == [pc : Pcs, recs : [Gids -> RecordType], version : Nat, seen : [Gids -> Words]]
LinkType == [version : Nat \ {0}, present : BOOLEAN, downloaded : BOOLEAN, by : Nat]

\* A control works on a gid, except a submission, which has none yet; a gid that is being
\* registered or undone is known, and a remote call is one of aria2's.
PcSound(x) ==
    /\ x.pc \in {"reserve", "tell", "rpc", "finish", "result"} => x.gid \in Gids
    /\ x.pc \in {"add", "register", "undo"} =>
          (x.act = "submit" /\ x.gid = None) \/ (x.act = "retry" /\ x.gid \in Gids)
    /\ x.pc \in {"register", "undo"} => x.new \in Gids
    /\ x.pc \in {"reserve", "tell"} => x.act \in Controls
    /\ x.pc = "rpc" => x.call \in RemoteCalls

Types ==
    /\ rec \in [Gids -> RecordType] /\ link \in LinkType /\ remote \in [Gids -> Words]
    /\ op \in [Actors -> ControlType] /\ obs \in [Observers -> PassType]
    /\ intent \in [Gids -> Intents] /\ kinds \in Scenarios
    /\ \A a \in Actors : PcSound(op[a])

\* Neither removed nor expired since the first behaviour's start.
FirstLink == link.present /\ link.version = 1

\* A lease taken under the first link is backed by the stored fence and is the only one.
Fenced == \A a \in Actors, g \in Gids : FirstLink /\ Holds(a, g) => rec[g].fence
Alone == \A a, b \in Actors, g \in Gids : FirstLink /\ Holds(a, g) /\ Holds(b, g) => a = b

\* A deletion left a tombstone, and a tombstone, like a fence, is in a stored record.
Tombs == /\ \A g \in Gids : intent[g] = "delete" => rec[g].deleted
         /\ \A g \in Gids : rec[g].deleted \/ rec[g].fence => rec[g].status # "absent"

Inv == Types /\ Fenced /\ Alone /\ Tombs /\ DownloadedThisLink

---------------------------------------------------------------------------
(* Lemmas on the operators. *)

\* The empty record and the idle control are well typed.
LEMMA EmptyTyped ==
    /\ Absent \in RecordType /\ ~Absent.deleted /\ Absent.status = "absent" /\ ~Absent.fence
    /\ Idle \in ControlType /\ Idle.pc = "idle" /\ Idle.gid = None
  BY SMT DEF Absent, Idle, RecordType, ControlType, Words, Statuses, Pcs, Leased, Acts, Controls, Calls, RemoteCalls

\* A pass at rest is well typed.
LEMMA RestingTyped == Resting \in PassType /\ NoReading \in [Gids -> Words]
  <1>1. "none" \in Words
    BY DEF Words
  <1>2. NoReading \in [Gids -> Words]
    BY <1>1 DEF NoReading
  <1>3. [g \in Gids |-> Absent] \in [Gids -> RecordType]
    BY EmptyTyped
  <1> QED
    BY <1>2, <1>3 DEF Resting, PassType, Pcs

\* aria2 reports one of its own words, never the absence of a record.
LEMMA ReportTyped == \A s \in Words : Report(s) \in Words
  BY DEF Report, Words

\* A remote call leaves the daemon in a state of its own.
LEMMA EffectTyped == \A c, s : Effect(c, s) \subseteq Words
  BY DEF Effect, Words

\* FinishControl, lease by lease: the record stays a record, the fence falls, the revision
\* grows, and a tombstone is neither lost nor an absence.
LEMMA FinishTyped ==
    ASSUME NEW r \in RecordType, NEW x \in ControlType, r.status # "absent"
    PROVE  /\ FinishControl(r, x) \in RecordType
           /\ FinishControl(r, x).status # "absent"
           /\ r.deleted \/ x.remove => FinishControl(r, x).deleted
  <1> DEFINE status == IF x.remove THEN "removed" ELSE x.next
             written == status # None /\ DownloadTransition(r.status, status)
             st == IF written THEN status ELSE r.status
             ow == IF ~written THEN r.owner ELSE IF status = "paused" THEN x.owner ELSE None
             del == r.deleted \/ x.remove
  <1>1. st \in Statuses /\ st # "absent"
    BY DEF RecordType, ControlType, Words, Statuses
  <1>2. ow \in Actors \cup {None}
    BY DEF RecordType, ControlType
  <1>3. del \in BOOLEAN /\ (r.deleted \/ x.remove => del)
    BY DEF RecordType, ControlType
  <1>4. FinishControl(r, x) =
          [r EXCEPT !.fence = FALSE, !.rev = @ + 1, !.deleted = del, !.status = st, !.owner = ow]
    BY DEF FinishControl
  <1>5. r.rev + 1 \in Nat
    BY DEF RecordType
  <1> HIDE DEF status, written, st, ow, del
  <1>6. /\ FinishControl(r, x).status = st
        /\ FinishControl(r, x).deleted = del
    BY <1>4 DEF RecordType
  <1>7. FinishControl(r, x) \in RecordType
    BY <1>1, <1>2, <1>3, <1>4, <1>5 DEF RecordType
  <1> QED
    BY <1>1, <1>3, <1>6, <1>7

\* A merged registration keeps the record's fence and its tombstone.
LEMMA MergeTyped ==
    ASSUME NEW r \in RecordType, NEW t \in Statuses
    PROVE  /\ Merge(r, t) \in RecordType /\ Merge(r, t).status = t
           /\ Merge(r, t).fence = r.fence /\ Merge(r, t).deleted = r.deleted
  <1>1. r.rev + 1 \in Nat
    BY DEF RecordType
  <1>2. Merge(r, t) \in RecordType
    BY <1>1 DEF Merge, RecordType
  <1>3. Merge(r, t).status = t /\ Merge(r, t).fence = r.fence /\ Merge(r, t).deleted = r.deleted
    BY DEF Merge, RecordType
  <1> QED
    BY <1>2, <1>3

---------------------------------------------------------------------------
(* Frames: what a step must respect to keep each part. *)

\* A step that hands out no lease, drops no fence of a lease that remains and does not bring
\* the first link back keeps the leases fenced and exclusive.
LEMMA LeasesKept ==
    ASSUME Fenced, Alone, FirstLink' => FirstLink,
           \A a \in Actors, g \in Gids : Holds(a, g)' => Holds(a, g),
           \A a \in Actors, g \in Gids : FirstLink' /\ Holds(a, g)' /\ rec[g].fence => rec'[g].fence
    PROVE  Fenced' /\ Alone'
  BY DEF Fenced, Alone

\* A control that moves on holds at most what it held.
LEMMA HoldsShrink ==
    ASSUME Types, NEW a \in Actors, NEW y, op' = [op EXCEPT ![a] = y],
           \A g \in Gids : y.pc \in Leased /\ y.gid = g => Holds(a, g)
    PROVE  \A b \in Actors, g \in Gids : Holds(b, g)' => Holds(b, g)
  BY DEF Holds, Types

\* A step of one control that touches neither records nor link nor observations keeps Inv.
LEMMA ControlMoves ==
    ASSUME Inv, NEW a \in Actors, NEW y \in ControlType, op' = [op EXCEPT ![a] = y], PcSound(y),
           \A g \in Gids : y.pc \in Leased /\ y.gid = g => Holds(a, g),
           UNCHANGED <<rec, link, obs, kinds>>, remote' \in [Gids -> Words],
           intent' \in [Gids -> Intents],
           \A g \in Gids : intent'[g] = "delete" => intent[g] = "delete"
    PROVE  Inv'
  <1>1. Types'
    BY DEF Inv, Types
  <1>2. Fenced' /\ Alone'
    <2>1. \A b \in Actors, g \in Gids : Holds(b, g)' => Holds(b, g)
      BY HoldsShrink DEF Inv
    <2>2. FirstLink' => FirstLink
      BY DEF FirstLink
    <2> QED
      BY <2>1, <2>2, LeasesKept DEF Inv
  <1>3. Tombs'
    BY DEF Inv, Tombs
  <1>4. DownloadedThisLink'
    BY DEF Inv, DownloadedThisLink
  <1> QED
    BY <1>1, <1>2, <1>3, <1>4 DEF Inv

---------------------------------------------------------------------------
(* The steps of a control. *)

\* Every control begins without a lease.
LEMMA BeginKeeps ==
    ASSUME Inv, UNCHANGED kinds, NEW a \in Actors, NEW g \in Gids, NEW act \in Controls,
           NEW force \in BOOLEAN, Begin(a, g, act, force)
    PROVE  Inv'
  <1> DEFINE y == [Idle EXCEPT !.pc = "reserve", !.act = act, !.gid = g, !.read = rec[g], !.force = force]
  <1>1. rec[g] \in RecordType
    BY DEF Inv, Types
  <1>2. y \in ControlType /\ y.pc = "reserve" /\ y.gid = g /\ y.act = act
    BY <1>1, EmptyTyped DEF ControlType, Pcs, Acts
  <1>3. op' = [op EXCEPT ![a] = y]
    BY DEF Begin, Step
  <1> HIDE DEF y
  <1>4. PcSound(y) /\ y.pc \notin Leased
    BY <1>2 DEF PcSound, Leased
  <1>5. UNCHANGED <<rec, link, remote, obs, intent>>
    BY DEF Begin
  <1> QED
    BY <1>2, <1>3, <1>4, <1>5, ControlMoves DEF Inv, Types

\* A submission leases nothing: it has no gid yet.
LEMMA SubmitKeeps ==
    ASSUME Inv, UNCHANGED kinds, NEW a \in Actors, Submit(a)
    PROVE  Inv'
  <1> DEFINE y == [Idle EXCEPT !.pc = "add", !.act = "submit"]
  <1>1. y \in ControlType /\ y.pc = "add" /\ y.gid = None /\ y.act = "submit"
    BY EmptyTyped DEF ControlType, Pcs, Leased, Acts, Controls
  <1>2. op' = [op EXCEPT ![a] = y]
    BY DEF Submit, Step
  <1> HIDE DEF y
  <1>3. PcSound(y)
    BY <1>1 DEF PcSound
  <1>4. \A g \in Gids : y.gid # g
    BY <1>1, Aria2Assumption
  <1>5. UNCHANGED <<rec, link, remote, obs, intent>>
    BY DEF Submit
  <1> QED
    BY <1>1, <1>2, <1>3, <1>4, <1>5, ControlMoves DEF Inv, Types

\* Reserve takes the lease only of a record without a fence, and fences it.
LEMMA ReserveKeeps ==
    ASSUME Inv, UNCHANGED kinds, NEW a \in Actors, Reserve(a)
    PROVE  Inv'
  <1> DEFINE x == op[a]
  <1>0. x \in ControlType /\ x.pc = "reserve" /\ x.gid \in Gids /\ PcSound(x)
    BY DEF Inv, Types, PcSound, Reserve
  <1>1. CASE ~Reservable(rec[x.gid], x.read)
    <2>1. op' = [op EXCEPT ![a] = Idle] /\ UNCHANGED <<rec, link, remote, obs, intent>>
      BY <1>1 DEF Reserve, Done, Step
    <2>2. PcSound(Idle) /\ Idle.pc \notin Leased
      BY EmptyTyped DEF PcSound, Leased
    <2> QED
      BY <2>1, <2>2, EmptyTyped, ControlMoves DEF Inv, Types
  <1>2. CASE Reservable(rec[x.gid], x.read)
    <2> DEFINE h == x.gid
               ow == IF x.act \in {"pause", "resume"} THEN LeaseOwner(a, x.read) ELSE None
               y == [x EXCEPT !.pc = "tell", !.rev = rec[h].rev + 1, !.owner = ow]
    <2>1. ow \in Actors \cup {None}
      BY DEF LeaseOwner
    <2>2. op' = [op EXCEPT ![a] = y]
      BY <1>2 DEF Reserve, Step
    <2>3. rec' = [rec EXCEPT ![h].rev = @ + 1, ![h].fence = TRUE]
      BY <1>2 DEF Reserve
    <2>4. UNCHANGED <<link, remote, obs, intent>>
      BY DEF Reserve
    <2>5. rec[h] \in RecordType /\ rec[h].rev + 1 \in Nat /\ ~rec[h].fence /\ rec[h].status # "absent"
      BY <1>0, <1>2 DEF Inv, Types, RecordType, Reservable
    <2>6. h \in Gids
      BY <1>0
    <2> HIDE DEF ow
    <2>7. y \in ControlType /\ y.pc = "tell" /\ y.gid = h /\ y.act \in Controls
      BY <1>0, <2>1, <2>5 DEF ControlType, Pcs, Leased, PcSound
    <2> HIDE DEF y, h, x
    <2>8. PcSound(y)
      BY <2>6, <2>7 DEF PcSound
    <2>9. rec' \in [Gids -> RecordType] /\ rec'[h].fence
          /\ (\A g \in Gids : /\ rec'[g].status = rec[g].status
                              /\ rec'[g].deleted = rec[g].deleted
                              /\ rec[g].fence => rec'[g].fence
                              /\ rec'[g].fence => rec[g].fence \/ g = h)
      <3>1. [rec[h] EXCEPT !.rev = @ + 1, !.fence = TRUE] \in RecordType
        BY <2>5 DEF RecordType
      <3>2. rec' = [rec EXCEPT ![h] = [rec[h] EXCEPT !.rev = @ + 1, !.fence = TRUE]]
        BY <2>3, <2>5, <2>6 DEF Inv, Types, RecordType
      <3> QED
        BY <2>5, <2>6, <3>1, <3>2 DEF Inv, Types, RecordType
    <2>10. Types'
      BY <2>2, <2>4, <2>7, <2>8, <2>9 DEF Inv, Types
    <2>11. FirstLink' <=> FirstLink
      BY <2>4 DEF FirstLink
    <2>12. \A b \in Actors, g \in Gids : Holds(b, g)' => Holds(b, g) \/ (b = a /\ g = h)
      BY <2>2, <2>7 DEF Holds, Inv, Types
    <2>13. FirstLink => \A b \in Actors : ~Holds(b, h)
      BY <2>5, <2>6 DEF Inv, Fenced
    <2>14. Fenced'
      BY <2>9, <2>11, <2>12 DEF Inv, Fenced
    <2>15. Alone'
      BY <2>11, <2>12, <2>13 DEF Inv, Alone
    <2>16. Tombs'
      BY <2>4, <2>5, <2>9 DEF Inv, Tombs
    <2>17. DownloadedThisLink'
      BY <2>4 DEF Inv, DownloadedThisLink
    <2> QED
      BY <2>10, <2>14, <2>15, <2>16, <2>17 DEF Inv
  <1> QED
    BY <1>1, <1>2

\* A control may become y without taking a lease.
MayBecome(a, y) ==
    /\ y \in ControlType /\ PcSound(y)
    /\ \A g \in Gids : y.pc \in Leased /\ y.gid = g => Holds(a, g)

\* A control may always end.
LEMMA MayEnd == \A a : MayBecome(a, Idle)
  BY EmptyTyped DEF MayBecome, PcSound, Leased

\* A control that works on a gid may turn to finishing.
LEMMA MayFinish ==
    ASSUME Inv, NEW a \in Actors, op[a].gid \in Gids, op[a].pc \in Leased
    PROVE  MayBecome(a, [op[a] EXCEPT !.pc = "finish"])
  <1> DEFINE y == [op[a] EXCEPT !.pc = "finish"]
  <1>1. op[a] \in ControlType
    BY DEF Inv, Types
  <1>2. y \in ControlType /\ y.pc = "finish" /\ y.gid = op[a].gid
    BY <1>1 DEF ControlType, Pcs, Leased
  <1> QED
    BY <1>2 DEF MayBecome, PcSound, Holds

\* A retry that gives up finishes its lease, a submission just ends.
LEMMA MayGiveUp ==
    ASSUME Inv, NEW a \in Actors, op[a].pc \in {"add", "undo"}, GiveUp(a)
    PROVE  \E y : op' = [op EXCEPT ![a] = y] /\ MayBecome(a, y)
  <1>1. CASE op[a].act = "retry"
    <2>1. PcSound(op[a]) /\ op[a].act # "submit"
      BY <1>1 DEF Inv, Types
    <2>2. op[a].gid \in Gids /\ op[a].pc \in Leased
      BY <2>1 DEF PcSound, Leased
    <2> QED
      BY <1>1, <2>2, MayFinish DEF GiveUp, ToFinish, Step
  <1>2. CASE op[a].act # "retry"
    BY <1>2, MayEnd DEF GiveUp, Done, Step
  <1> QED
    BY <1>1, <1>2

\* ControlMoves for a control that may become y, the choices of the users untouched.
LEMMA Becomes ==
    ASSUME Inv, UNCHANGED kinds, NEW a \in Actors, NEW y, op' = [op EXCEPT ![a] = y], MayBecome(a, y),
           UNCHANGED <<rec, link, obs, intent>>, remote' \in [Gids -> Words]
    PROVE  Inv'
  <1>1. intent' \in [Gids -> Intents]
    BY DEF Inv, Types
  <1> QED
    BY <1>1, ControlMoves DEF MayBecome

\* Whatever Decide chooses, the control keeps its gid and its lease.
LEMMA DecideTyped ==
    ASSUME Inv, NEW a \in Actors, NEW s \in Words, op[a].pc = "tell"
    PROVE  MayBecome(a, Decide(a, s))
  <1> DEFINE x == op[a]
             status == Report(s)
             ow == IF a \in Users THEN None ELSE x.read.owner
             c1 == IF x.force THEN "forcePause" ELSE "pause"
             c2 == IF status \in {"complete", "error", "removed"} THEN "removeResult" ELSE "remove"
             p == IF Retryable(s) THEN "add" ELSE "finish"
  <1>1. x \in ControlType /\ x.gid \in Gids /\ Holds(a, x.gid) /\ x.act \in Controls
    BY DEF Inv, Types, PcSound, Holds, Leased
  <1>2. status \in Words
    BY ReportTyped
  <1>3. x.read \in RecordType
    BY <1>1 DEF ControlType
  <1>4. ow \in Actors \cup {None}
    BY <1>3 DEF RecordType
  <1>5. c1 \in RemoteCalls /\ c2 \in RemoteCalls
    BY DEF RemoteCalls
  <1> HIDE DEF x, status
  <1>6. ASSUME NEW y, y \in ControlType, y.gid = x.gid, y.pc = "finish" \/ (y.pc = "rpc" /\ y.call \in RemoteCalls)
        PROVE  MayBecome(a, y)
    BY <1>1, <1>6, Aria2Assumption DEF MayBecome, PcSound, x, Holds
  <1>7. CASE x.act = "pause" /\ status \in {"paused", "complete", "error"}
    <2> DEFINE y == [x EXCEPT !.pc = "finish", !.next = status, !.owner = ow]
    <2>1. Decide(a, s) = y
      BY <1>1, <1>7 DEF Decide, x, status, ControlType
    <2> HIDE DEF ow
    <2>2. y \in ControlType /\ y.pc = "finish" /\ y.gid = x.gid
      BY <1>1, <1>2, <1>4 DEF ControlType, Pcs, Leased
    <2> HIDE DEF y
    <2> QED
      BY <1>6, <2>1, <2>2
  <1>8. CASE x.act = "pause" /\ status \notin {"paused", "complete", "error"}
    <2> DEFINE y == [x EXCEPT !.pc = "rpc", !.call = c1]
    <2>1. Decide(a, s) = y
      BY <1>8 DEF Decide, x, status
    <2> HIDE DEF c1
    <2>2. y \in ControlType /\ y.pc = "rpc" /\ y.gid = x.gid /\ y.call \in RemoteCalls
      BY <1>1, <1>5 DEF ControlType, Pcs, Leased, Calls
    <2> HIDE DEF y
    <2> QED
      BY <1>6, <2>1, <2>2
  <1>9. CASE x.act = "resume" /\ status # "paused"
    <2> DEFINE y == [x EXCEPT !.pc = "finish", !.next = status]
    <2>1. Decide(a, s) = y
      BY <1>9 DEF Decide, x, status
    <2>2. y \in ControlType /\ y.pc = "finish" /\ y.gid = x.gid
      BY <1>1, <1>2 DEF ControlType, Pcs, Leased
    <2> HIDE DEF y
    <2> QED
      BY <1>6, <2>1, <2>2
  <1>10. CASE x.act = "resume" /\ status = "paused"
    <2> DEFINE y == [x EXCEPT !.pc = "rpc", !.call = "unpause"]
    <2>1. Decide(a, s) = y
      BY <1>10 DEF Decide, x, status
    <2>2. y \in ControlType /\ y.pc = "rpc" /\ y.gid = x.gid /\ y.call \in RemoteCalls
      BY <1>1 DEF ControlType, Pcs, Leased, Calls, RemoteCalls
    <2> HIDE DEF y
    <2> QED
      BY <1>6, <2>1, <2>2
  <1>11. CASE x.act = "delete"
    <2> DEFINE y == [x EXCEPT !.pc = "rpc", !.call = c2]
    <2>1. Decide(a, s) = y
      BY <1>11 DEF Decide, x, status
    <2> HIDE DEF c2
    <2>2. y \in ControlType /\ y.pc = "rpc" /\ y.gid = x.gid /\ y.call \in RemoteCalls
      BY <1>1, <1>5 DEF ControlType, Pcs, Leased, Calls
    <2> HIDE DEF y
    <2> QED
      BY <1>6, <2>1, <2>2
  <1>12. CASE x.act = "retry"
    <2> DEFINE y == [x EXCEPT !.pc = p]
    <2>1. Decide(a, s) = y
      BY <1>12 DEF Decide, x, status
    <2>2. p \in {"add", "finish"}
      OBVIOUS
    <2> HIDE DEF p
    <2>3. y \in ControlType /\ y.pc = p /\ y.gid = x.gid /\ y.act = x.act
      BY <1>1, <2>2 DEF ControlType, Pcs, Leased
    <2> HIDE DEF y
    <2>4. MayBecome(a, y)
      BY <1>1, <1>12, <2>2, <2>3 DEF MayBecome, PcSound, x, Holds
    <2> QED
      BY <2>1, <2>4
  <1> QED
    BY <1>1, <1>7, <1>8, <1>9, <1>10, <1>11, <1>12 DEF Controls

\* Tell only moves the control on.
LEMMA TellKeeps ==
    ASSUME Inv, UNCHANGED kinds, NEW a \in Actors, Tell(a)
    PROVE  Inv'
  <1>1. op[a].pc = "tell" /\ op[a].gid \in Gids /\ op[a].pc \in Leased
    BY DEF Tell, Inv, Types, PcSound, Leased
  <1>2. remote[op[a].gid] \in Words
    BY <1>1 DEF Inv, Types
  <1>3. PICK y : op' = [op EXCEPT ![a] = y] /\ MayBecome(a, y)
    <2>1. \/ op' = [op EXCEPT ![a] = Decide(a, remote[op[a].gid])]
          \/ op' = [op EXCEPT ![a] = [op[a] EXCEPT !.pc = "finish"]]
      BY DEF Tell, Step, ToFinish
    <2> QED
      BY <1>1, <1>2, <2>1, DecideTyped, MayFinish
  <1>4. UNCHANGED <<rec, link, obs, intent>> /\ remote' \in [Gids -> Words]
    BY DEF Tell, Inv, Types
  <1> QED
    BY <1>3, <1>4, Becomes

\* A call that was answered leads to the end of the control.
LEMMA AnsweredTyped ==
    ASSUME Inv, NEW a \in Actors, op[a].pc = "rpc"
    PROVE  MayBecome(a, Answered(op[a]))
  <1> DEFINE x == op[a]
  <1>1. x \in ControlType /\ x.gid \in Gids /\ x.pc \in Leased /\ x.call \in RemoteCalls
    BY DEF Inv, Types, PcSound, Leased
  <1> HIDE DEF x
  <1>2. ASSUME NEW y, y \in ControlType, y.gid = x.gid, y.pc = "finish"
        PROVE  MayBecome(a, y)
    BY <1>1, <1>2 DEF MayBecome, PcSound, x, Holds
  <1>3. CASE x.call \in {"pause", "forcePause"}
    <2> DEFINE y == [x EXCEPT !.pc = "finish", !.next = "paused"]
    <2>1. Answered(x) = y
      BY <1>3 DEF Answered
    <2>2. y \in ControlType /\ y.gid = x.gid /\ y.pc = "finish"
      BY <1>1 DEF ControlType, Pcs, Leased, Words
    <2> QED
      BY <1>2, <2>1, <2>2 DEF x
  <1>4. CASE x.call = "unpause"
    <2> DEFINE y == [x EXCEPT !.pc = "finish", !.next = "waiting"]
    <2>1. Answered(x) = y
      BY <1>4 DEF Answered
    <2>2. y \in ControlType /\ y.gid = x.gid /\ y.pc = "finish"
      BY <1>1 DEF ControlType, Pcs, Leased, Words
    <2> QED
      BY <1>2, <2>1, <2>2 DEF x
  <1>5. CASE x.call \in {"remove", "removeResult"}
    <2> DEFINE y == [x EXCEPT !.pc = "finish", !.remove = TRUE]
    <2>1. Answered(x) = y
      BY <1>5 DEF Answered
    <2>2. y \in ControlType /\ y.gid = x.gid /\ y.pc = "finish"
      BY <1>1 DEF ControlType, Pcs, Leased
    <2> QED
      BY <1>2, <2>1, <2>2 DEF x
  <1> QED
    BY <1>1, <1>3, <1>4, <1>5 DEF RemoteCalls

\* A remote call, answered or lost, changes the daemon and at most withdraws a pause.
LEMMA RpcKeeps ==
    ASSUME Inv, UNCHANGED kinds, NEW a \in Actors, Rpc(a)
    PROVE  Inv'
  <1>1. op[a].pc = "rpc" /\ op[a].gid \in Gids /\ op[a].pc \in Leased
    BY DEF Rpc, Inv, Types, PcSound, Leased
  <1>2. PICK y : op' = [op EXCEPT ![a] = y] /\ MayBecome(a, y)
    <2>1. \/ op' = [op EXCEPT ![a] = Answered(op[a])]
          \/ op' = [op EXCEPT ![a] = [op[a] EXCEPT !.pc = "finish"]]
      BY DEF Rpc, Step, ToFinish
    <2> QED
      BY <1>1, <2>1, AnsweredTyped, MayFinish
  <1>3. remote' \in [Gids -> Words]
    <2>1. \/ \E s \in Effect(op[a].call, remote[op[a].gid]) : remote' = [remote EXCEPT ![op[a].gid] = s]
          \/ remote' = remote
      BY DEF Rpc
    <2> QED
      BY <1>1, <2>1, EffectTyped DEF Inv, Types
  <1>4. UNCHANGED <<rec, link, obs, intent>>
    BY DEF Rpc
  <1> QED
    BY <1>2, <1>3, <1>4, Becomes

\* A result the storage refuses ends the control; the fence stays.
LEMMA FinishFailsKeeps ==
    ASSUME Inv, UNCHANGED kinds, NEW a \in Actors, FinishFails(a)
    PROVE  Inv'
  <1>1. op' = [op EXCEPT ![a] = Idle] /\ UNCHANGED <<rec, link, remote, obs, intent>>
    BY DEF FinishFails, Done, Step
  <1>2. remote' \in [Gids -> Words]
    BY <1>1 DEF Inv, Types
  <1> QED
    BY <1>1, <1>2, MayEnd, Becomes

\* Finish drops the fence of its own lease only, which nobody else holds.
LEMMA FinishKeeps ==
    ASSUME Inv, UNCHANGED kinds, NEW a \in Actors, Finish(a)
    PROVE  Inv'
  <1> DEFINE x == op[a]
             h == x.gid
             mine == Present(h) /\ rec[h].rev = x.rev
  <1>1. x \in ControlType /\ x.pc = "finish" /\ h \in Gids
    BY DEF Finish, Inv, Types, PcSound
  <1>2. op' = [op EXCEPT ![a] = Idle] /\ UNCHANGED <<link, remote, obs>>
    BY DEF Finish, Done, Step
  <1>3. CASE ~mine
    <2>1. UNCHANGED <<rec, intent>> /\ remote' \in [Gids -> Words]
      BY <1>2, <1>3 DEF Finish, Inv, Types
    <2> QED
      BY <1>2, <2>1, MayEnd, Becomes
  <1>4. CASE mine
    <2> DEFINE choice == IF x.remove THEN "delete" ELSE intent[h]
    <2>1. /\ rec' = [rec EXCEPT ![h] = FinishControl(rec[h], x)]
          /\ intent' = [intent EXCEPT ![h] = choice]
      BY <1>4 DEF Finish, Inv, Types
    <2>2. choice \in Intents /\ (choice = "delete" => x.remove \/ intent[h] = "delete")
      BY <1>1 DEF Inv, Types, Intents, ControlType
    <2>3. rec[h] \in RecordType /\ rec[h].status # "absent"
      BY <1>1, <1>4 DEF Inv, Types, Present
    <2>4. /\ FinishControl(rec[h], x) \in RecordType
          /\ FinishControl(rec[h], x).status # "absent"
          /\ rec[h].deleted \/ x.remove => FinishControl(rec[h], x).deleted
      BY <1>1, <2>3, FinishTyped
    <2> HIDE DEF choice
    <2>5. intent' \in [Gids -> Intents] /\ rec' \in [Gids -> RecordType]
      BY <1>1, <2>1, <2>2, <2>4 DEF Inv, Types
    <2>6. Types'
      BY <1>2, <2>5, MayEnd DEF Inv, Types, MayBecome
    <2>7. Tombs'
      BY <1>1, <2>1, <2>2, <2>4 DEF Inv, Tombs, Types
    <2>8. Fenced' /\ Alone'
      <3>1. \A b \in Actors, g \in Gids : Holds(b, g)' => Holds(b, g) /\ b # a
        BY <1>2, EmptyTyped DEF Holds, Inv, Types, Leased
      <3>2. Holds(a, h)
        BY <1>1 DEF Holds, Leased
      <3>3. FirstLink' => FirstLink
        BY <1>2 DEF FirstLink
      <3>4. \A b \in Actors, g \in Gids : FirstLink' /\ Holds(b, g)' => g # h
        BY <1>1, <3>1, <3>2, <3>3 DEF Inv, Alone
      <3>5. \A g \in Gids : g # h => rec'[g] = rec[g]
        BY <2>1 DEF Inv, Types
      <3> QED
        BY <3>1, <3>3, <3>4, <3>5, LeasesKept DEF Inv
    <2>9. DownloadedThisLink'
      BY <1>2 DEF Inv, DownloadedThisLink
    <2> QED
      BY <2>6, <2>7, <2>8, <2>9 DEF Inv
  <1> QED
    BY <1>3, <1>4

---------------------------------------------------------------------------
(* Submission and retry. *)

\* The gids of a scenario are gids, and its ends are words of the daemon.
LEMMA ScenarioTyped == Types => kinds.gids \subseteq Gids /\ kinds.ends \subseteq Words
  BY Aria2Assumption DEF Types, IsScenario, Words

\* A new gid in the daemon is no record yet.
LEMMA AddURIKeeps ==
    ASSUME Inv, UNCHANGED kinds, NEW a \in Actors, AddURI(a)
    PROVE  Inv'
  <1>1. op[a] \in ControlType /\ op[a].pc = "add" /\ PcSound(op[a])
    BY DEF AddURI, Inv, Types
  <1>2. remote' \in [Gids -> Words]
    <2>1. \/ \E n \in kinds.gids : remote' = [remote EXCEPT ![n] = "waiting"]
          \/ remote' = remote
      BY DEF AddURI
    <2> QED
      BY <2>1, ScenarioTyped DEF Inv, Types, Words
  <1>3. PICK y : op' = [op EXCEPT ![a] = y] /\ MayBecome(a, y)
    <2>1. \/ GiveUp(a)
          \/ \E n \in kinds.gids : op' = [op EXCEPT ![a] = [op[a] EXCEPT !.pc = "register", !.new = n]]
      BY DEF AddURI, Step
    <2>2. CASE GiveUp(a)
      BY <1>1, <2>2, MayGiveUp
    <2>3. ASSUME NEW n \in kinds.gids,
                 op' = [op EXCEPT ![a] = [op[a] EXCEPT !.pc = "register", !.new = n]]
          PROVE  \E y : op' = [op EXCEPT ![a] = y] /\ MayBecome(a, y)
      <3> DEFINE y == [op[a] EXCEPT !.pc = "register", !.new = n]
      <3>1. n \in Gids
        BY ScenarioTyped DEF Inv
      <3>2. y \in ControlType /\ y.pc = "register" /\ y.new = n /\ y.gid = op[a].gid /\ y.act = op[a].act
        BY <1>1, <3>1 DEF ControlType, Pcs, Leased
      <3>3. MayBecome(a, y)
        <4> HIDE DEF y
        <4> QED
          BY <1>1, <3>1, <3>2 DEF MayBecome, PcSound, Holds, Leased
      <3> QED
        BY <2>3, <3>3
    <2> QED
      BY <2>1, <2>2, <2>3
  <1>4. UNCHANGED <<rec, link, obs, intent>>
    BY DEF AddURI
  <1> QED
    BY <1>2, <1>3, <1>4, Becomes

\* Undo gives the new gid back to the daemon.
LEMMA UndoKeeps ==
    ASSUME Inv, UNCHANGED kinds, NEW a \in Actors, Undo(a)
    PROVE  Inv'
  <1>1. op[a].pc = "undo" /\ op[a].new \in Gids
    BY DEF Undo, Inv, Types, PcSound
  <1>2. remote' \in [Gids -> Words]
    <2>1. \/ \E s \in Effect("remove", remote[op[a].new]) : remote' = [remote EXCEPT ![op[a].new] = s]
          \/ remote' = remote
      BY DEF Undo
    <2> QED
      BY <1>1, <2>1, EffectTyped DEF Inv, Types
  <1>3. PICK y : op' = [op EXCEPT ![a] = y] /\ MayBecome(a, y)
    BY <1>1, MayGiveUp DEF Undo
  <1>4. UNCHANGED <<rec, link, obs, intent>>
    BY DEF Undo
  <1> QED
    BY <1>2, <1>3, <1>4, Becomes

\* Dropping the old result changes the daemon only.
LEMMA DropResultKeeps ==
    ASSUME Inv, UNCHANGED kinds, NEW a \in Actors, DropResult(a)
    PROVE  Inv'
  <1>1. op[a].pc = "result" /\ op[a].gid \in Gids /\ op[a].pc \in Leased
    BY DEF DropResult, Inv, Types, PcSound, Leased
  <1>2. remote' \in [Gids -> Words]
    <2>1. remote' = [remote EXCEPT ![op[a].gid] = "none"] \/ remote' = remote
      BY DEF DropResult
    <2> QED
      BY <1>1, <2>1 DEF Inv, Types, Words
  <1>3. op' = [op EXCEPT ![a] = [op[a] EXCEPT !.pc = "finish"]] /\ UNCHANGED <<rec, link, obs, intent>>
    BY DEF DropResult, ToFinish, Step
  <1> QED
    BY <1>1, <1>2, <1>3, MayFinish, Becomes

\* A registration stores the new gid; a record of that gid keeps its fence and its tombstone.
LEMMA RegisterKeeps ==
    ASSUME Inv, UNCHANGED kinds, NEW a \in Actors, Register(a)
    PROVE  Inv'
  <1> DEFINE x == op[a]
             n == x.new
             status == MergedStatus(rec[n], x.act)
  <1>1. x \in ControlType /\ x.pc = "register" /\ n \in Gids /\ PcSound(x)
    BY DEF Register, Inv, Types, PcSound
  <1>2. UNCHANGED <<link, remote, obs, intent>>
    BY DEF Register
  <1>3. PICK y : op' = [op EXCEPT ![a] = y] /\ MayBecome(a, y)
    <2>1. \/ op' = [op EXCEPT ![a] = Idle]
          \/ x.act = "retry" /\ op' = [op EXCEPT ![a] = [x EXCEPT !.pc = "result", !.remove = TRUE]]
          \/ op' = [op EXCEPT ![a] = [x EXCEPT !.pc = "undo"]]
      BY DEF Register, Done, Step
    <2>2. ASSUME x.act = "retry" PROVE MayBecome(a, [x EXCEPT !.pc = "result", !.remove = TRUE])
      <3> DEFINE y == [x EXCEPT !.pc = "result", !.remove = TRUE]
      <3>1. y \in ControlType /\ y.pc = "result" /\ y.gid = x.gid
        BY <1>1 DEF ControlType, Pcs, Leased
      <3> HIDE DEF y
      <3>2. MayBecome(a, y)
        BY <1>1, <2>2, <3>1 DEF MayBecome, PcSound, Holds, Leased
      <3> QED
        BY <3>2 DEF y
    <2>3. MayBecome(a, [x EXCEPT !.pc = "undo"])
      <3> DEFINE y == [x EXCEPT !.pc = "undo"]
      <3>1. y \in ControlType /\ y.pc = "undo" /\ y.gid = x.gid /\ y.new = n /\ y.act = x.act
        BY <1>1 DEF ControlType, Pcs, Leased
      <3> HIDE DEF y
      <3>2. MayBecome(a, y)
        BY <1>1, <3>1 DEF MayBecome, PcSound, Holds, Leased
      <3> QED
        BY <3>2 DEF y
    <2> QED
      BY <2>1, <2>2, <2>3, MayEnd
  <1>4. CASE rec' = rec
    <2>1. remote' \in [Gids -> Words]
      BY <1>2 DEF Inv, Types
    <2> QED
      BY <1>2, <1>3, <1>4, <2>1, Becomes
  <1>5. CASE rec' = [rec EXCEPT ![n] = Merge(rec[n], status)]
    <2>1. rec[n] \in RecordType
      BY <1>1 DEF Inv, Types
    <2>2. status \in Statuses /\ status # "absent"
      BY <2>1 DEF MergedStatus, RecordType, Statuses, Words
    <2> HIDE DEF status
    <2> DEFINE m == Merge(rec[n], status)
    <2>3. m \in RecordType /\ m.status # "absent" /\ m.fence = rec[n].fence /\ m.deleted = rec[n].deleted
      BY <2>1, <2>2, MergeTyped
    <2> HIDE DEF m
    <2>4. rec' = [rec EXCEPT ![n] = m]
      BY <1>5 DEF m
    <2> HIDE DEF n, x
    <2>5. /\ rec' \in [Gids -> RecordType]
          /\ \A g \in Gids : /\ rec'[g].fence = rec[g].fence
                             /\ rec'[g].deleted = rec[g].deleted
                             /\ rec[g].status # "absent" => rec'[g].status # "absent"
      BY <1>1, <2>3, <2>4 DEF Inv, Types
    <2>6. Types'
      BY <1>2, <1>3, <2>5 DEF Inv, Types, MayBecome
    <2>7. \A b \in Actors, g \in Gids : Holds(b, g)' => Holds(b, g)
      BY <1>3, HoldsShrink DEF MayBecome, Inv
    <2>8. Fenced' /\ Alone'
      <3>1. FirstLink' => FirstLink
        BY <1>2 DEF FirstLink
      <3> QED
        BY <2>5, <2>7, <3>1, LeasesKept DEF Inv
    <2>9. Tombs'
      BY <1>2, <2>5 DEF Inv, Tombs
    <2>10. DownloadedThisLink'
      BY <1>2 DEF Inv, DownloadedThisLink
    <2> QED
      BY <2>6, <2>8, <2>9, <2>10 DEF Inv
  <1>6. rec' = rec \/ rec' = [rec EXCEPT ![n] = Merge(rec[n], status)]
    BY DEF Register
  <1> QED
    BY <1>4, <1>5, <1>6

---------------------------------------------------------------------------
(* Observations. *)

\* A step that changes only passes keeps Inv.
LEMMA PassMoves ==
    ASSUME Inv, UNCHANGED <<rec, link, remote, op, intent, kinds>>, obs' \in [Observers -> PassType]
    PROVE  Inv'
  <1>1. Types'
    BY DEF Inv, Types
  <1>2. Fenced' /\ Alone'
    BY DEF Inv, Fenced, Alone, FirstLink, Holds
  <1>3. Tombs' /\ DownloadedThisLink'
    BY DEF Inv, Tombs, DownloadedThisLink
  <1> QED
    BY <1>1, <1>2, <1>3 DEF Inv

\* The snapshot copies the records and the link's version.
LEMMA SnapshotKeeps ==
    ASSUME Inv, UNCHANGED kinds, NEW o \in Observers, Snapshot(o)
    PROVE  Inv'
  <1> DEFINE v == IF link.present THEN link.version ELSE 0
             y == [pc |-> "active", recs |-> rec, seen |-> NoReading, version |-> v]
  <1>1. v \in Nat
    BY DEF Inv, Types, LinkType
  <1>2. rec \in [Gids -> RecordType]
    BY DEF Inv, Types
  <1> HIDE DEF v
  <1>3. y \in PassType
    BY <1>1, <1>2, RestingTyped DEF PassType, Pcs
  <1>4. obs' = [obs EXCEPT ![o] = y] /\ UNCHANGED <<rec, link, remote, op, intent>>
    BY DEF Snapshot, v
  <1> HIDE DEF y
  <1>5. obs' \in [Observers -> PassType]
    BY <1>3, <1>4 DEF Inv, Types
  <1> QED
    BY <1>4, <1>5, PassMoves

\* A list adds what it shows to the pass.
LEMMA ListKeeps ==
    ASSUME Inv, UNCHANGED kinds, NEW o \in Observers, List(o)
    PROVE  Inv'
  <1> DEFINE x == obs[o]
             listed(g) == remote[g] \notin {"unused", "none"} /\ Report(remote[g]) \in Lists[x.pc]
             shown(s) == IF s = "short" THEN s ELSE Report(s)
             seen == [g \in Gids |-> IF listed(g) THEN shown(remote[g]) ELSE x.seen[g]]
             y == [x EXCEPT !.pc = After[x.pc], !.seen = seen]
  <1>1. x \in PassType /\ x.seen \in [Gids -> Words]
    BY DEF Inv, Types, PassType
  <1>2. \A g \in Gids : shown(remote[g]) \in Words
    BY ReportTyped DEF Inv, Types
  <1>3. seen \in [Gids -> Words]
    BY <1>1, <1>2
  <1>4. After[x.pc] \in Pcs
    BY DEF List, Lists, After, Pcs
  <1>5. obs' = [obs EXCEPT ![o] = y]
    BY <1>1 DEF List, Inv, Types, PassType
  <1> HIDE DEF seen, x
  <1>6. y \in PassType
    BY <1>1, <1>3, <1>4 DEF PassType
  <1> HIDE DEF y
  <1>7. obs' \in [Observers -> PassType]
    BY <1>5, <1>6 DEF Inv, Types
  <1>8. UNCHANGED <<rec, link, remote, op, intent>>
    BY DEF List
  <1> QED
    BY <1>7, <1>8, PassMoves

\* A pass that cannot read a list ends.
LEMMA ListFailsKeeps ==
    ASSUME Inv, UNCHANGED kinds, NEW o \in Observers, ListFails(o)
    PROVE  Inv'
  <1>1. obs' \in [Observers -> PassType]
    BY RestingTyped DEF ListFails, Inv, Types
  <1> QED
    BY <1>1, PassMoves DEF ListFails

\* A reading becomes a record only where none is stored, or changes the status of the very
\* record it was read with; it completes only the link the pass started from.
LEMMA ApplyKeeps ==
    ASSUME Inv, UNCHANGED kinds, NEW o \in Observers, NEW g \in Gids, Apply(o, g)
    PROVE  Inv'
  <1> DEFINE x == obs[o]
             seen == x.seen[g]
             create == x.recs[g].status = "absent"
             skip == x.recs[g].deleted \/ (create /\ (seen = "removed" \/ x.version = 0))
             applied == /\ ~skip /\ SameLink(o) /\ create = ~Present(g)
                        /\ create \/ Applicable(rec[g], x.recs[g], seen)
  <1>1. x \in PassType /\ seen \in Words /\ x.version \in Nat /\ rec[g] \in RecordType
    BY DEF Inv, Types, PassType
  <1>2. UNCHANGED <<remote, op, intent>>
    BY DEF Apply
  <1>3. obs' \in [Observers -> PassType]
    <2> DEFINE y == [x EXCEPT !.seen = [x.seen EXCEPT ![g] = "none"]]
    <2>1. [x.seen EXCEPT ![g] = "none"] \in [Gids -> Words]
      BY <1>1 DEF PassType, Words
    <2>2. y \in PassType
      BY <1>1, <2>1 DEF PassType
    <2>3. obs' = [obs EXCEPT ![o] = y]
      BY DEF Apply, Inv, Types
    <2> QED
      BY <2>2, <2>3 DEF Inv, Types
  <1>4. CASE ~applied
    <2>1. UNCHANGED <<rec, link>>
      BY <1>4 DEF Apply
    <2> QED
      BY <1>2, <1>3, <2>1, PassMoves
  <1>5. CASE applied
    <2>1. PICK y : /\ rec' = [rec EXCEPT ![g] = y]
                   /\ y \in RecordType /\ y.status # "absent"
                   /\ rec[g].fence => y.fence
                   /\ rec[g].deleted => y.deleted
      <3>1. Report(seen) \in Words
        BY <1>1, ReportTyped
      <3>2. CASE create
        <4>1. rec' = [rec EXCEPT ![g] = Created(g, seen)]
          BY <1>5, <3>2 DEF Apply
        <4>2. ~rec[g].deleted /\ ~rec[g].fence
          BY <1>5, <3>2 DEF Inv, Tombs, Present
        <4>3. Created(g, seen) \in RecordType /\ Created(g, seen).status = Report(seen)
          BY <3>1, EmptyTyped DEF Created, Absent, RecordType, Statuses
        <4> QED
          BY <3>1, <4>1, <4>2, <4>3 DEF Words
      <3>3. CASE ~create
        <4>1. rec' = [rec EXCEPT ![g] = [rec[g] EXCEPT !.status = Report(seen), !.rev = @ + 1]]
          BY <1>5, <3>3 DEF Apply
        <4>2. rec' = [rec EXCEPT ![g] = Merge(rec[g], Report(seen))]
          BY <4>1 DEF Merge
        <4>3. ~rec[g].deleted /\ ~rec[g].fence
          BY <1>5, <3>3 DEF Applicable
        <4>4. Report(seen) \in Statuses /\ Report(seen) # "absent"
          BY <3>1 DEF Statuses, Words
        <4>5. Merge(rec[g], Report(seen)) \in RecordType /\ Merge(rec[g], Report(seen)).status # "absent"
          BY <1>1, <4>4, MergeTyped
        <4> QED
          BY <4>2, <4>3, <4>5
      <3> QED
        BY <3>2, <3>3
    <2>2. link' = link \/ (/\ x.version # 0
                           /\ link' = [link EXCEPT !.downloaded = TRUE, !.by = x.version])
      BY <1>5 DEF Apply
    <2>3. SameLink(o)
      BY <1>5
    <2> HIDE DEF x, seen, create, skip, applied
    <2>4. /\ rec' \in [Gids -> RecordType]
          /\ \A n \in Gids : /\ rec[n].fence => rec'[n].fence
                             /\ rec[n].deleted => rec'[n].deleted
                             /\ rec'[n] = rec[n] \/ rec'[n].status # "absent"
      BY <2>1 DEF Inv, Types
    <2>5. /\ link' \in LinkType /\ link'.present = link.present /\ link'.version = link.version
          /\ DownloadedThisLink'
      <3>1. CASE link' = link
        BY <3>1 DEF Inv, Types, DownloadedThisLink
      <3>2. CASE x.version # 0 /\ link' = [link EXCEPT !.downloaded = TRUE, !.by = x.version]
        BY <1>1, <2>3, <3>2 DEF Inv, Types, LinkType, SameLink, DownloadedThisLink, x
      <3> QED
        BY <2>2, <3>1, <3>2
    <2>6. Types'
      BY <1>2, <1>3, <2>4, <2>5 DEF Inv, Types
    <2>7. Fenced' /\ Alone'
      <3>1. FirstLink' => FirstLink
        BY <2>5 DEF FirstLink
      <3>2. \A b \in Actors, n \in Gids : Holds(b, n)' => Holds(b, n)
        BY <1>2 DEF Holds
      <3> QED
        BY <2>4, <3>1, <3>2, LeasesKept DEF Inv
    <2>8. Tombs'
      BY <1>2, <2>4 DEF Inv, Tombs
    <2> QED
      BY <2>5, <2>6, <2>7, <2>8 DEF Inv
  <1> QED
    BY <1>4, <1>5

\* The end of a pass removes expired links and records without a link, but neither fenced
\* records nor tombstones.
LEMMA EndObserveKeeps ==
    ASSUME Inv, UNCHANGED kinds, NEW o \in Observers, EndObserve(o)
    PROVE  Inv'
  <1>1. obs' \in [Observers -> PassType]
    BY RestingTyped DEF EndObserve, Inv, Types
  <1>2. UNCHANGED <<remote, op, intent>>
    BY DEF EndObserve
  <1>3. CASE UNCHANGED <<rec, link>>
    BY <1>1, <1>2, <1>3, PassMoves
  <1> DEFINE orphan(g) == Present(g) /\ ~rec[g].deleted /\ ~rec[g].fence
  <1>4. CASE /\ link' = [link EXCEPT !.present = FALSE, !.downloaded = FALSE, !.by = 0]
             /\ rec' = [g \in Gids |-> IF orphan(g) THEN Absent ELSE rec[g]]
    <2>1. /\ rec' \in [Gids -> RecordType]
          /\ \A g \in Gids : /\ rec[g].deleted => rec'[g].deleted
                             /\ rec'[g] = rec[g] \/ (~rec'[g].deleted /\ ~rec'[g].fence)
      BY <1>4, EmptyTyped DEF Inv, Types
    <2>2. link' \in LinkType /\ ~link'.present /\ ~link'.downloaded
      BY <1>4 DEF Inv, Types, LinkType
    <2>3. Types'
      BY <1>1, <1>2, <2>1, <2>2 DEF Inv, Types
    <2>4. Fenced' /\ Alone' /\ DownloadedThisLink'
      BY <2>2 DEF Fenced, Alone, FirstLink, DownloadedThisLink
    <2>5. Tombs'
      BY <1>2, <2>1 DEF Inv, Tombs
    <2> QED
      BY <2>3, <2>4, <2>5 DEF Inv
  <1> QED
    BY <1>3, <1>4 DEF EndObserve

---------------------------------------------------------------------------
(* The environment. *)

\* The daemon goes on by itself.
LEMMA ProgressKeeps ==
    ASSUME Inv, UNCHANGED kinds, NEW g \in Gids, Progress(g)
    PROVE  Inv'
  <1>1. PICK s \in Words : remote' = [remote EXCEPT ![g] = s]
    BY ScenarioTyped DEF Progress, Inv, Words
  <1>2. UNCHANGED <<rec, link, op, obs, intent>>
    BY DEF Progress
  <1>3. Types'
    BY <1>1, <1>2 DEF Inv, Types
  <1>4. Fenced' /\ Alone'
    BY <1>2 DEF Inv, Fenced, Alone, FirstLink, Holds
  <1>5. Tombs' /\ DownloadedThisLink'
    BY <1>2 DEF Inv, Tombs, DownloadedThisLink
  <1> QED
    BY <1>3, <1>4, <1>5 DEF Inv

\* A fence expires only when no lease is left.
LEMMA FenceExpiresKeeps ==
    ASSUME Inv, UNCHANGED kinds, NEW g \in Gids, FenceExpires(g)
    PROVE  Inv'
  <1>1. rec' = [rec EXCEPT ![g] = [rec[g] EXCEPT !.fence = FALSE]] /\ UNCHANGED <<link, remote, op, obs, intent>>
    BY DEF FenceExpires, Inv, Types
  <1>2. rec[g] \in RecordType
    BY DEF Inv, Types
  <1>3. /\ [rec[g] EXCEPT !.fence = FALSE] \in RecordType
        /\ [rec[g] EXCEPT !.fence = FALSE].status = rec[g].status
        /\ [rec[g] EXCEPT !.fence = FALSE].deleted = rec[g].deleted
        /\ ~[rec[g] EXCEPT !.fence = FALSE].fence
    BY <1>2 DEF RecordType
  <1>4. /\ rec' \in [Gids -> RecordType]
        /\ \A n \in Gids : /\ rec'[n].status = rec[n].status
                           /\ rec'[n].deleted = rec[n].deleted
                           /\ rec'[n].fence => rec[n].fence
                           /\ n # g => rec'[n] = rec[n]
    BY <1>1, <1>3 DEF Inv, Types
  <1>5. Types'
    BY <1>1, <1>4 DEF Inv, Types
  <1>6. Fenced' /\ Alone'
    <2>1. \A a \in Actors, n \in Gids : Holds(a, n)' => Holds(a, n) /\ n # g
      BY <1>1 DEF Holds, FenceExpires
    <2>2. FirstLink' => FirstLink
      BY <1>1 DEF FirstLink
    <2> QED
      BY <1>4, <2>1, <2>2, LeasesKept DEF Inv
  <1>7. Tombs' /\ DownloadedThisLink'
    BY <1>1, <1>4 DEF Inv, Tombs, DownloadedThisLink
  <1> QED
    BY <1>5, <1>6, <1>7 DEF Inv

\* Retention forgets the record with the choice that was made for it.
LEMMA SweepKeeps ==
    ASSUME Inv, UNCHANGED kinds, NEW g \in Gids, Sweep(g)
    PROVE  Inv'
  <1>1. /\ rec' = [rec EXCEPT ![g] = Absent] /\ intent' = [intent EXCEPT ![g] = "none"]
        /\ UNCHANGED <<link, remote, op, obs>> /\ ~rec[g].fence
    BY DEF Sweep
  <1>2. /\ rec' \in [Gids -> RecordType] /\ intent' \in [Gids -> Intents]
        /\ rec'[g] = Absent /\ intent'[g] = "none"
        /\ \A n \in Gids : n # g => rec'[n] = rec[n] /\ intent'[n] = intent[n]
    BY <1>1, EmptyTyped DEF Inv, Types, Intents
  <1>3. Types'
    BY <1>1, <1>2 DEF Inv, Types
  <1>4. Fenced' /\ Alone'
    <2>1. \A a \in Actors, n \in Gids : Holds(a, n)' => Holds(a, n)
      BY <1>1 DEF Holds
    <2>2. FirstLink' => FirstLink
      BY <1>1 DEF FirstLink
    <2>3. \A n \in Gids : rec[n].fence => rec'[n].fence
      BY <1>1, <1>2
    <2> QED
      BY <2>1, <2>2, <2>3, LeasesKept DEF Inv
  <1>5. Tombs' /\ DownloadedThisLink'
    BY <1>1, <1>2, EmptyTyped DEF Inv, Tombs, DownloadedThisLink
  <1> QED
    BY <1>3, <1>4, <1>5 DEF Inv

\* Removing the link erases every record and every choice.
LEMMA RemoveLinkKeeps ==
    ASSUME Inv, UNCHANGED kinds, RemoveLink
    PROVE  Inv'
  <1>1. /\ rec' = [g \in Gids |-> Absent] /\ intent' = [g \in Gids |-> "none"]
        /\ link' = [link EXCEPT !.present = FALSE, !.downloaded = FALSE, !.by = 0]
        /\ UNCHANGED <<remote, op, obs>>
    BY DEF RemoveLink
  <1>2. rec' \in [Gids -> RecordType] /\ intent' \in [Gids -> Intents]
    BY <1>1, EmptyTyped DEF Intents
  <1>3. link' \in LinkType /\ ~link'.present /\ ~link'.downloaded
    BY <1>1 DEF Inv, Types, LinkType
  <1>4. Types'
    BY <1>1, <1>2, <1>3 DEF Inv, Types
  <1>5. Fenced' /\ Alone' /\ DownloadedThisLink'
    BY <1>3 DEF Fenced, Alone, FirstLink, DownloadedThisLink
  <1>6. Tombs'
    BY <1>1, EmptyTyped DEF Tombs
  <1> QED
    BY <1>4, <1>5, <1>6 DEF Inv

\* A link created anew is another version.
LEMMA CreateLinkKeeps ==
    ASSUME Inv, UNCHANGED kinds, CreateLink
    PROVE  Inv'
  <1>1. /\ link' = [version |-> link.version + 1, present |-> TRUE, downloaded |-> FALSE, by |-> 0]
        /\ UNCHANGED <<rec, remote, op, obs, intent>>
    BY DEF CreateLink
  <1>2. link' \in LinkType /\ link'.version # 1 /\ ~link'.downloaded
    BY <1>1 DEF Inv, Types, LinkType
  <1>3. Types'
    BY <1>1, <1>2 DEF Inv, Types
  <1>4. Fenced' /\ Alone' /\ DownloadedThisLink'
    BY <1>2 DEF Fenced, Alone, FirstLink, DownloadedThisLink
  <1>5. Tombs'
    BY <1>1 DEF Inv, Tombs
  <1> QED
    BY <1>3, <1>4, <1>5 DEF Inv

\* A crash ends every control and every pass; the fences stay.
LEMMA CrashKeeps ==
    ASSUME Inv, UNCHANGED kinds, Crash
    PROVE  Inv'
  <1>1. /\ op' = [a \in Actors |-> Idle] /\ obs' = [o \in Observers |-> Resting]
        /\ UNCHANGED <<rec, link, remote, intent>>
    BY DEF Crash
  <1>2. \A a \in Actors : PcSound(Idle)
    BY MayEnd DEF MayBecome
  <1>3. Types'
    BY <1>1, <1>2, EmptyTyped, RestingTyped DEF Inv, Types
  <1>4. Fenced' /\ Alone'
    BY <1>1, EmptyTyped DEF Fenced, Alone, Holds, Leased
  <1>5. Tombs' /\ DownloadedThisLink'
    BY <1>1 DEF Inv, Tombs, DownloadedThisLink
  <1> QED
    BY <1>3, <1>4, <1>5 DEF Inv

---------------------------------------------------------------------------
(* The invariant and what follows from it. *)

\* Before the first event nothing is stored, leased or observed.
LEMMA InitInv == Init => Inv
  <1> SUFFICES ASSUME Init PROVE Inv
    OBVIOUS
  <1>1. rec \in [Gids -> RecordType] /\ intent \in [Gids -> Intents] /\ remote \in [Gids -> Words]
    BY EmptyTyped DEF Init, Intents, Words
  <1>2. op \in [Actors -> ControlType] /\ obs \in [Observers -> PassType]
    BY EmptyTyped, RestingTyped DEF Init
  <1>3. link \in LinkType
    BY DEF Init, LinkType
  <1>4. \A a \in Actors : PcSound(op[a])
    BY MayEnd DEF MayBecome, Init
  <1>5. Types
    BY <1>1, <1>2, <1>3, <1>4 DEF Types, Init
  <1>6. Fenced /\ Alone
    BY EmptyTyped DEF Init, Fenced, Alone, Holds, Leased
  <1>7. Tombs /\ DownloadedThisLink
    BY EmptyTyped DEF Init, Tombs, DownloadedThisLink
  <1> QED
    BY <1>5, <1>6, <1>7 DEF Inv

\* Every step of users, governors, observers and the environment keeps Inv.
LEMMA NextInv == Inv /\ [Next]_vars => Inv'
  <1> SUFFICES ASSUME Inv, [Next]_vars PROVE Inv'
    OBVIOUS
  <1>1. CASE UNCHANGED vars
    <2>1. UNCHANGED <<rec, link, remote, op, intent, kinds, obs>>
      BY <1>1 DEF vars
    <2>2. obs' \in [Observers -> PassType]
      BY <2>1 DEF Inv, Types
    <2> QED
      BY <2>1, <2>2, PassMoves
  <1> SUFFICES ASSUME Changes, UNCHANGED kinds PROVE Inv'
    BY <1>1 DEF Next
  <1>2. ASSUME NEW a \in Actors, Submit(a) \/ Operate(a) PROVE Inv'
    BY <1>2, SubmitKeeps, ReserveKeeps, TellKeeps, RpcKeeps, FinishKeeps, FinishFailsKeeps,
       AddURIKeeps, RegisterKeeps, UndoKeeps, DropResultKeeps DEF Operate
  <1>3. ASSUME NEW u \in Users, NEW g \in Gids, NEW act \in {"pause", "resume", "delete"},
               ChangeTask(u, g, act)
        PROVE  Inv'
    <2>1. u \in Actors /\ act \in Controls /\ FALSE \in BOOLEAN /\ Begin(u, g, act, FALSE)
      BY <1>3 DEF ChangeTask, Actors, Controls
    <2> QED
      BY <2>1, BeginKeeps
  <1>4. ASSUME NEW u \in Users, NEW g \in Gids,
               PauseAll(u, g) \/ StartAll(u, g) \/ ClearStopped(u, g) \/ RetryStopped(u, g)
        PROVE  Inv'
    <2>1. PICK act \in Controls, f \in BOOLEAN : Begin(u, g, act, f)
      BY <1>4 DEF PauseAll, StartAll, ClearStopped, RetryStopped, Controls
    <2>2. u \in Actors
      BY DEF Actors
    <2> QED
      BY <2>1, <2>2, BeginKeeps
  <1>5. ASSUME NEW a \in Autos, NEW g \in Gids, NEW act \in {"pause", "resume"}, Change(a, g, act)
        PROVE  Inv'
    <2>1. a \in Actors /\ act \in Controls /\ TRUE \in BOOLEAN /\ Begin(a, g, act, TRUE)
      BY <1>5 DEF Change, Actors, Controls
    <2> QED
      BY <2>1, BeginKeeps
  <1>6. ASSUME NEW o \in Observers, Snapshot(o) \/ List(o) \/ EndObserve(o) \/ ListFails(o)
        PROVE  Inv'
    BY <1>6, SnapshotKeeps, ListKeeps, EndObserveKeeps, ListFailsKeeps
  <1>7. ASSUME NEW o \in Observers, NEW g \in Gids, Apply(o, g) PROVE Inv'
    BY <1>7, ApplyKeeps
  <1>8. ASSUME NEW g \in Gids, Progress(g) \/ FenceExpires(g) \/ Sweep(g) PROVE Inv'
    BY <1>8, ProgressKeeps, FenceExpiresKeeps, SweepKeeps
  <1>9. CASE RemoveLink \/ CreateLink \/ Crash
    BY <1>9, RemoveLinkKeeps, CreateLinkKeeps, CrashKeeps
  <1> QED
    BY <1>2, <1>3, <1>4, <1>5, <1>6, <1>7, <1>8, <1>9 DEF Changes

\* Inv holds throughout.
LEMMA InvHolds == Spec => []Inv
  BY InitInv, NextInv, PTL DEF Spec

\* A set whose members are all equal has at most one.
LEMMA AtMostOne ==
    ASSUME NEW S, \A a, b \in S : a = b
    PROVE  Cardinality(S) <= 1
  <1>1. CASE S = {}
    BY <1>1, FS_EmptySet
  <1>2. CASE S # {}
    <2>1. PICK a : S = {a}
      BY <1>2
    <2> QED
      BY <2>1, FS_Singleton
  <1> QED
    BY <1>1, <1>2

\* runControl and ReserveControl: for every number of users, governors, gids and observers,
\* while the link stays no two controls of a gid talk to aria2 at once, through lost calls,
\* storage failures, crashes, late registrations and expired fences.
THEOREM ControlsExcludeEachOther == Spec => []OneControl
  <1>1. Inv => OneControl
    <2> SUFFICES ASSUME Inv, FirstLink, NEW g \in Gids
                 PROVE  Cardinality({a \in Actors : Holds(a, g)}) <= 1
      BY DEF OneControl, FirstLink
    <2>1. \A a, b \in {c \in Actors : Holds(c, g)} : a = b
      BY DEF Inv, Alone
    <2> QED
      BY <2>1, AtMostOne
  <1> QED
    BY <1>1, InvHolds, PTL

\* FinishControl's tombstone and Apply's transaction: for every number of observers and
\* controls, no late reading or registration makes a deleted task a known one again, and
\* none completes a link other than the one it was read under.
THEOREM GoneIsGone == Spec => []GoneStaysGone
  <1>1. Inv => GoneStaysGone
    BY DEF Inv, Tombs, GoneStaysGone, DeletedStaysDeleted
  <1> QED
    BY <1>1, InvHolds, PTL

-----------------------------------------------------------------------------
(***************************************************************************)
(* The manager, the governors and the bot's event listener: Aria2Events,   *)
(* for any tasks, limits and thresholds and any number of events.          *)
(***************************************************************************)


MgrPcs == {"off", "connect", "backoff", "recover", "resume", "launch", "govern", "pause", "stopped"}
RecType == [status : Evt!Remote, owner : Evt!Owners \cup {Nobody}]

GovTypes ==
    /\ daemon \in [Tasks -> Evt!Remote] /\ records \in [Tasks -> RecType]
    /\ DOMAIN mgr = {"pc", "stop", "delay", "todo"} /\ mgr.pc \in MgrPcs /\ mgr.stop \in BOOLEAN
    /\ mgr.todo \in SUBSET Tasks /\ excused \in SUBSET Tasks
    /\ DOMAIN reg = {"pc", "queue", "ages", "rest", "todo", "paused"}
    /\ reg.todo \in SUBSET Tasks /\ reg.paused \in SUBSET Tasks
    /\ DOMAIN mon = {"pc", "stall", "todo", "cur"}
    /\ mon.stall \in [Tasks -> Int] /\ mon.todo \in SUBSET Tasks
    /\ mon.pc \in {"wait", "resume"} => mon.cur \in Tasks
    /\ quiet \in [Tasks -> Nat]

(* The governors run under a manager that governs, and under no other.     *)
Dormant == mgr.pc # "govern" => limiter = "off" /\ reg.pc = "off" /\ mon.pc = "off"

(* Automation keeps no books of tasks that only look like the account's.   *)
Unowned == \A t \in Tasks \cap Foreign : records[t].owner = Nobody

LeftPaused(t) == daemon[t] = "paused" /\ records[t].owner # Nobody

(* What automation left paused is still to be looked at, or excused.       *)
Resuming ==
    /\ mgr.pc = "resume" => \A t \in Tasks : LeftPaused(t) => t \in mgr.todo \cup excused
    /\ mgr.pc = "launch" /\ ~mgr.stop => \A t \in Tasks : LeftPaused(t) => t \in excused

(* The monitor's clocks never run ahead of what the polls saw.             *)
Clocked ==
    /\ \A t \in Tasks : mon.stall[t] >= -1 /\ mon.stall[t] <= quiet[t] /\ quiet[t] <= Stall
    /\ \A t \in mon.todo : quiet[t] >= Stall
    /\ mon.pc \in {"idle", "off"} => mon.todo = {}

GovInv == GovTypes /\ Dormant /\ Unowned /\ Resuming /\ Clocked

LoopType == [pc : {"free", "wait", "edit"}, task : Tasks \cup {Nobody}, canceled : BOOLEAN]
HandlerType == [pc : {"free", "begin", "tell", "send", "sending"},
                kind : {"start", "pause", "end", Nobody}, task : Tasks \cup {Nobody}]
ReportType == [kind : {"start", "pause", "end"}, task : Tasks]

(* aria2ProgressTracker: what ProgressOwned says of the loops and entries. *)
Tracker ==
    /\ items \in [Tasks -> Loops \cup {Nobody}] /\ loops \in [Loops -> LoopType]
    /\ \A l \in Loops : loops[l].pc # "free" =>
          loops[l].task \in Tasks /\ (~loops[l].canceled => items[loops[l].task] = l)
    /\ \A t \in Tasks : items[t] # Nobody =>
          loops[items[t]].pc # "free" /\ loops[items[t]].task = t

(* The listener, its handlers and the notification component: a closed     *)
(* tracker stays closed, with no handler left and, at the end, no loop; a  *)
(* closed component has no call under way.                                 *)
ListenerTypes ==
    /\ lis \in [pc : {"off", "dial", "up", "drain", "close"}, stop : BOOLEAN, ended : BOOLEAN,
                closed : BOOLEAN]
    /\ inbox \in Seq(ReportType)
    /\ handlers \in [Slots -> HandlerType]
    /\ \A s \in Slots : handlers[s].pc # "free" => handlers[s].task \in Tasks
    /\ notes \in [pc : {"open", "closing", "closed"}, queue : Nat, busy : BOOLEAN]
Ending ==
    /\ lis.closed => /\ lis.pc \in {"close", "off"}
                     /\ \A s \in Slots : handlers[s].pc = "free"
    /\ lis.closed /\ lis.pc = "off" => \A l \in Loops : loops[l].pc = "free"
Silenced ==
    notes.pc = "closed" => /\ ~notes.busy /\ \A s \in Slots : handlers[s].pc # "sending"
                           /\ \A l \in Loops : loops[l].pc # "edit"

EvtInv == Tracker /\ ListenerTypes /\ Ending /\ Silenced

-----------------------------------------------------------------------------
(* Progress loops *)

(* Cancelling marks loops that are alive.                                  *)
LEMMA CanceledFields ==
    ASSUME Tracker, NEW S
    PROVE  /\ Evt!Canceled(S) \in [Loops -> LoopType]
           /\ \A l \in Loops : /\ Evt!Canceled(S)[l].pc = loops[l].pc
                               /\ Evt!Canceled(S)[l].task = loops[l].task
                               /\ l \in S /\ Evt!Alive(l) => Evt!Canceled(S)[l].canceled
                               /\ loops[l].canceled => Evt!Canceled(S)[l].canceled
<1>1. ASSUME NEW l \in Loops
      PROVE  /\ Evt!Canceled(S)[l] \in LoopType /\ Evt!Canceled(S)[l].pc = loops[l].pc
             /\ Evt!Canceled(S)[l].task = loops[l].task
             /\ l \in S /\ Evt!Alive(l) => Evt!Canceled(S)[l].canceled
             /\ loops[l].canceled => Evt!Canceled(S)[l].canceled
  <2>1. loops[l] \in LoopType
    BY DEF Tracker, Evt!Alive
  <2>2. Evt!Canceled(S)[l] = IF l \in S /\ Evt!Alive(l) THEN [loops[l] EXCEPT !.canceled = TRUE]
                         ELSE loops[l]
    BY DEF Evt!Canceled
  <2>3. CASE l \in S /\ Evt!Alive(l)
    BY <2>1, <2>2, <2>3 DEF LoopType
  <2>4. CASE ~(l \in S /\ Evt!Alive(l))
    BY <2>1, <2>2, <2>4
  <2> QED
    BY <2>3, <2>4
<1>2. Evt!Canceled(S) = [l \in Loops |-> Evt!Canceled(S)[l]]
  BY DEF Evt!Canceled
<1> QED
  BY <1>1, <1>2

(* The listener and the calls, with the tracker as it is.                  *)
TrackerKept ==
    /\ items' = items /\ loops' \in [Loops -> LoopType]
    /\ \A l \in Loops : /\ (loops'[l].pc = "free") = (loops[l].pc = "free")
                        /\ loops'[l].task = loops[l].task
                        /\ loops[l].canceled => loops'[l].canceled

(* A step that moves no tracked item and no loop keeps the tracker's       *)
(* books.                                                                  *)
LEMMA TrackerKeeps ==
    ASSUME Tracker, TrackerKept
    PROVE  Tracker'
<1>1. \A l \in Loops : loops'[l].pc # "free" <=> Evt!Alive(l)
  BY DEF TrackerKept, Evt!Alive
<1>2. \A t \in Tasks : items[t] # Nobody => items[t] \in Loops
  BY DEF Tracker, EvtInv, ListenerTypes
<1> QED
  BY <1>1, <1>2 DEF TrackerKept, Tracker, Evt!Alive

(* A new loop for t.                                                       *)
LEMMA TrackKeeps ==
    ASSUME Evt!EventsAssumption, Tracker, lis.ended \in BOOLEAN, NEW t \in Tasks, NEW l \in Loops, ~Evt!Alive(l), Evt!Track(t, l)
    PROVE  /\ Tracker'
           /\ \A k \in Loops : k # l => loops'[k].pc = loops[k].pc
           /\ loops'[l].pc = "wait"
<1> DEFINE y == [pc |-> "wait", task |-> t, canceled |-> lis.ended]
           C == Evt!Canceled({items[t]})
<1>0. Tracker /\ lis.ended \in BOOLEAN
  OBVIOUS
<1>1. /\ C \in [Loops -> LoopType]
      /\ \A k \in Loops : /\ C[k].pc = loops[k].pc /\ C[k].task = loops[k].task
                          /\ k \in {items[t]} /\ Evt!Alive(k) => C[k].canceled
                          /\ loops[k].canceled => C[k].canceled
  BY <1>0, CanceledFields
<1>2. y \in LoopType /\ y.pc = "wait" /\ y.task = t
  BY <1>0 DEF LoopType
<1>3. loops' = [C EXCEPT ![l] = y] /\ items' = [items EXCEPT ![t] = l]
  BY DEF Evt!Track
<1> HIDE DEF y, C
<1>4. loops' \in [Loops -> LoopType] /\ loops'[l] = y /\ \A k \in Loops \ {l} : loops'[k] = C[k]
  BY <1>1, <1>2, <1>3
<1>5. /\ items' \in [Tasks -> Loops \cup {Nobody}] /\ items'[t] = l
      /\ \A u \in Tasks \ {t} : items'[u] = items[u]
  BY <1>0, <1>3 DEF Tracker, Evt!Alive
<1>6. \A k \in Loops \ {l} : loops'[k].pc # "free" <=> Evt!Alive(k)
  BY <1>1, <1>4 DEF Evt!Alive
<1>7. loops'[l].pc # "free"
  BY <1>2, <1>4 DEF Evt!Alive
<1>8. \A k \in Loops : loops'[k].pc # "free" => loops'[k].task \in Tasks
  BY <1>0, <1>1, <1>2, <1>4, <1>6 DEF Tracker, Evt!Alive
<1>9. ASSUME NEW k \in Loops, loops'[k].pc # "free", ~loops'[k].canceled PROVE items'[loops'[k].task] = k
  <2>1. CASE k = l
    BY <2>1, <1>2, <1>4, <1>5
  <2>2. CASE k # l
    <3>1. Evt!Alive(k) /\ ~loops[k].canceled /\ loops'[k].task = loops[k].task
      BY <1>9, <2>2, <1>1, <1>4, <1>6
    <3>2. items[loops[k].task] = k /\ loops[k].task \in Tasks
      BY <3>1, <1>0 DEF Tracker, Evt!Alive
    <3>3. loops[k].task # t
      BY <3>1, <3>2, <1>1, <1>4, <1>9, <2>2
    <3> QED
      BY <3>1, <3>2, <3>3, <1>5
  <2> QED
    BY <2>1, <2>2
<1>10. ASSUME NEW u \in Tasks, items'[u] # Nobody
       PROVE  loops'[items'[u]].pc # "free" /\ loops'[items'[u]].task = u
  <2>1. CASE u = t
    BY <2>1, <1>2, <1>4, <1>5, <1>7
  <2>2. CASE u # t
    <3>1. items'[u] = items[u] /\ items[u] \in Loops
      BY <1>10, <2>2, <1>0, <1>5 DEF Tracker, Evt!Alive
    <3>2. Evt!Alive(items[u]) /\ loops[items[u]].task = u /\ items[u] # l
      BY <3>1, <1>10, <1>0 DEF Tracker, Evt!Alive
    <3> QED
      BY <3>1, <3>2, <1>1, <1>4, <1>6
  <2> QED
    BY <2>1, <2>2
<1> QED
  BY <1>1, <1>2, <1>4, <1>5, <1>8, <1>9, <1>10 DEF Tracker

(* The entries of the tasks in T are removed and their loops cancelled.    *)
LEMMA UntrackKeeps ==
    ASSUME Evt!EventsAssumption, Tracker, NEW T \in SUBSET Tasks,
           loops' = Evt!Canceled({items[t] : t \in T}),
           items' = [t \in Tasks |-> IF t \in T THEN Nobody ELSE items[t]]
    PROVE  /\ Tracker'
           /\ \A k \in Loops : loops'[k].pc = loops[k].pc
<1>0. Tracker
  OBVIOUS
<1> DEFINE S == {items[t] : t \in T}
<1>1. /\ loops' \in [Loops -> LoopType]
      /\ \A k \in Loops : /\ loops'[k].pc = loops[k].pc /\ loops'[k].task = loops[k].task
                          /\ k \in S /\ Evt!Alive(k) => loops'[k].canceled
                          /\ loops[k].canceled => loops'[k].canceled
  BY <1>0, CanceledFields
<1>2. \A k \in Loops : loops'[k].pc # "free" <=> Evt!Alive(k)
  BY <1>1 DEF Evt!Alive
<1>3. items' \in [Tasks -> Loops \cup {Nobody}]
  BY <1>0 DEF Tracker, Evt!Alive
<1>4. \A k \in Loops : loops'[k].pc # "free" => loops'[k].task \in Tasks
  BY <1>0, <1>1, <1>2 DEF Tracker, Evt!Alive
<1>5. ASSUME NEW k \in Loops, loops'[k].pc # "free", ~loops'[k].canceled PROVE items'[loops'[k].task] = k
  <2>1. Evt!Alive(k) /\ ~loops[k].canceled /\ loops'[k].task = loops[k].task
    BY <1>1, <1>2, <1>5
  <2>2. items[loops[k].task] = k /\ loops[k].task \in Tasks
    BY <2>1, <1>0 DEF Tracker, Evt!Alive
  <2>3. loops[k].task \notin T
    BY <2>1, <2>2, <1>1, <1>5
  <2> QED
    BY <2>1, <2>2, <2>3
<1>6. ASSUME NEW u \in Tasks, items'[u] # Nobody
      PROVE  loops'[items'[u]].pc # "free" /\ loops'[items'[u]].task = u
  <2>1. items'[u] = items[u] /\ items[u] \in Loops
    BY <1>6, <1>0 DEF Tracker, Evt!Alive
  <2> QED
    BY <2>1, <1>6, <1>0, <1>1, <1>2 DEF Tracker, Evt!Alive
<1> QED
  BY <1>1, <1>3, <1>4, <1>5, <1>6 DEF Tracker

(* A loop ends and takes no entry but its own with it.                     *)
LEMMA LoopEndsKeeps ==
    ASSUME Evt!EventsAssumption, Tracker, NEW l \in Loops, Evt!Alive(l), Evt!LoopEnds(l)
    PROVE  /\ Tracker'
           /\ \A k \in Loops : loops'[k].pc \in {loops[k].pc, "free"}
<1>0. Tracker
  OBVIOUS
<1> DEFINE t == loops[l].task
<1>1. t \in Tasks
  BY <1>0 DEF Tracker, Evt!Alive
<1>2. Evt!NoLoop \in LoopType /\ Evt!NoLoop.pc = "free"
  BY DEF Evt!NoLoop, LoopType
<1>3. /\ loops' \in [Loops -> LoopType] /\ loops'[l] = Evt!NoLoop
      /\ \A k \in Loops \ {l} : loops'[k] = loops[k]
  BY <1>0, <1>2 DEF Evt!LoopEnds, Tracker, Evt!Alive
<1>4. /\ items' \in [Tasks -> Loops \cup {Nobody}]
      /\ items'[t] = IF items[t] = l THEN Nobody ELSE items[t]
      /\ \A u \in Tasks \ {t} : items'[u] = items[u]
  BY <1>0, <1>1 DEF Evt!LoopEnds, Tracker, Evt!Alive
<1>5. loops'[l].pc = "free" /\ \A k \in Loops \ {l} : loops'[k].pc # "free" <=> Evt!Alive(k)
  BY <1>2, <1>3 DEF Evt!Alive
<1> HIDE DEF t
<1>6. \A k \in Loops : loops'[k].pc # "free" => loops'[k].task \in Tasks
  BY <1>0, <1>3, <1>5 DEF Tracker, Evt!Alive
<1>7. ASSUME NEW k \in Loops, loops'[k].pc # "free", ~loops'[k].canceled PROVE items'[loops'[k].task] = k
  <2>1. k # l /\ Evt!Alive(k) /\ ~loops[k].canceled /\ loops'[k] = loops[k]
    BY <1>3, <1>5, <1>7
  <2>2. items[loops[k].task] = k /\ loops[k].task \in Tasks
    BY <2>1, <1>0 DEF Tracker, Evt!Alive
  <2> QED
    BY <2>1, <2>2, <1>4
<1>8. ASSUME NEW u \in Tasks, items'[u] # Nobody
      PROVE  loops'[items'[u]].pc # "free" /\ loops'[items'[u]].task = u
  <2>1. items'[u] = items[u] /\ items[u] \in Loops
    BY <1>8, <1>0, <1>4 DEF Tracker, Evt!Alive
  <2>2. Evt!Alive(items[u]) /\ loops[items[u]].task = u
    BY <2>1, <1>8, <1>0 DEF Tracker, Evt!Alive
  <2>3. items[u] # l
    BY <2>1, <2>2, <1>4, <1>8 DEF t
  <2> QED
    BY <2>1, <2>2, <2>3, <1>3, <1>5
<1> QED
  BY <1>2, <1>3, <1>4, <1>6, <1>7, <1>8 DEF Tracker

-----------------------------------------------------------------------------
(* The notification component *)

NotesType == [pc : {"open", "closing", "closed"}, queue : Nat, busy : BOOLEAN]

(* A step of the component alone.                                          *)
LEMMA NotesMove ==
    ASSUME EvtInv, notes' \in NotesType, notes'.pc = "closed" => ~notes'.busy /\ ~Evt!Calling,
           UNCHANGED <<lis, inbox, handlers, items, loops>>
    PROVE  EvtInv'
<1>1. Tracker'
  BY DEF EvtInv, Tracker
<1>2. ListenerTypes' /\ Ending'
  BY DEF EvtInv, ListenerTypes, Ending, NotesType
<1>3. Silenced'
  BY DEF EvtInv, Silenced, Evt!Calling
<1> QED
  BY <1>1, <1>2, <1>3 DEF EvtInv

(* Enqueue keeps EvtInv.                                                   *)
LEMMA EnqueueKeeps == ASSUME EvtInv, Evt!Enqueue PROVE EvtInv'
<1>1. notes \in NotesType /\ (notes.pc = "closed" => ~notes.busy /\ ~Evt!Calling)
  BY DEF EvtInv, ListenerTypes, Silenced, Evt!Calling, NotesType
<1>2. CASE Evt!MayCall
  <2> DEFINE y == [notes EXCEPT !.queue = 1]
  <2>1. y \in NotesType /\ y.pc = "open"
    BY <1>1, <1>2 DEF NotesType, Evt!MayCall
  <2>2. notes' = y
    BY <1>2 DEF Evt!Enqueue
  <2> HIDE DEF y
  <2> QED
    BY <2>1, <2>2, NotesMove DEF Evt!Enqueue
<1>3. CASE ~Evt!MayCall
  BY <1>1, <1>3, NotesMove DEF Evt!Enqueue
<1> QED
  BY <1>2, <1>3

(* Deliver keeps EvtInv.                                                   *)
LEMMA DeliverKeeps == ASSUME EvtInv, Evt!Deliver PROVE EvtInv'
<1>1. notes \in NotesType /\ (notes.pc = "closed" => ~notes.busy /\ ~Evt!Calling)
  BY DEF EvtInv, ListenerTypes, Silenced, Evt!Calling, NotesType
<1>2. CASE /\ notes.queue > 0 /\ Evt!MayCall /\ notes' = [notes EXCEPT !.queue = @ - 1, !.busy = TRUE]
  <2> DEFINE q == notes.queue - 1
             y == [notes EXCEPT !.queue = q, !.busy = TRUE]
  <2>1. q \in Nat
    BY <1>1, <1>2 DEF NotesType
  <2>2. notes' = y
    BY <1>2
  <2> HIDE DEF q
  <2>3. y \in NotesType /\ y.pc = "open"
    BY <1>1, <1>2, <2>1 DEF NotesType, Evt!MayCall
  <2> HIDE DEF y
  <2> QED
    BY <2>2, <2>3, NotesMove DEF Evt!Deliver
<1>3. CASE notes.busy /\ notes' = [notes EXCEPT !.busy = FALSE]
  <2> DEFINE y == [notes EXCEPT !.busy = FALSE]
  <2>1. y \in NotesType /\ y.pc = notes.pc
    BY <1>1 DEF NotesType
  <2>2. notes.pc # "closed"
    BY <1>1, <1>3
  <2> QED
    BY <1>3, <2>1, <2>2, NotesMove DEF Evt!Deliver
<1> QED
  BY <1>2, <1>3 DEF Evt!Deliver

(* StopNotes keeps EvtInv.                                                 *)
LEMMA StopNotesKeeps == ASSUME EvtInv, Evt!StopNotes PROVE EvtInv'
<1> DEFINE y == [notes EXCEPT !.pc = "closing", !.queue = 0]
<1>1. notes \in NotesType
  BY DEF EvtInv, ListenerTypes, NotesType
<1>2. y \in NotesType /\ y.pc = "closing"
  BY <1>1 DEF NotesType
<1>3. notes' = y
  BY DEF Evt!StopNotes
<1> HIDE DEF y
<1> QED
  BY <1>2, <1>3, NotesMove DEF Evt!StopNotes

(* NotesStopped keeps EvtInv.                                              *)
LEMMA NotesStoppedKeeps == ASSUME EvtInv, Evt!NotesStopped PROVE EvtInv'
<1> DEFINE y == [notes EXCEPT !.pc = "closed"]
<1>1. notes \in NotesType /\ ~Evt!Calling /\ ~notes.busy
  BY DEF EvtInv, ListenerTypes, NotesType, Evt!NotesStopped, Evt!Calling
<1>2. y \in NotesType /\ y.busy = notes.busy
  BY <1>1 DEF NotesType
<1>3. notes' = y
  BY DEF Evt!NotesStopped
<1> HIDE DEF y
<1> QED
  BY <1>1, <1>2, <1>3, NotesMove DEF Evt!NotesStopped

(* StartNotes keeps EvtInv.                                                *)
LEMMA StartNotesKeeps == ASSUME EvtInv, Evt!StartNotes PROVE EvtInv'
<1>1. notes' \in NotesType /\ notes'.pc = "open"
  BY DEF Evt!StartNotes, NotesType
<1> QED
  BY <1>1, NotesMove DEF Evt!StartNotes

-----------------------------------------------------------------------------
(* The loops and the handlers *)

(* A tick edits the message, or the loop ends.                             *)
LEMMA ProgressLoopKeeps ==
    ASSUME Evt!EventsAssumption, EvtInv, NEW l \in Loops, Evt!ProgressLoop(l) PROVE EvtInv'
<1>0. /\ Tracker /\ Evt!Alive(l) /\ UNCHANGED <<lis, inbox, handlers, notes>>
      /\ ListenerTypes' /\ loops[l] \in LoopType
  BY DEF EvtInv, Evt!ProgressLoop, Evt!Alive, ListenerTypes, Tracker
<1>1. CASE Evt!LoopEnds(l)
  <2>1. Tracker' /\ \A k \in Loops : loops'[k].pc \in {loops[k].pc, "free"}
    BY <1>0, <1>1, LoopEndsKeeps
  <2>2. Ending' /\ Silenced'
    BY <2>1, <1>0 DEF EvtInv, Ending, Silenced
  <2> QED
    BY <2>1, <2>2, <1>0 DEF EvtInv
<1>2. CASE loops' = [loops EXCEPT ![l].pc = "edit"] /\ items' = items /\ Evt!MayCall
  <2> DEFINE y == [loops[l] EXCEPT !.pc = "edit"]
  <2>1. y \in LoopType /\ y.pc = "edit" /\ y.task = loops[l].task /\ y.canceled = loops[l].canceled
    BY <1>0 DEF LoopType
  <2>2. loops' = [loops EXCEPT ![l] = y]
    BY <1>0, <1>2 DEF LoopType, Tracker
  <2> HIDE DEF y
  <2>3. /\ loops' \in [Loops -> LoopType] /\ loops'[l] = y
        /\ \A k \in Loops \ {l} : loops'[k] = loops[k]
    BY <2>1, <2>2, <1>0 DEF Tracker
  <2>4. Tracker'
    BY <2>1, <2>3, <1>0, <1>2, TrackerKeeps DEF TrackerKept, Evt!Alive
  <2>5. Ending' /\ Silenced'
    BY <2>1, <2>3, <1>0, <1>2 DEF EvtInv, Ending, Silenced, Evt!MayCall, Evt!Alive
  <2> QED
    BY <2>4, <2>5, <1>0 DEF EvtInv
<1>3. CASE loops' = [loops EXCEPT ![l].pc = "wait"] /\ items' = items /\ loops[l].pc = "edit"
  <2> DEFINE y == [loops[l] EXCEPT !.pc = "wait"]
  <2>1. y \in LoopType /\ y.pc = "wait" /\ y.task = loops[l].task /\ y.canceled = loops[l].canceled
    BY <1>0 DEF LoopType
  <2>2. loops' = [loops EXCEPT ![l] = y]
    BY <1>0, <1>3 DEF LoopType, Tracker
  <2> HIDE DEF y
  <2>3. /\ loops' \in [Loops -> LoopType] /\ loops'[l] = y
        /\ \A k \in Loops \ {l} : loops'[k] = loops[k]
    BY <2>1, <2>2, <1>0 DEF Tracker
  <2>4. Tracker'
    BY <2>1, <2>3, <1>0, <1>3, TrackerKeeps DEF TrackerKept, Evt!Alive
  <2>5. Ending' /\ Silenced'
    BY <2>1, <2>3, <1>0, <1>3 DEF EvtInv, Ending, Silenced, Evt!Alive
  <2> QED
    BY <2>4, <2>5, <1>0 DEF EvtInv
<1>4. CASE UNCHANGED <<items, loops>>
  BY <1>0, <1>4 DEF EvtInv, Tracker, Ending, Silenced
<1> QED
  BY <1>1, <1>2, <1>3, <1>4 DEF Evt!ProgressLoop

(* A handler moves on; the tracker is unchanged.                           *)
LEMMA HandlerMoves ==
    ASSUME EvtInv, NEW s \in Slots, NEW h \in HandlerType, handlers' = [handlers EXCEPT ![s] = h],
           h.pc # "free" => h.task \in Tasks /\ ~lis.closed,
           h.pc = "sending" => notes.pc # "closed",
           inbox' \in Seq(ReportType), UNCHANGED <<lis, notes>>,
           Tracker', \A l \in Loops : loops'[l].pc # loops[l].pc => loops'[l].pc = "wait" /\ ~lis.closed
    PROVE  EvtInv'
<1>1. /\ handlers' \in [Slots -> HandlerType] /\ handlers'[s] = h
      /\ \A r \in Slots \ {s} : handlers'[r] = handlers[r]
  BY DEF EvtInv, ListenerTypes
<1>2. ListenerTypes'
  BY <1>1 DEF EvtInv, ListenerTypes
<1>3. Ending'
  BY <1>1 DEF EvtInv, Ending
<1>4. Silenced'
  BY <1>1 DEF EvtInv, Silenced
<1> QED
  BY <1>2, <1>3, <1>4 DEF EvtInv

(* Handle keeps EvtInv.                                                    *)
LEMMA HandleKeeps ==
    ASSUME Evt!EventsAssumption, EvtInv, NEW s \in Slots, Evt!Handle(s) PROVE EvtInv'
<1>0. /\ handlers[s] \in HandlerType /\ handlers[s].pc = "begin" /\ handlers[s].task \in Tasks
      /\ ~lis.closed /\ Tracker /\ UNCHANGED <<lis, inbox, notes>>
  BY DEF EvtInv, ListenerTypes, Ending, Evt!Handle
<1> DEFINE h == [handlers[s] EXCEPT !.pc = "tell"]
           t == handlers[s].task
<1>1. h \in HandlerType /\ h.pc = "tell" /\ h.task \in Tasks
  BY <1>0 DEF HandlerType
<1>2. handlers' = [handlers EXCEPT ![s] = h]
  BY DEF Evt!Handle, Evt!Ask, Evt!Handler
<1>3. Tracker' /\ \A l \in Loops : loops'[l].pc = loops[l].pc
  <2>1. CASE UNCHANGED <<items, loops>>
    BY <2>1, <1>0 DEF Tracker
  <2>2. CASE Evt!Untrack(t)
    <3>1. {t} \in SUBSET Tasks /\ {items[t]} = {items[u] : u \in {t}}
      BY <1>0
    <3>2. items' = [u \in Tasks |-> IF u \in {t} THEN Nobody ELSE items[u]]
      BY <2>2, <1>0 DEF Evt!Untrack, Tracker
    <3>3. loops' = Evt!Canceled({items[u] : u \in {t}})
      BY <2>2, <3>1 DEF Evt!Untrack
    <3> HIDE DEF t
    <3> QED
      BY <3>1, <3>2, <3>3, <1>0, UntrackKeeps
  <2> QED
    BY <2>1, <2>2 DEF Evt!Handle
<1>4. inbox' \in Seq(ReportType)
  BY <1>0 DEF EvtInv, ListenerTypes
<1> HIDE DEF h
<1> QED
  BY <1>0, <1>1, <1>2, <1>3, <1>4, HandlerMoves

(* HandlerTells keeps EvtInv.                                              *)
LEMMA HandlerTellsKeeps ==
    ASSUME EvtInv, NEW s \in Slots, Evt!HandlerTells(s) PROVE EvtInv'
<1>0. /\ handlers[s] \in HandlerType /\ handlers[s].pc = "tell" /\ handlers[s].task \in Tasks
      /\ ~lis.closed /\ UNCHANGED <<lis, inbox, items, loops, notes>> /\ Tracker'
      /\ inbox' \in Seq(ReportType)
  BY DEF EvtInv, ListenerTypes, Ending, Evt!HandlerTells, Tracker
<1> DEFINE h == [handlers[s] EXCEPT !.pc = "send"]
<1>1. h \in HandlerType /\ h.pc = "send" /\ h.task \in Tasks
  BY <1>0 DEF HandlerType
<1>2. Evt!Free \in HandlerType /\ Evt!Free.pc = "free"
  BY DEF Evt!Free, HandlerType
<1>3. handlers' = [handlers EXCEPT ![s] = h] \/ handlers' = [handlers EXCEPT ![s] = Evt!Free]
  BY DEF Evt!HandlerTells, Evt!Handler
<1> HIDE DEF h
<1> QED
  BY <1>0, <1>1, <1>2, <1>3, HandlerMoves

(* HandlerCalls keeps EvtInv.                                              *)
LEMMA HandlerCallsKeeps ==
    ASSUME EvtInv, NEW s \in Slots, Evt!HandlerCalls(s) PROVE EvtInv'
<1>0. /\ handlers[s] \in HandlerType /\ handlers[s].pc = "send" /\ handlers[s].task \in Tasks
      /\ ~lis.closed /\ UNCHANGED <<lis, inbox, items, loops, notes>> /\ Tracker'
      /\ inbox' \in Seq(ReportType)
  BY DEF EvtInv, ListenerTypes, Ending, Evt!HandlerCalls, Tracker
<1> DEFINE h == [handlers[s] EXCEPT !.pc = "sending"]
<1>1. h \in HandlerType /\ h.pc = "sending" /\ h.task \in Tasks
  BY <1>0 DEF HandlerType
<1>2. Evt!Free \in HandlerType /\ Evt!Free.pc = "free"
  BY DEF Evt!Free, HandlerType
<1>3. \/ notes.pc = "open" /\ handlers' = [handlers EXCEPT ![s] = h]
      \/ handlers' = [handlers EXCEPT ![s] = Evt!Free]
  BY DEF Evt!HandlerCalls, Evt!Handler, Evt!MayCall
<1> HIDE DEF h
<1>4. CASE notes.pc = "open" /\ handlers' = [handlers EXCEPT ![s] = h]
  BY <1>0, <1>1, <1>4, HandlerMoves
<1>5. CASE handlers' = [handlers EXCEPT ![s] = Evt!Free]
  BY <1>0, <1>2, <1>5, HandlerMoves
<1> QED
  BY <1>3, <1>4, <1>5

(* HandlerSends keeps EvtInv.                                              *)
LEMMA HandlerSendsKeeps ==
    ASSUME Evt!EventsAssumption, EvtInv, NEW s \in Slots, Evt!HandlerSends(s) PROVE EvtInv'
<1>0. /\ handlers[s].pc = "sending" /\ handlers[s].task \in Tasks /\ ~lis.closed
      /\ UNCHANGED <<lis, inbox, notes>> /\ Tracker /\ lis.ended \in BOOLEAN
      /\ inbox' \in Seq(ReportType) /\ handlers' = [handlers EXCEPT ![s] = Evt!Free]
  BY DEF EvtInv, ListenerTypes, Ending, Evt!HandlerSends, Evt!Handler
<1>1. Evt!Free \in HandlerType /\ Evt!Free.pc = "free"
  BY DEF Evt!Free, HandlerType
<1>2. \/ UNCHANGED <<items, loops>>
      \/ \E l \in Loops : ~Evt!Alive(l) /\ Evt!Track(handlers[s].task, l)
  BY DEF Evt!HandlerSends
<1>3. CASE UNCHANGED <<items, loops>>
  <2>1. Tracker'
    BY <1>0, <1>3 DEF Tracker
  <2> QED
    BY <2>1, <1>0, <1>1, <1>3, HandlerMoves
<1>4. ASSUME NEW l \in Loops, ~Evt!Alive(l), Evt!Track(handlers[s].task, l) PROVE EvtInv'
  <2>1. PICK t \in Tasks : t = handlers[s].task
    BY <1>0
  <2>2. Tracker' /\ (\A k \in Loops : k # l => loops'[k].pc = loops[k].pc) /\ loops'[l].pc = "wait"
    BY <2>1, <1>0, <1>4, TrackKeeps
  <2> QED
    BY <2>2, <1>0, <1>1, HandlerMoves
<1> QED
  BY <1>2, <1>3, <1>4

-----------------------------------------------------------------------------
(* The listener *)

LisType == [pc : {"off", "dial", "up", "drain", "close"}, stop : BOOLEAN, ended : BOOLEAN,
            closed : BOOLEAN]

(* The listener moves between its stages; the tracker is not closed.       *)
LEMMA ListenerMoves ==
    ASSUME EvtInv, lis' \in LisType, lis'.closed = lis.closed, lis.closed => lis'.pc = lis.pc,
           UNCHANGED <<handlers, notes>>, inbox' \in Seq(ReportType),
           TrackerKept, \A l \in Loops : loops'[l].pc = loops[l].pc
    PROVE  EvtInv'
<1>1. Tracker'
  BY TrackerKeeps DEF EvtInv
<1>2. ListenerTypes'
  BY DEF EvtInv, ListenerTypes, LisType
<1>3. Ending'
  BY DEF EvtInv, Ending
<1>4. Silenced'
  BY DEF EvtInv, Silenced
<1> QED
  BY <1>1, <1>2, <1>3, <1>4 DEF EvtInv

(* Nothing of the tracker moves when its items and loops do not.           *)
LEMMA TrackerSame ==
    ASSUME EvtInv, UNCHANGED <<items, loops>>
    PROVE  TrackerKept /\ \A l \in Loops : loops'[l].pc = loops[l].pc
BY DEF EvtInv, Tracker, TrackerKept

(* Listen keeps EvtInv.                                                    *)
LEMMA ListenKeeps == ASSUME EvtInv, Evt!Listen PROVE EvtInv'
<1> DEFINE y == [lis EXCEPT !.pc = "dial"]
<1>1. y \in LisType /\ y.closed = lis.closed /\ ~lis.closed
  BY DEF EvtInv, ListenerTypes, LisType, Evt!Listen
<1>2. lis' = y /\ UNCHANGED <<handlers, notes, items, loops>> /\ inbox' \in Seq(ReportType)
  BY DEF Evt!Listen, Evt!Listener, EvtInv, ListenerTypes
<1> HIDE DEF y
<1> QED
  BY <1>1, <1>2, TrackerSame, ListenerMoves

(* Dial keeps EvtInv.                                                      *)
LEMMA DialKeeps == ASSUME EvtInv, Evt!Dial PROVE EvtInv'
<1> DEFINE y == [lis EXCEPT !.pc = "up"]
<1>1. y \in LisType /\ y.closed = lis.closed /\ ~lis.closed
  BY DEF EvtInv, ListenerTypes, LisType, Evt!Dial, Ending
<1>2. Evt!Ended \in LisType /\ Evt!Ended.closed = lis.closed
  BY DEF EvtInv, ListenerTypes, LisType, Evt!Ended
<1>3. /\ lis' \in {y, Evt!Ended}
      /\ UNCHANGED <<handlers, notes, items, loops>> /\ inbox' \in Seq(ReportType)
  BY DEF Evt!Dial, Evt!Listener, EvtInv, ListenerTypes
<1> HIDE DEF y
<1> QED
  BY <1>1, <1>2, <1>3, TrackerSame, ListenerMoves

(* StopListener keeps EvtInv.                                              *)
LEMMA StopListenerKeeps == ASSUME EvtInv, Evt!StopListener PROVE EvtInv'
<1> DEFINE y == [lis EXCEPT !.stop = TRUE]
<1>1. y \in LisType /\ y.closed = lis.closed /\ y.pc = lis.pc
  BY DEF EvtInv, ListenerTypes, LisType
<1>2. lis' = y /\ UNCHANGED <<handlers, notes, items, loops>> /\ inbox' \in Seq(ReportType)
  BY DEF Evt!StopListener, Evt!Listener, EvtInv, ListenerTypes
<1> HIDE DEF y
<1> QED
  BY <1>1, <1>2, TrackerSame, ListenerMoves

(* Disconnect keeps EvtInv.                                                *)
LEMMA DisconnectKeeps == ASSUME EvtInv, Evt!Disconnect PROVE EvtInv'
<1>1. Evt!Ended \in LisType /\ Evt!Ended.closed = lis.closed /\ ~lis.closed
  BY DEF EvtInv, ListenerTypes, LisType, Evt!Ended, Evt!Disconnect, Ending
<1>2. /\ lis' = Evt!Ended /\ UNCHANGED <<handlers, notes, items>> /\ inbox' \in Seq(ReportType)
      /\ loops' = Evt!Canceled(Loops) /\ Tracker
  BY DEF Evt!Disconnect, Evt!Listener, EvtInv, ListenerTypes
<1>3. TrackerKept /\ \A l \in Loops : loops'[l].pc = loops[l].pc
  BY <1>2, CanceledFields DEF TrackerKept
<1> QED
  BY <1>1, <1>2, <1>3, ListenerMoves

(* One report is read, into a free slot.                                   *)
LEMMA ReadKeeps == ASSUME EvtInv, NEW s \in Slots, Evt!Read(s) PROVE EvtInv'
<1>0. /\ inbox \in Seq(ReportType) /\ inbox # <<>> /\ ~lis.closed
      /\ UNCHANGED <<lis, items, loops, notes>>
      /\ inbox' = Tail(inbox)
  BY DEF Evt!Read, EvtInv, ListenerTypes, Ending
<1> DEFINE h == [pc |-> "begin", kind |-> Head(inbox).kind, task |-> Head(inbox).task]
<1>1. Head(inbox) \in ReportType /\ Tail(inbox) \in Seq(ReportType)
  BY <1>0
<1>2. h \in HandlerType /\ h.pc = "begin" /\ h.task \in Tasks
  BY <1>1 DEF ReportType, HandlerType
<1>3. handlers' = [handlers EXCEPT ![s] = h]
  BY DEF Evt!Read, Evt!Handler
<1>4. Tracker'
  BY <1>0 DEF EvtInv, Tracker
<1> HIDE DEF h
<1> QED
  BY <1>0, <1>1, <1>2, <1>3, <1>4, HandlerMoves

(* DrainHandlers keeps EvtInv.                                             *)
LEMMA DrainHandlersKeeps == ASSUME Evt!EventsAssumption, EvtInv, Evt!DrainHandlers PROVE EvtInv'
<1>0. /\ Tracker /\ UNCHANGED <<inbox, handlers, notes>> /\ inbox' \in Seq(ReportType)
      /\ \A s \in Slots : handlers[s].pc = "free"
      /\ lis \in LisType /\ lis.pc = "drain" /\ ~lis.closed
  BY DEF EvtInv, ListenerTypes, LisType, Evt!DrainHandlers, Ending
<1>1. CASE lis.stop
  <2> DEFINE y == [lis EXCEPT !.pc = "close", !.closed = TRUE]
  <2>1. y \in LisType /\ y.pc = "close" /\ y.closed
    BY <1>0 DEF LisType
  <2>2. lis' = y
    BY <1>1 DEF Evt!DrainHandlers, Evt!Listener
  <2>3. Tracker' /\ \A k \in Loops : loops'[k].pc = loops[k].pc
    <3>1. Tasks \in SUBSET Tasks /\ loops' = Evt!Canceled({items[t] : t \in Tasks})
      BY <1>1 DEF Evt!DrainHandlers
    <3>2. items' = [t \in Tasks |-> IF t \in Tasks THEN Nobody ELSE items[t]]
      BY <1>1 DEF Evt!DrainHandlers
    <3> QED
      BY <3>1, <3>2, <1>0, UntrackKeeps
  <2> HIDE DEF y
  <2>4. ListenerTypes'
    BY <2>1, <2>2, <1>0 DEF EvtInv, ListenerTypes, LisType
  <2>5. Ending' /\ Silenced'
    BY <2>1, <2>2, <2>3, <1>0 DEF EvtInv, Ending, Silenced
  <2> QED
    BY <2>3, <2>4, <2>5 DEF EvtInv
<1>2. CASE ~lis.stop
  <2> DEFINE y == [lis EXCEPT !.pc = "dial", !.ended = FALSE]
  <2>1. y \in LisType /\ y.closed = lis.closed
    BY <1>0 DEF LisType
  <2>2. lis' = y /\ UNCHANGED <<items, loops>>
    BY <1>2 DEF Evt!DrainHandlers, Evt!Listener
  <2> HIDE DEF y
  <2> QED
    BY <2>1, <2>2, <1>0, TrackerSame, ListenerMoves
<1> QED
  BY <1>1, <1>2

(* Close keeps EvtInv.                                                     *)
LEMMA CloseKeeps == ASSUME EvtInv, Evt!Close PROVE EvtInv'
<1> DEFINE y == [lis EXCEPT !.pc = "off"]
<1>0. /\ UNCHANGED <<inbox, handlers, items, loops, notes>> /\ \A l \in Loops : loops[l].pc = "free"
      /\ lis \in LisType /\ lis.pc = "close" /\ inbox \in Seq(ReportType)
  BY DEF EvtInv, ListenerTypes, LisType, Evt!Close, Evt!Alive
<1>1. y \in LisType /\ y.closed = lis.closed /\ y.pc = "off"
  BY <1>0 DEF LisType
<1>2. lis' = y
  BY DEF Evt!Close, Evt!Listener
<1> HIDE DEF y
<1>3. Tracker'
  BY <1>0 DEF EvtInv, Tracker
<1>4. ListenerTypes'
  BY <1>0, <1>1, <1>2 DEF EvtInv, ListenerTypes, LisType
<1>5. Ending'
  BY <1>0, <1>1, <1>2 DEF EvtInv, Ending
<1>6. Silenced'
  BY <1>0 DEF EvtInv, Silenced
<1> QED
  BY <1>3, <1>4, <1>5, <1>6 DEF EvtInv

(* A step of the governors or of the outside reports to the listener.      *)
LEMMA ReportedKeeps == ASSUME EvtInv, Evt!Reported PROVE EvtInv'
<1> DEFINE changed == {t \in Tasks : daemon'[t] # daemon[t]}
           t == CHOOSE u \in changed : TRUE
<1>0. UNCHANGED <<lis, handlers, items, loops, notes>> /\ inbox \in Seq(ReportType)
  BY DEF Evt!Reported, EvtInv, ListenerTypes
<1>1. changed # {} => t \in Tasks
  OBVIOUS
<1>2. ASSUME NEW u \in Tasks PROVE Evt!Reports(u) \in Seq(ReportType)
  <2>1. /\ [kind |-> "start", task |-> u] \in ReportType /\ [kind |-> "pause", task |-> u] \in ReportType
        /\ [kind |-> "end", task |-> u] \in ReportType
    BY DEF ReportType
  <2> QED
    BY <2>1 DEF Evt!Reports
<1>3. inbox' = inbox \/ (changed # {} /\ inbox' = inbox \o Evt!Reports(t))
  BY DEF Evt!Reported
<1> HIDE DEF changed, t
<1>4. inbox' \in Seq(ReportType)
  <2>1. CASE inbox' = inbox
    BY <2>1, <1>0
  <2>2. CASE changed # {} /\ inbox' = inbox \o Evt!Reports(t)
    <3>1. PICK r \in Seq(ReportType) : r = Evt!Reports(t)
      BY <2>2, <1>1, <1>2
    <3> QED
      BY <3>1, <2>2, <1>0, ConcatProperties
  <2> QED
    BY <1>3, <2>1, <2>2
<1>5. Tracker' /\ Silenced' /\ Ending'
  BY <1>0 DEF EvtInv, Tracker, Silenced, Ending
<1>6. ListenerTypes'
  BY <1>0, <1>4 DEF EvtInv, ListenerTypes
<1> QED
  BY <1>5, <1>6 DEF EvtInv

(* Listening keeps EvtInv.                                                 *)
LEMMA ListeningKeeps == ASSUME Evt!EventsAssumption, EvtInv, Evt!Listening PROVE EvtInv'
BY DialKeeps, DisconnectKeeps, DrainHandlersKeeps, CloseKeeps, DeliverKeeps, NotesStoppedKeeps,
   StopNotesKeeps, ReadKeeps, HandleKeeps, HandlerTellsKeeps, HandlerCallsKeeps, HandlerSendsKeeps,
   ProgressLoopKeeps
   DEF Evt!Listening, Evt!CloseNotifier

(* The listener starts with its books in order.                            *)
LEMMA EvtInitial == ASSUME Evt!EventsAssumption, Evt!EvtInit PROVE EvtInv
<1>1. Tracker
  BY DEF Evt!EvtInit, Evt!NoLoop, Tracker, LoopType
<1>2. ListenerTypes
  BY DEF Evt!EvtInit, Evt!Free, ListenerTypes, HandlerType
<1>3. Ending /\ Silenced
  BY DEF Evt!EvtInit, Evt!Free, Evt!NoLoop, Ending, Silenced
<1> QED
  BY <1>1, <1>2, <1>3 DEF EvtInv

-----------------------------------------------------------------------------
(* Controls *)

ActKinds == {"pause", "resume"}

(* What a control leaves behind, whether it was made, skipped or failed.   *)
Controlled(a, t, act) ==
    \/ Evt!Change(a, t, act)
    \/ UNCHANGED <<daemon, records>>
    \/ /\ Evt!Changes(a, t, act) /\ UNCHANGED records
       /\ daemon' = [daemon EXCEPT ![t] = IF act = "pause" THEN "paused" ELSE "waiting"]

Booked ==
    /\ daemon' \in [Tasks -> Evt!Remote] /\ records' \in [Tasks -> RecType]
    /\ \A t \in Tasks \cap Foreign : records'[t].owner = Nobody

(* A record is written with an owner only for a pause.                     *)
LEMMA RecordedFields ==
    ASSUME records \in [Tasks -> RecType], Unowned, NEW t \in Tasks, Evt!Registered(t), NEW st \in Evt!Remote,
           NEW o \in Evt!Owners \cup {Nobody}, Evt!Recorded(t, st, o)
    PROVE  /\ records' \in [Tasks -> RecType] /\ \A u \in Tasks \ {t} : records'[u] = records[u]
           /\ records'[t].owner = IF st = "paused" THEN o ELSE Nobody
           /\ \A u \in Tasks \cap Foreign : records'[u].owner = Nobody
<1> DEFINE y == [status |-> st, owner |-> IF st = "paused" THEN o ELSE Nobody]
<1>1. y \in RecType /\ y.owner = IF st = "paused" THEN o ELSE Nobody
  BY DEF RecType
<1>2. records' = [records EXCEPT ![t] = y]
  BY DEF Evt!Recorded
<1> HIDE DEF y
<1>3. records' \in [Tasks -> RecType] /\ records'[t] = y /\ \A u \in Tasks \ {t} : records'[u] = records[u]
  BY <1>1, <1>2
<1> QED
  BY <1>1, <1>3 DEF Unowned, Evt!Registered

(* What a forced pause changes: the daemon and the record of one task.     *)
LEMMA ForcePauseFields ==
    ASSUME GovTypes, Unowned, NEW t \in Tasks, Evt!Registered(t), NEW a \in Evt!Owners, Evt!ForcePause(a, t)
    PROVE  Booked /\ \A u \in Tasks \ {t} : daemon'[u] = daemon[u] /\ records'[u] = records[u]
<1>0. /\ daemon \in [Tasks -> Evt!Remote] /\ records \in [Tasks -> RecType] /\ daemon[t] \in Evt!Remote
      /\ records[t] \in RecType
  BY DEF GovTypes
<1>1. records[t].owner \in Evt!Owners \cup {Nobody} /\ Evt!PauseOwner(a, records[t]) \in Evt!Owners \cup {Nobody}
  BY <1>0 DEF RecType, Evt!PauseOwner
<1>2. "paused" \in Evt!Remote
  BY DEF Evt!Remote
<1>3. CASE daemon[t] \in {"paused", "done"}
  <2>1. Evt!Recorded(t, daemon[t], records[t].owner) /\ daemon' = daemon
    BY <1>3 DEF Evt!ForcePause
  <2>2. PICK st \in Evt!Remote, o \in Evt!Owners \cup {Nobody} : st = daemon[t] /\ o = records[t].owner
    BY <1>0, <1>1
  <2>3. Evt!Recorded(t, st, o)
    BY <2>1, <2>2
  <2> QED
    BY <2>1, <2>3, <1>0, RecordedFields DEF Booked
<1>4. CASE daemon[t] \notin {"paused", "done"}
  <2>1. Evt!Recorded(t, "paused", Evt!PauseOwner(a, records[t])) /\ daemon' = [daemon EXCEPT ![t] = "paused"]
    BY <1>4 DEF Evt!ForcePause
  <2>2. PICK o \in Evt!Owners \cup {Nobody} : o = Evt!PauseOwner(a, records[t])
    BY <1>1
  <2>3. Evt!Recorded(t, "paused", o)
    BY <2>1, <2>2
  <2>4. daemon' \in [Tasks -> Evt!Remote] /\ \A u \in Tasks \ {t} : daemon'[u] = daemon[u]
    BY <2>1, <1>0, <1>2
  <2> QED
    BY <2>3, <2>4, <1>0, <1>2, RecordedFields DEF Booked
<1> QED
  BY <1>3, <1>4

(* Whoever resumes a task takes its record's owner away.                   *)
LEMMA UnpauseFields ==
    ASSUME GovTypes, Unowned, NEW t \in Tasks, Evt!Registered(t), NEW a, Evt!Unpause(a, t)
    PROVE  /\ Booked /\ \A u \in Tasks \ {t} : daemon'[u] = daemon[u] /\ records'[u] = records[u]
           /\ records'[t].owner = Nobody
<1>0. /\ daemon \in [Tasks -> Evt!Remote] /\ records \in [Tasks -> RecType] /\ daemon[t] \in Evt!Remote
  BY DEF GovTypes
<1>1. "waiting" \in Evt!Remote /\ Nobody \in Evt!Owners \cup {Nobody}
  BY DEF Evt!Remote
<1>2. CASE daemon[t] # "paused"
  <2>1. Evt!Recorded(t, daemon[t], Nobody) /\ daemon' = daemon
    BY <1>2 DEF Evt!Unpause
  <2>2. PICK st \in Evt!Remote : st = daemon[t]
    BY <1>0
  <2>3. Evt!Recorded(t, st, Nobody)
    BY <2>1, <2>2
  <2> QED
    BY <2>1, <2>3, <1>0, <1>1, RecordedFields DEF Booked
<1>3. CASE daemon[t] = "paused"
  <2>1. Evt!Recorded(t, "waiting", Nobody) /\ daemon' = [daemon EXCEPT ![t] = "waiting"]
    BY <1>3 DEF Evt!Unpause
  <2>2. daemon' \in [Tasks -> Evt!Remote] /\ \A u \in Tasks \ {t} : daemon'[u] = daemon[u]
    BY <2>1, <1>0, <1>1
  <2> QED
    BY <2>1, <2>2, <1>0, <1>1, RecordedFields DEF Booked
<1> QED
  BY <1>2, <1>3

(* A control touches one task, and changes only a task of the account.     *)
LEMMA ControlFields ==
    ASSUME GovTypes, Unowned, NEW t \in Tasks, NEW a \in Evt!Owners, NEW act \in ActKinds,
           Controlled(a, t, act)
    PROVE  /\ Booked /\ \A u \in Tasks \ {t} : daemon'[u] = daemon[u] /\ records'[u] = records[u]
           /\ daemon'[t] # daemon[t] => Evt!Registered(t)
<1>0. /\ daemon \in [Tasks -> Evt!Remote] /\ records \in [Tasks -> RecType]
      /\ \A u \in Tasks \cap Foreign : records[u].owner = Nobody
  BY DEF GovTypes, Unowned
<1>1. CASE UNCHANGED <<daemon, records>>
  BY <1>0, <1>1 DEF Booked
<1>2. CASE Evt!Change(a, t, act) /\ Evt!Allowed(a, t, act)
  <2>1. Evt!Registered(t)
    BY <1>2 DEF Evt!Allowed
  <2>2. Evt!ForcePause(a, t) \/ Evt!Unpause(a, t)
    BY <1>2 DEF Evt!Change
  <2> QED
    BY <2>1, <2>2, ForcePauseFields, UnpauseFields
<1>3. CASE Evt!Change(a, t, act) /\ ~Evt!Allowed(a, t, act)
  BY <1>0, <1>3 DEF Evt!Change, Booked
<1>4. CASE /\ Evt!Changes(a, t, act) /\ UNCHANGED records
           /\ daemon' = [daemon EXCEPT ![t] = IF act = "pause" THEN "paused" ELSE "waiting"]
  <2>1. Evt!Registered(t) /\ "paused" \in Evt!Remote /\ "waiting" \in Evt!Remote
    BY <1>4 DEF Evt!Changes, Evt!Allowed, Evt!Remote
  <2> QED
    BY <2>1, <1>0, <1>4 DEF Booked
<1> QED
  BY <1>1, <1>2, <1>3, <1>4 DEF Controlled

(* A resume of the manager takes the automatic pause back.                 *)
LEMMA ResumeFields ==
    ASSUME GovTypes, Unowned, NEW t \in Tasks, Evt!Change("lifecycle", t, "resume")
    PROVE  records'[t].owner = Nobody
<1>1. CASE Evt!Allowed("lifecycle", t, "resume")
  <2>1. Evt!Registered(t) /\ Evt!Unpause("lifecycle", t)
    BY <1>1 DEF Evt!Allowed, Evt!Change
  <2> QED
    BY <2>1, UnpauseFields
<1>2. CASE ~Evt!Allowed("lifecycle", t, "resume")
  BY <1>2 DEF Evt!Allowed, Evt!Change, Evt!MayResume, Evt!Registered, Unowned
<1> QED
  BY <1>1, <1>2

-----------------------------------------------------------------------------
(* The manager *)

(* The manager moves on while no governor runs.                            *)
LEMMA ManagerMoves ==
    ASSUME GovInv, Booked, DOMAIN mgr' = {"pc", "stop", "delay", "todo"}, mgr'.pc \in MgrPcs,
           mgr'.stop \in BOOLEAN, mgr'.todo \in SUBSET Tasks, excused' \in SUBSET Tasks,
           limiter = "off", reg.pc = "off", mon.pc = "off",
           UNCHANGED <<limiter, reg, mon, quiet>>, Resuming'
    PROVE  GovInv'
<1>1. GovTypes'
  BY DEF GovInv, GovTypes, Booked
<1>2. Dormant'
  BY DEF Dormant
<1>3. Unowned'
  BY DEF Booked, Unowned
<1>4. Clocked'
  BY DEF GovInv, Clocked
<1> QED
  BY <1>1, <1>2, <1>3, <1>4 DEF GovInv

(* The fields of the manager's record.                                     *)
LEMMA ManagerFields ==
    ASSUME GovInv
    PROVE  /\ DOMAIN mgr = {"pc", "stop", "delay", "todo"} /\ mgr.pc \in MgrPcs
           /\ mgr.stop \in BOOLEAN /\ mgr.todo \in SUBSET Tasks /\ excused \in SUBSET Tasks
           /\ Evt!Stopped.pc = "stopped" /\ Evt!Stopped.todo = {} /\ Evt!Stopped.stop = mgr.stop
           /\ DOMAIN Evt!Stopped = {"pc", "stop", "delay", "todo"}
           /\ mgr.pc # "govern" => limiter = "off" /\ reg.pc = "off" /\ mon.pc = "off"
BY DEF GovInv, GovTypes, Evt!Stopped, Dormant

(* Neither the daemon nor the records are touched.                         *)
LEMMA BooksKept == ASSUME GovInv, UNCHANGED <<daemon, records>> PROVE Booked
BY DEF GovInv, GovTypes, Unowned, Booked

(* Outside of resume and launch nothing is owed.                           *)
LEMMA NotResuming == ASSUME mgr'.pc \notin {"resume", "launch"} PROVE Resuming'
BY DEF Resuming

(* A stop of the manager with every governor off keeps GovInv.             *)
LEMMA StoppedKeeps ==
    ASSUME GovInv, Booked, mgr' = Evt!Stopped, excused' = excused, limiter = "off", reg.pc = "off",
           mon.pc = "off", UNCHANGED <<limiter, reg, mon, quiet>>
    PROVE  GovInv'
<1>1. /\ DOMAIN mgr' = {"pc", "stop", "delay", "todo"} /\ mgr'.pc = "stopped" /\ mgr'.stop \in BOOLEAN
      /\ mgr'.todo \in SUBSET Tasks /\ excused' \in SUBSET Tasks
  BY ManagerFields
<1>2. "stopped" \in MgrPcs
  BY DEF MgrPcs
<1> QED
  BY <1>1, <1>2, NotResuming, ManagerMoves

(* Connect keeps GovInv.                                                   *)
LEMMA ConnectKeeps == ASSUME GovInv, Evt!Connect PROVE GovInv'
<1>0. /\ UNCHANGED <<daemon, records, excused, quiet, limiter, reg, mon>> /\ mgr.pc = "connect"
      /\ Booked
  BY BooksKept DEF Evt!Connect, Evt!Rest
<1>1. limiter = "off" /\ reg.pc = "off" /\ mon.pc = "off"
  BY <1>0, ManagerFields
<1>2. CASE mgr' = Evt!Stopped
  BY <1>0, <1>1, <1>2, StoppedKeeps
<1>3. CASE mgr' = [mgr EXCEPT !.pc = "recover", !.delay = 0] \/ mgr' = [mgr EXCEPT !.pc = "backoff"]
  <2>1. /\ DOMAIN mgr' = {"pc", "stop", "delay", "todo"} /\ mgr'.pc \in {"recover", "backoff"}
        /\ mgr'.stop = mgr.stop /\ mgr'.todo = mgr.todo
    BY <1>3, ManagerFields
  <2>2. mgr'.pc \in MgrPcs
    BY <2>1 DEF MgrPcs
  <2> QED
    BY <2>1, <2>2, <1>0, <1>1, ManagerFields, NotResuming, ManagerMoves
<1> QED
  BY <1>2, <1>3 DEF Evt!Connect

(* Backoff keeps GovInv.                                                   *)
LEMMA BackoffKeeps == ASSUME GovInv, Evt!Backoff PROVE GovInv'
<1>0. /\ UNCHANGED <<daemon, records, excused, quiet, limiter, reg, mon>> /\ mgr.pc = "backoff"
      /\ Booked
  BY BooksKept DEF Evt!Backoff, Evt!Rest
<1>1. limiter = "off" /\ reg.pc = "off" /\ mon.pc = "off"
  BY <1>0, ManagerFields
<1>2. CASE mgr' = Evt!Stopped
  BY <1>0, <1>1, <1>2, StoppedKeeps
<1>3. CASE \E d : mgr' = [mgr EXCEPT !.pc = "connect", !.delay = d]
  <2>1. /\ DOMAIN mgr' = {"pc", "stop", "delay", "todo"} /\ mgr'.pc \in {"connect"}
        /\ mgr'.stop = mgr.stop /\ mgr'.todo = mgr.todo
    BY <1>3, ManagerFields
  <2>2. mgr'.pc \in MgrPcs
    BY <2>1 DEF MgrPcs
  <2> QED
    BY <2>1, <2>2, <1>0, <1>1, ManagerFields, NotResuming, ManagerMoves
<1> QED
  BY <1>2, <1>3 DEF Evt!Backoff

(* Recover keeps GovInv.                                                   *)
LEMMA RecoverKeeps == ASSUME GovInv, Evt!Recover PROVE GovInv'
<1>0. /\ UNCHANGED <<daemon, records, quiet, limiter, reg, mon>> /\ mgr.pc = "recover" /\ Booked
  BY BooksKept DEF Evt!Recover, Evt!Rest
<1>1. limiter = "off" /\ reg.pc = "off" /\ mon.pc = "off" /\ excused \in SUBSET Tasks
  BY <1>0, ManagerFields
<1>2. CASE mgr' = [mgr EXCEPT !.pc = "resume", !.todo = Evt!Owned({"paused"})] /\ UNCHANGED excused
  <2>1. Evt!Owned({"paused"}) \in SUBSET Tasks
    BY DEF Evt!Owned
  <2>2. /\ DOMAIN mgr' = {"pc", "stop", "delay", "todo"} /\ mgr'.pc = "resume"
        /\ mgr'.stop = mgr.stop /\ mgr'.todo = Evt!Owned({"paused"})
    BY <1>2, ManagerFields
  <2>3. mgr'.pc \in MgrPcs
    BY <2>2 DEF MgrPcs
  <2>4. Resuming'
    BY <2>2, <1>0 DEF Resuming, LeftPaused, Evt!Owned
  <2> QED
    BY <2>1, <2>2, <2>3, <2>4, <1>0, <1>1, <1>2, ManagerFields, ManagerMoves
<1>3. CASE /\ mgr' = [mgr EXCEPT !.pc = "launch"]
           /\ excused' = Tasks \/ (mgr.stop /\ UNCHANGED excused)
  <2>1. /\ DOMAIN mgr' = {"pc", "stop", "delay", "todo"} /\ mgr'.pc = "launch"
        /\ mgr'.stop = mgr.stop /\ mgr'.todo = mgr.todo
    BY <1>3, ManagerFields
  <2>2. mgr'.pc \in MgrPcs /\ excused' \in SUBSET Tasks
    BY <2>1, <1>1, <1>3 DEF MgrPcs
  <2>3. Resuming'
    BY <2>1, <1>3 DEF Resuming, LeftPaused
  <2> QED
    BY <2>1, <2>2, <2>3, <1>0, <1>1, <1>3, ManagerFields, ManagerMoves
<1> QED
  BY <1>2, <1>3 DEF Evt!Recover

(* Each task the listing named is resumed, or excused, before launch.      *)
LEMMA ResumeStartupKeeps == ASSUME GovInv, Evt!ResumeStartupPausedTasks PROVE GovInv'
<1>0. /\ UNCHANGED <<quiet, limiter, reg, mon>> /\ mgr.pc = "resume"
  BY DEF Evt!ResumeStartupPausedTasks
<1>1. /\ limiter = "off" /\ reg.pc = "off" /\ mon.pc = "off" /\ excused \in SUBSET Tasks
      /\ mgr.todo \in SUBSET Tasks
  BY <1>0, ManagerFields
<1>2. \A u \in Tasks : daemon[u] = "paused" /\ records[u].owner # Nobody => u \in mgr.todo \cup excused
  BY <1>0 DEF GovInv, Resuming, LeftPaused
<1>3. CASE /\ mgr.todo = {} \/ mgr.stop
           /\ mgr' = [mgr EXCEPT !.pc = "launch", !.todo = {}] /\ UNCHANGED <<daemon, records, excused>>
  <2>1. /\ DOMAIN mgr' = {"pc", "stop", "delay", "todo"} /\ mgr'.pc = "launch"
        /\ mgr'.stop = mgr.stop /\ mgr'.todo = {}
    BY <1>3, ManagerFields
  <2>2. mgr'.pc \in MgrPcs /\ Booked
    BY <2>1, <1>3, BooksKept DEF MgrPcs
  <2>3. Resuming'
    BY <2>1, <1>2, <1>3 DEF Resuming, LeftPaused
  <2> QED
    BY <2>1, <2>2, <2>3, <1>0, <1>1, <1>3, ManagerFields, ManagerMoves
<1>4. ASSUME NEW t \in mgr.todo, Controlled("lifecycle", t, "resume"),
             \/ /\ mgr' = [mgr EXCEPT !.todo = @ \ {t}]
                /\ \/ Evt!Change("lifecycle", t, "resume") /\ UNCHANGED excused
                   \/ excused' = excused \cup {t}
             \/ UNCHANGED <<mgr, excused>>
      PROVE  GovInv'
  <2>0. t \in Tasks /\ GovTypes /\ Unowned /\ "lifecycle" \in Evt!Owners /\ "resume" \in ActKinds
    BY <1>1 DEF GovInv, Evt!Owners, ActKinds
  <2>1. Booked /\ \A u \in Tasks \ {t} : daemon'[u] = daemon[u] /\ records'[u] = records[u]
    BY <2>0, <1>4, ControlFields
  <2>2. CASE UNCHANGED <<mgr, excused>>
    <3>1. Resuming'
      BY <2>0, <2>1, <2>2, <1>0, <1>2, <1>4 DEF Resuming, LeftPaused
    <3> QED
      BY <3>1, <2>1, <2>2, <1>0, <1>1, ManagerFields, ManagerMoves
  <2>3. CASE mgr' = [mgr EXCEPT !.todo = @ \ {t}]
    <3> DEFINE rest == mgr.todo \ {t}
    <3>1. /\ DOMAIN mgr' = {"pc", "stop", "delay", "todo"} /\ mgr'.pc = "resume"
          /\ mgr'.stop = mgr.stop /\ mgr'.todo = rest
      BY <2>3, <1>0, ManagerFields
    <3>2. mgr'.pc \in MgrPcs /\ mgr'.todo \in SUBSET Tasks
      BY <3>1, <1>1 DEF MgrPcs
    <3>3. CASE Evt!Change("lifecycle", t, "resume") /\ UNCHANGED excused
      <4>1. records'[t].owner = Nobody
        BY <3>3, <2>0, ResumeFields
      <4>2. Resuming'
        BY <4>1, <3>1, <3>3, <2>0, <2>1, <1>2 DEF Resuming, LeftPaused
      <4> QED
        BY <4>2, <3>1, <3>2, <3>3, <2>1, <1>0, <1>1, ManagerFields, ManagerMoves
    <3>4. CASE excused' = excused \cup {t}
      <4>1. Resuming'
        BY <3>1, <3>4, <2>0, <2>1, <1>2 DEF Resuming, LeftPaused
      <4>2. excused' \in SUBSET Tasks
        BY <3>4, <2>0, <1>1
      <4> QED
        BY <4>1, <4>2, <3>1, <3>2, <2>1, <1>0, <1>1, ManagerFields, ManagerMoves
    <3>5. CASE UNCHANGED <<mgr, excused>>
      BY <3>5, <2>2
    <3> QED
      BY <3>3, <3>4, <3>5, <1>4
  <2> QED
    BY <2>2, <2>3, <1>4
<1>5. ASSUME ~(mgr.todo = {} \/ mgr.stop) PROVE GovInv'
  <2>1. PICK t \in mgr.todo :
           Evt!OneControl("lifecycle", t, "resume", mgr' = [mgr EXCEPT !.todo = @ \ {t}],
                      mgr' = [mgr EXCEPT !.todo = @ \ {t}])
    BY <1>5 DEF Evt!ResumeStartupPausedTasks
  <2>2. Controlled("lifecycle", t, "resume")
    BY <2>1 DEF Evt!OneControl, Controlled, Evt!Fails
  <2>3. \/ /\ mgr' = [mgr EXCEPT !.todo = @ \ {t}]
           /\ \/ Evt!Change("lifecycle", t, "resume") /\ UNCHANGED excused
              \/ excused' = excused \cup {t}
        \/ UNCHANGED <<mgr, excused>>
    BY <2>1 DEF Evt!OneControl, Evt!Excuse
  <2> QED
    BY <2>2, <2>3, <1>4
<1> QED
  BY <1>3, <1>5 DEF Evt!ResumeStartupPausedTasks

(* Launch keeps GovInv.                                                    *)
LEMMA LaunchKeeps == ASSUME GovInv, Evt!Launch PROVE GovInv'
<1>0. /\ UNCHANGED <<daemon, records, excused, quiet>> /\ mgr.pc = "launch" /\ Booked
  BY BooksKept DEF Evt!Launch
<1>1. limiter = "off" /\ reg.pc = "off" /\ mon.pc = "off" /\ excused \in SUBSET Tasks
  BY <1>0, ManagerFields
<1>2. CASE mgr.stop
  <2>1. mgr' = Evt!Stopped /\ UNCHANGED <<limiter, reg, mon>>
    BY <1>2 DEF Evt!Launch, Evt!Rest
  <2> QED
    BY <2>1, <1>0, <1>1, StoppedKeeps
<1>3. CASE ~mgr.stop
  <2>0. /\ mgr' = [mgr EXCEPT !.pc = "govern"] /\ limiter' = "wait"
        /\ reg' = [reg EXCEPT !.pc = "idle"] /\ mon' = [mon EXCEPT !.pc = "idle"]
    BY <1>3 DEF Evt!Launch
  <2>1. /\ DOMAIN mgr' = {"pc", "stop", "delay", "todo"} /\ mgr'.pc = "govern"
        /\ mgr'.stop = mgr.stop /\ mgr'.todo = mgr.todo
    BY <2>0, ManagerFields
  <2>2. /\ DOMAIN reg' = {"pc", "queue", "ages", "rest", "todo", "paused"}
        /\ reg'.todo = reg.todo /\ reg'.paused = reg.paused
    BY <2>0 DEF GovInv, GovTypes
  <2>3. /\ DOMAIN mon' = {"pc", "stall", "todo", "cur"} /\ mon'.pc = "idle"
        /\ mon'.stall = mon.stall /\ mon'.todo = mon.todo
    BY <2>0 DEF GovInv, GovTypes
  <2>4. GovTypes'
    BY <2>1, <2>2, <2>3, <1>0 DEF GovInv, GovTypes, MgrPcs
  <2>5. Dormant' /\ Unowned' /\ Resuming'
    BY <2>1, <1>0 DEF GovInv, Dormant, Unowned, Resuming
  <2>6. Clocked'
    BY <2>3, <1>0, <1>1 DEF GovInv, Clocked
  <2> QED
    BY <2>4, <2>5, <2>6 DEF GovInv
<1> QED
  BY <1>2, <1>3

(* Drain keeps GovInv.                                                     *)
LEMMA DrainKeeps == ASSUME GovInv, Evt!Drain PROVE GovInv'
<1>0. /\ UNCHANGED <<daemon, records, excused, quiet, limiter, reg, mon>> /\ Booked
      /\ limiter = "off" /\ reg.pc = "off" /\ mon.pc = "off"
  BY BooksKept DEF Evt!Drain, Evt!Rest, Evt!Governing
<1>1. CASE mgr' = Evt!Stopped
  BY <1>0, <1>1, StoppedKeeps
<1>2. CASE mgr' = [mgr EXCEPT !.pc = "pause", !.todo = Evt!Owned({"active", "waiting"})]
  <2>1. Evt!Owned({"active", "waiting"}) \in SUBSET Tasks
    BY DEF Evt!Owned
  <2>2. /\ DOMAIN mgr' = {"pc", "stop", "delay", "todo"} /\ mgr'.pc = "pause"
        /\ mgr'.stop = mgr.stop /\ mgr'.todo = Evt!Owned({"active", "waiting"})
    BY <1>2, ManagerFields
  <2>3. mgr'.pc \in MgrPcs
    BY <2>2 DEF MgrPcs
  <2> QED
    BY <2>1, <2>2, <2>3, <1>0, ManagerFields, NotResuming, ManagerMoves
<1> QED
  BY <1>1, <1>2 DEF Evt!Drain

(* PauseTDLTasksForShutdown keeps GovInv.                                  *)
LEMMA ShutdownKeeps == ASSUME GovInv, Evt!PauseTDLTasksForShutdown PROVE GovInv'
<1>0. /\ UNCHANGED <<quiet, limiter, reg, mon>> /\ mgr.pc = "pause"
  BY DEF Evt!PauseTDLTasksForShutdown
<1>1. /\ limiter = "off" /\ reg.pc = "off" /\ mon.pc = "off" /\ excused \in SUBSET Tasks
      /\ mgr.todo \in SUBSET Tasks
  BY <1>0, ManagerFields
<1>2. CASE mgr' = Evt!Stopped /\ UNCHANGED <<daemon, records, excused>>
  BY <1>0, <1>1, <1>2, BooksKept, StoppedKeeps
<1>3. ASSUME NEW t \in mgr.todo,
             Evt!OneControl("lifecycle", t, "pause", mgr' = [mgr EXCEPT !.todo = @ \ {t}],
                        mgr' = [mgr EXCEPT !.todo = @ \ {t}])
      PROVE  GovInv'
  <2>0. t \in Tasks /\ GovTypes /\ Unowned /\ "lifecycle" \in Evt!Owners /\ "pause" \in ActKinds
    BY <1>1 DEF GovInv, Evt!Owners, ActKinds
  <2>1. Controlled("lifecycle", t, "pause")
    BY <1>3 DEF Evt!OneControl, Controlled, Evt!Fails
  <2>2. Booked
    BY <2>0, <2>1, ControlFields
  <2>3. excused' = excused /\ (mgr' = [mgr EXCEPT !.todo = @ \ {t}] \/ mgr' = mgr)
    BY <1>3 DEF Evt!OneControl, Evt!Excuse
  <2>4. /\ DOMAIN mgr' = {"pc", "stop", "delay", "todo"} /\ mgr'.pc = "pause"
        /\ mgr'.stop = mgr.stop /\ mgr'.todo \in {mgr.todo \ {t}, mgr.todo}
    BY <2>3, <1>0, ManagerFields
  <2>5. mgr'.pc \in MgrPcs /\ mgr'.todo \in SUBSET Tasks
    BY <2>4, <1>1 DEF MgrPcs
  <2> QED
    BY <2>2, <2>3, <2>4, <2>5, <1>0, <1>1, ManagerFields, NotResuming, ManagerMoves
<1> QED
  BY <1>2, <1>3 DEF Evt!PauseTDLTasksForShutdown

-----------------------------------------------------------------------------
(* The governors *)

(* Limiter keeps GovInv.                                                   *)
LEMMA LimiterKeeps == ASSUME GovInv, Evt!Limiter PROVE GovInv'
<1>1. UNCHANGED <<daemon, records, mgr, reg, mon, excused, quiet>> /\ mgr.pc = "govern"
  BY ManagerFields DEF Evt!Limiter
<1>2. GovTypes' /\ Unowned' /\ Resuming' /\ Clocked'
  BY <1>1 DEF GovInv, GovTypes, Unowned, Resuming, LeftPaused, Clocked
<1>3. Dormant'
  BY <1>1 DEF Dormant
<1> QED
  BY <1>2, <1>3 DEF GovInv

(* A governor's step with what it keeps in its books.                      *)
LEMMA RegulatorMoves ==
    ASSUME GovInv, Booked, DOMAIN reg' = {"pc", "queue", "ages", "rest", "todo", "paused"},
           reg'.todo \in SUBSET Tasks, reg'.paused \in SUBSET Tasks, excused' \in SUBSET Tasks,
           mgr.pc = "govern", UNCHANGED <<mgr, limiter, mon, quiet>>
    PROVE  GovInv'
<1>1. GovTypes'
  BY DEF GovInv, GovTypes, Booked
<1>2. Dormant' /\ Resuming'
  BY DEF Dormant, Resuming
<1>3. Unowned'
  BY DEF Booked, Unowned
<1>4. Clocked'
  BY DEF GovInv, Clocked
<1> QED
  BY <1>1, <1>2, <1>3, <1>4 DEF GovInv

RegFields == {"pc", "queue", "ages", "rest", "todo", "paused"}

(* What GovInv says of the regulator.                                      *)
LEMMA RegulatorFields ==
    ASSUME GovInv
    PROVE  /\ DOMAIN reg = RegFields /\ reg.todo \in SUBSET Tasks /\ reg.paused \in SUBSET Tasks
           /\ excused \in SUBSET Tasks /\ (reg.pc # "off" => mgr.pc = "govern")
           /\ DOMAIN Evt!Finished = RegFields /\ Evt!Finished.todo = {} /\ Evt!Finished.paused = {}
BY DEF GovInv, GovTypes, Dormant, RegFields, Evt!Finished

(* RecordError keeps GovInv.                                               *)
LEMMA RecordErrorKeeps == ASSUME GovInv, Evt!RecordError PROVE GovInv'
<1>0. /\ UNCHANGED <<daemon, records, excused, mgr, limiter, mon, quiet>> /\ reg.pc = "idle"
      /\ Booked
  BY BooksKept DEF Evt!RecordError, Evt!RegRest
<1>1. \/ \E q : reg' = [reg EXCEPT !.queue = q, !.ages = <<>>, !.pc = "list"]
      \/ \E q, g : reg' = [reg EXCEPT !.queue = q, !.ages = g]
  BY DEF Evt!RecordError, Evt!RegStep
<1>2. DOMAIN reg' = RegFields /\ reg'.todo = reg.todo /\ reg'.paused = reg.paused
  BY <1>1, RegulatorFields DEF RegFields
<1> QED
  BY <1>0, <1>2, RegulatorFields, RegulatorMoves DEF RegFields

(* Regulate keeps GovInv.                                                  *)
LEMMA RegulateKeeps == ASSUME GovInv, Evt!Regulate PROVE GovInv'
<1>0. /\ UNCHANGED <<daemon, records, excused, mgr, limiter, mon, quiet>> /\ reg.pc = "list"
      /\ Booked
  BY BooksKept DEF Evt!Regulate, Evt!RegRest
<1>1. \E S \in SUBSET Evt!Owned({"active"}) : reg' \in {Evt!Finished, [reg EXCEPT !.pc = "pause", !.todo = S]}
  BY DEF Evt!Regulate, Evt!RegStep
<1>2. PICK extra \in SUBSET Tasks : reg' = Evt!Finished \/ reg' = [reg EXCEPT !.pc = "pause", !.todo = extra]
  BY <1>1 DEF Evt!Owned
<1>3. /\ DOMAIN reg' = RegFields /\ reg'.todo \in SUBSET Tasks /\ reg'.paused \in SUBSET Tasks
  BY <1>2, RegulatorFields DEF RegFields
<1> QED
  BY <1>0, <1>3, RegulatorFields, RegulatorMoves DEF RegFields

(* ForcePauseTasks keeps GovInv.                                           *)
LEMMA ForcePauseTasksKeeps == ASSUME GovInv, Evt!ForcePauseTasks PROVE GovInv'
<1>0. UNCHANGED <<mgr, limiter, mon, quiet>> /\ reg.pc = "pause"
  BY DEF Evt!ForcePauseTasks, Evt!RegRest
<1>1. CASE /\ reg' = Evt!Finished \/ reg' = [reg EXCEPT !.pc = "wait", !.todo = {}]
           /\ UNCHANGED <<daemon, records, excused>>
  <2>1. /\ DOMAIN reg' = RegFields /\ reg'.todo \in SUBSET Tasks /\ reg'.paused \in SUBSET Tasks
    BY <1>1, RegulatorFields DEF RegFields
  <2> QED
    BY <2>1, <1>0, <1>1, BooksKept, RegulatorFields, RegulatorMoves DEF RegFields
<1>2. ASSUME NEW t \in reg.todo,
             Evt!OneControl("telegram", t, "pause",
                        Evt!RegStep([reg EXCEPT !.todo = @ \ {t}, !.paused = @ \cup {t}]),
                        Evt!RegStep([reg EXCEPT !.todo = @ \ {t}, !.paused = @ \cup {}]))
      PROVE  GovInv'
  <2>0. t \in Tasks /\ GovTypes /\ Unowned /\ "telegram" \in Evt!Owners /\ "pause" \in ActKinds
    BY <1>2, RegulatorFields DEF GovInv, Evt!Owners, ActKinds
  <2>1. Controlled("telegram", t, "pause")
    BY <1>2 DEF Evt!OneControl, Controlled, Evt!Fails
  <2>2. Booked
    BY <2>0, <2>1, ControlFields
  <2>3. /\ excused' = excused
        /\ \/ reg' = [reg EXCEPT !.todo = @ \ {t}, !.paused = @ \cup {t}]
           \/ reg' = [reg EXCEPT !.todo = @ \ {t}, !.paused = @ \cup {}]
           \/ reg' = reg
    BY <1>2 DEF Evt!OneControl, Evt!Excuse, Evt!RegStep
  <2> DEFINE rest == reg.todo \ {t}
             with == reg.paused \cup {t}
             same == reg.paused \cup {}
  <2>a. \/ reg' = [reg EXCEPT !.todo = rest, !.paused = with]
        \/ reg' = [reg EXCEPT !.todo = rest, !.paused = same]
        \/ reg' = reg
    BY <2>3
  <2>b. rest \in SUBSET Tasks /\ with \in SUBSET Tasks /\ same \in SUBSET Tasks
    BY <2>0, RegulatorFields
  <2> HIDE DEF rest, with, same
  <2>4. /\ DOMAIN reg' = RegFields /\ reg'.todo \in SUBSET Tasks /\ reg'.paused \in SUBSET Tasks
    BY <2>a, <2>b, RegulatorFields DEF RegFields
  <2> QED
    BY <2>2, <2>3, <2>4, <1>0, RegulatorFields, RegulatorMoves DEF RegFields
<1> QED
  BY <1>1, <1>2 DEF Evt!ForcePauseTasks, Evt!RegStep

(* ResumeAfterPause keeps GovInv.                                          *)
LEMMA ResumeAfterPauseKeeps == ASSUME GovInv, Evt!ResumeAfterPause PROVE GovInv'
<1>0. UNCHANGED <<mgr, limiter, mon, quiet>> /\ reg.pc \in {"wait", "resume"}
  BY DEF Evt!ResumeAfterPause, Evt!RegRest
<1>1. CASE /\ reg' = Evt!Finished \/ reg' = [reg EXCEPT !.pc = "resume"]
           /\ UNCHANGED <<daemon, records, excused>>
  <2>1. /\ DOMAIN reg' = RegFields /\ reg'.todo \in SUBSET Tasks /\ reg'.paused \in SUBSET Tasks
    BY <1>1, RegulatorFields DEF RegFields
  <2> QED
    BY <2>1, <1>0, <1>1, BooksKept, RegulatorFields, RegulatorMoves DEF RegFields
<1>2. ASSUME NEW t \in reg.paused,
             Evt!OneControl("telegram", t, "resume", Evt!RegStep([reg EXCEPT !.paused = @ \ {t}]),
                        Evt!RegStep([reg EXCEPT !.paused = @ \ {t}]))
      PROVE  GovInv'
  <2>0. t \in Tasks /\ GovTypes /\ Unowned /\ "telegram" \in Evt!Owners /\ "resume" \in ActKinds
    BY <1>2, RegulatorFields DEF GovInv, Evt!Owners, ActKinds
  <2>1. Controlled("telegram", t, "resume")
    BY <1>2 DEF Evt!OneControl, Controlled, Evt!Fails
  <2>2. Booked
    BY <2>0, <2>1, ControlFields
  <2>3. /\ excused' \in {excused, excused \cup {t}}
        /\ reg' = [reg EXCEPT !.paused = @ \ {t}] \/ reg' = reg
    BY <1>2 DEF Evt!OneControl, Evt!Excuse, Evt!RegStep
  <2>4. /\ DOMAIN reg' = RegFields /\ reg'.todo \in SUBSET Tasks /\ reg'.paused \in SUBSET Tasks
        /\ excused' \in SUBSET Tasks
    BY <2>0, <2>3, RegulatorFields DEF RegFields
  <2> QED
    BY <2>2, <2>4, <1>0, RegulatorFields, RegulatorMoves DEF RegFields
<1>3. \/ Evt!RegStep(Evt!Finished) /\ UNCHANGED <<daemon, records, excused>>
      \/ Evt!RegStep([reg EXCEPT !.pc = "resume"]) /\ UNCHANGED <<daemon, records, excused>>
      \/ \E t \in reg.paused : Evt!OneControl("telegram", t, "resume", Evt!RegStep([reg EXCEPT !.paused = @ \ {t}]),
                                          Evt!RegStep([reg EXCEPT !.paused = @ \ {t}]))
  BY DEF Evt!ResumeAfterPause
<1> QED
  BY <1>1, <1>2, <1>3 DEF Evt!RegStep

(* RegulatorEnds keeps GovInv.                                             *)
LEMMA RegulatorEndsKeeps == ASSUME GovInv, Evt!RegulatorEnds PROVE GovInv'
<1>0. /\ UNCHANGED <<daemon, records, excused, mgr, limiter, mon, quiet>> /\ reg.pc = "idle"
      /\ Booked /\ reg' = [reg EXCEPT !.pc = "off"]
  BY BooksKept DEF Evt!RegulatorEnds, Evt!RegRest, Evt!RegStep
<1>1. DOMAIN reg' = RegFields /\ reg'.todo = reg.todo /\ reg'.paused = reg.paused
  BY <1>0, RegulatorFields DEF RegFields
<1> QED
  BY <1>0, <1>1, RegulatorFields, RegulatorMoves DEF RegFields

MonFields == {"pc", "stall", "todo", "cur"}

(* A step of the speed monitor that keeps its own fields in order keeps    *)
(* GovInv.                                                                 *)
LEMMA MonitorMoves ==
    ASSUME GovInv, Booked, DOMAIN mon' = MonFields, mon'.stall \in [Tasks -> Int],
           mon'.todo \in SUBSET Tasks, mon'.pc \in {"wait", "resume"} => mon'.cur \in Tasks,
           quiet' \in [Tasks -> Nat], Clocked',
           excused' \in SUBSET Tasks, mgr.pc = "govern", UNCHANGED <<mgr, limiter, reg>>
    PROVE  GovInv'
<1>1. GovTypes'
  BY DEF GovInv, GovTypes, Booked, MonFields
<1>2. Dormant' /\ Resuming'
  BY DEF Dormant, Resuming
<1>3. Unowned'
  BY DEF Booked, Unowned
<1> QED
  BY <1>1, <1>2, <1>3 DEF GovInv

(* What GovInv says of the speed monitor.                                  *)
LEMMA MonitorFields ==
    ASSUME GovInv
    PROVE  /\ DOMAIN mon = MonFields /\ mon.stall \in [Tasks -> Int] /\ mon.todo \in SUBSET Tasks
           /\ quiet \in [Tasks -> Nat] /\ excused \in SUBSET Tasks
           /\ (mon.pc # "off" => mgr.pc = "govern")
           /\ (mon.pc \in {"wait", "resume"} => mon.cur \in Tasks)
           /\ \A t \in Tasks : mon.stall[t] >= -1 /\ mon.stall[t] <= quiet[t] /\ quiet[t] <= Stall
           /\ \A t \in mon.todo : quiet[t] >= Stall
BY DEF GovInv, GovTypes, Dormant, MonFields, Clocked

(* A poll cycles a task only when its clock reached Stall, and the clock   *)
(* never ran ahead of the polls that saw the task at zero speed.           *)
LEMMA PollKeeps == ASSUME Evt!GovernorsAssumption, GovInv, Evt!Poll PROVE GovInv'
<1>0. /\ UNCHANGED <<daemon, records, excused, mgr, limiter, reg>> /\ mon.pc = "idle" /\ Booked
      /\ quiet' = [t \in Tasks |-> IF Evt!Zero(t) THEN quiet[t] ELSE 0]
  BY BooksKept DEF Evt!Poll, Evt!MonRest
<1>s. Stall \in Nat \ {0}
  BY DEF Evt!GovernorsAssumption
<1> DEFINE stalled == {t \in Tasks : daemon[t] = "active" /\ Evt!Clocks[t] >= Stall}
           f == [t \in Tasks |-> IF t \in stalled THEN 0 ELSE Evt!Clocks[t]]
           p == IF stalled = {} THEN "idle" ELSE "pause"
<1>1. mon' = [mon EXCEPT !.pc = p, !.todo = stalled, !.stall = f]
  BY DEF Evt!Poll
<1>2. ASSUME NEW t \in Tasks
      PROVE  /\ Evt!Clocks[t] \in Int /\ Evt!Clocks[t] >= -1
             /\ Evt!Zero(t) => Evt!Clocks[t] <= quiet[t]
             /\ ~Evt!Zero(t) => Evt!Clocks[t] = -1
             /\ quiet[t] \in Nat /\ quiet[t] <= Stall
  BY MonitorFields DEF Evt!Clocks
<1>3. ASSUME NEW t \in Tasks
      PROVE  /\ f[t] \in Int /\ f[t] >= -1 /\ f[t] <= quiet'[t]
             /\ quiet'[t] \in Nat /\ quiet'[t] <= Stall
             /\ t \in stalled => quiet'[t] >= Stall
  <2>1. quiet'[t] = IF Evt!Zero(t) THEN quiet[t] ELSE 0
    BY <1>0
  <2>2. f[t] = IF t \in stalled THEN 0 ELSE Evt!Clocks[t]
    OBVIOUS
  <2>3. CASE Evt!Zero(t)
    <3>1. f[t] \in {0, Evt!Clocks[t]}
      BY <2>2
    <3>2. t \in stalled => Evt!Clocks[t] >= Stall
      OBVIOUS
    <3> HIDE DEF f, stalled
    <3> QED
      BY <3>1, <3>2, <2>1, <2>3, <1>2, <1>s
  <2>4. CASE ~Evt!Zero(t)
    <3>1. Evt!Clocks[t] = -1
      BY <2>4, <1>2
    <3>2. t \notin stalled
      BY <3>1, <1>s
    <3> QED
      BY <3>1, <3>2, <2>1, <2>2, <2>4, <1>s
  <2> QED
    BY <2>3, <2>4
<1>4. f \in [Tasks -> Int] /\ quiet' \in [Tasks -> Nat] /\ stalled \in SUBSET Tasks
  <2>1. f = [t \in Tasks |-> f[t]] /\ quiet' = [t \in Tasks |-> quiet'[t]]
    BY <1>0
  <2> QED
    BY <2>1, <1>3
<1>5. p \in {"idle", "pause"} /\ (p = "idle" => stalled = {})
  OBVIOUS
<1> HIDE DEF f, p, stalled
<1>6. DOMAIN mon' = MonFields /\ mon'.pc = p /\ mon'.todo = stalled /\ mon'.stall = f
  BY <1>1, MonitorFields DEF MonFields
<1>7. Clocked'
  <2>1. \A t \in Tasks : mon'.stall[t] >= -1 /\ mon'.stall[t] <= quiet'[t] /\ quiet'[t] <= Stall
    BY <1>3, <1>6
  <2>2. \A t \in mon'.todo : quiet'[t] >= Stall
    BY <1>3, <1>4, <1>6
  <2>3. mon'.pc \in {"idle", "off"} => mon'.todo = {}
    BY <1>5, <1>6
  <2> QED
    BY <2>1, <2>2, <2>3 DEF Clocked
<1>8. mgr.pc = "govern" /\ excused' \in SUBSET Tasks
  BY <1>0, MonitorFields
<1>9. mon'.pc \notin {"wait", "resume"}
  BY <1>5, <1>6
<1> QED
  BY <1>0, <1>4, <1>6, <1>7, <1>8, <1>9, MonitorMoves

(* The cycle of a stalled task: the clocks stay.                           *)
LEMMA MonitorCycles ==
    ASSUME GovInv, Booked, DOMAIN mon' = MonFields, mon.pc # "off", mon'.stall = mon.stall,
           mon'.todo \subseteq mon.todo, mon'.pc \in {"wait", "resume"} => mon'.cur \in Tasks,
           mon'.pc \in {"idle", "off"} => mon'.todo = {},
           excused' \in SUBSET Tasks, UNCHANGED <<mgr, limiter, reg, quiet>>
    PROVE  GovInv'
<1>1. mon'.stall \in [Tasks -> Int] /\ mon'.todo \in SUBSET Tasks /\ quiet' \in [Tasks -> Nat]
  BY MonitorFields
<1>2. mgr.pc = "govern"
  BY MonitorFields
<1>3. Clocked'
  BY MonitorFields DEF Clocked
<1> QED
  BY <1>1, <1>2, <1>3, MonitorMoves

(* CyclePause keeps GovInv.                                                *)
LEMMA CyclePauseKeeps == ASSUME GovInv, Evt!CyclePause PROVE GovInv'
<1>0. UNCHANGED <<mgr, limiter, reg, quiet>> /\ mon.pc = "pause"
  BY DEF Evt!CyclePause, Evt!MonRest
<1>1. CASE mon.todo = {} /\ mon' = [mon EXCEPT !.pc = "idle"] /\ UNCHANGED <<daemon, records, excused>>
  <2>1. DOMAIN mon' = MonFields /\ mon'.stall = mon.stall /\ mon'.todo = {} /\ mon'.pc = "idle"
    BY <1>1, MonitorFields DEF MonFields
  <2> QED
    BY <2>1, <1>0, <1>1, BooksKept, MonitorFields, MonitorCycles
<1>2. ASSUME NEW t \in mon.todo, Booked, excused' \in SUBSET Tasks,
             \/ mon' = [mon EXCEPT !.todo = @ \ {t}, !.cur = t, !.pc = "wait"]
             \/ mon' = [mon EXCEPT !.todo = @ \ {t}]
             \/ mon' = mon
      PROVE  GovInv'
  <2>1. /\ DOMAIN mon' = MonFields /\ mon'.stall = mon.stall /\ mon'.todo \subseteq mon.todo
        /\ (mon'.pc = "wait" /\ mon'.cur = t) \/ mon'.pc = "pause"
    BY <1>0, <1>2, MonitorFields DEF MonFields
  <2>2. t \in Tasks
    BY MonitorFields
  <2> QED
    BY <2>1, <2>2, <1>0, <1>2, MonitorCycles
<1>3. ASSUME NEW t \in mon.todo,
             Evt!OneControl("zero", t, "pause", mon' = [mon EXCEPT !.todo = @ \ {t}, !.cur = t, !.pc = "wait"],
                        mon' = [mon EXCEPT !.todo = @ \ {t}])
      PROVE  GovInv'
  <2>0. t \in Tasks /\ GovTypes /\ Unowned /\ "zero" \in Evt!Owners /\ "pause" \in ActKinds
    BY <1>3, MonitorFields DEF GovInv, Evt!Owners, ActKinds
  <2>1. Controlled("zero", t, "pause")
    BY <1>3 DEF Evt!OneControl, Controlled, Evt!Fails
  <2>2. Booked
    BY <2>0, <2>1, ControlFields
  <2>3. /\ excused' = excused
        /\ \/ mon' = [mon EXCEPT !.todo = @ \ {t}, !.cur = t, !.pc = "wait"]
           \/ mon' = [mon EXCEPT !.todo = @ \ {t}]
           \/ mon' = mon
    BY <1>3 DEF Evt!OneControl, Evt!Excuse
  <2>4. excused' \in SUBSET Tasks
    BY <2>3, MonitorFields
  <2> QED
    BY <2>2, <2>3, <2>4, <1>2
<1>4. ASSUME NEW t \in mon.todo, mon' = [mon EXCEPT !.todo = @ \ {t}], UNCHANGED <<daemon, records, excused>>
      PROVE  GovInv'
  BY <1>2, <1>4, BooksKept, MonitorFields
<1> QED
  BY <1>1, <1>3, <1>4 DEF Evt!CyclePause

(* CycleResume keeps GovInv.                                               *)
LEMMA CycleResumeKeeps == ASSUME GovInv, Evt!CycleResume PROVE GovInv'
<1>0. UNCHANGED <<mgr, limiter, reg, quiet>> /\ mon.pc \in {"wait", "resume"} /\ mon.cur \in Tasks
  BY MonitorFields DEF Evt!CycleResume, Evt!MonRest
<1>1. ASSUME Booked, excused' \in SUBSET Tasks,
             \/ mon' = [mon EXCEPT !.pc = "pause", !.cur = Nobody]
             \/ mon' = [mon EXCEPT !.pc = "resume"]
             \/ mon' = mon
      PROVE  GovInv'
  <2>1. /\ DOMAIN mon' = MonFields /\ mon'.stall = mon.stall /\ mon'.todo = mon.todo
        /\ mon'.pc = "pause" \/ (mon'.pc \in {"wait", "resume"} /\ mon'.cur = mon.cur)
    BY <1>0, <1>1, MonitorFields DEF MonFields
  <2> QED
    BY <2>1, <1>0, <1>1, MonitorCycles
<1>2. \/ /\ UNCHANGED <<daemon, records, excused>>
         /\ mon' = [mon EXCEPT !.pc = "pause", !.cur = Nobody] \/ mon' = [mon EXCEPT !.pc = "resume"]
      \/ Evt!OneControl("zero", mon.cur, "resume", mon' = [mon EXCEPT !.pc = "pause", !.cur = Nobody],
                    mon' = [mon EXCEPT !.pc = "pause", !.cur = Nobody])
  BY DEF Evt!CycleResume
<1>3. CASE /\ UNCHANGED <<daemon, records, excused>>
           /\ mon' = [mon EXCEPT !.pc = "pause", !.cur = Nobody] \/ mon' = [mon EXCEPT !.pc = "resume"]
  BY <1>1, <1>3, BooksKept, MonitorFields
<1>4. CASE Evt!OneControl("zero", mon.cur, "resume", mon' = [mon EXCEPT !.pc = "pause", !.cur = Nobody],
                      mon' = [mon EXCEPT !.pc = "pause", !.cur = Nobody])
  <2>0. PICK t \in Tasks : t = mon.cur
    BY <1>0
  <2>1. GovTypes /\ Unowned /\ "zero" \in Evt!Owners /\ "resume" \in ActKinds /\ Controlled("zero", t, "resume")
    BY <2>0, <1>4 DEF GovInv, Evt!Owners, ActKinds, Evt!OneControl, Controlled, Evt!Fails
  <2>2. Booked
    BY <2>1, ControlFields
  <2>3. /\ excused' \in {excused, excused \cup {t}}
        /\ mon' = [mon EXCEPT !.pc = "pause", !.cur = Nobody] \/ mon' = mon
    BY <2>0, <1>4 DEF Evt!OneControl, Evt!Excuse
  <2>4. excused' \in SUBSET Tasks
    BY <2>3, MonitorFields
  <2> QED
    BY <2>2, <2>3, <2>4, <1>1
<1> QED
  BY <1>2, <1>3, <1>4

(* MonitorEnds keeps GovInv.                                               *)
LEMMA MonitorEndsKeeps == ASSUME GovInv, Evt!MonitorEnds PROVE GovInv'
<1>0. /\ UNCHANGED <<daemon, records, excused, mgr, limiter, reg, quiet>> /\ mon.pc = "idle"
      /\ mon' = [mon EXCEPT !.pc = "off"] /\ Booked
  BY BooksKept DEF Evt!MonitorEnds, Evt!MonRest
<1>1. DOMAIN mon' = MonFields /\ mon'.stall = mon.stall /\ mon'.todo = mon.todo /\ mon'.pc = "off"
  BY <1>0, MonitorFields DEF MonFields
<1>2. mon.todo = {}
  BY <1>0 DEF GovInv, Clocked
<1> QED
  BY <1>0, <1>1, <1>2, MonitorFields, MonitorCycles

-----------------------------------------------------------------------------
(* The outside *)

(* A step that leaves the processes of the manager as they are.            *)
LEMMA OutsideMoves ==
    ASSUME GovInv, Booked, excused' \in SUBSET Tasks, UNCHANGED <<mgr, limiter, reg, mon, quiet>>,
           \A t \in Tasks : LeftPaused(t)' => LeftPaused(t) \/ t \in excused', excused \subseteq excused'
    PROVE  GovInv'
<1>1. GovTypes'
  BY DEF GovInv, GovTypes, Booked
<1>2. Dormant' /\ Clocked'
  BY DEF GovInv, Dormant, Clocked
<1>3. Unowned'
  BY DEF Booked, Unowned
<1>4. Resuming'
  BY DEF GovInv, Resuming
<1> QED
  BY <1>1, <1>2, <1>3, <1>4 DEF GovInv

(* Run keeps GovInv.                                                       *)
LEMMA RunKeeps == ASSUME GovInv, Evt!Run PROVE GovInv'
<1>0. /\ UNCHANGED <<daemon, records, quiet, limiter, reg, mon>> /\ mgr.pc = "off" /\ Booked /\ excused' = {}
      /\ \E d : mgr' = [Evt!MgrOff EXCEPT !.pc = "connect", !.delay = d]
  BY BooksKept DEF Evt!Run, Evt!Rest
<1>1. /\ DOMAIN mgr' = {"pc", "stop", "delay", "todo"} /\ mgr'.pc = "connect" /\ mgr'.stop = FALSE
      /\ mgr'.todo = {}
  BY <1>0 DEF Evt!MgrOff
<1>2. mgr'.pc \in MgrPcs /\ mgr'.stop \in BOOLEAN
  BY <1>1 DEF MgrPcs
<1> QED
  BY <1>0, <1>1, <1>2, ManagerFields, NotResuming, ManagerMoves

(* ReportTelegramFileError keeps GovInv.                                   *)
LEMMA ReportErrorKeeps == ASSUME GovInv, Evt!ReportTelegramFileError PROVE GovInv'
<1>0. /\ UNCHANGED <<daemon, records, mgr, limiter, mon, excused, quiet>>
      /\ \E q : reg' = [reg EXCEPT !.queue = q]
  BY DEF Evt!ReportTelegramFileError
<1>1. /\ DOMAIN reg' = RegFields /\ reg'.todo = reg.todo /\ reg'.paused = reg.paused
      /\ reg'.pc = reg.pc
  BY <1>0, RegulatorFields DEF RegFields
<1>2. GovTypes'
  BY <1>0, <1>1 DEF GovInv, GovTypes, RegFields
<1>3. Dormant' /\ Unowned' /\ Resuming' /\ Clocked'
  BY <1>0, <1>1 DEF GovInv, Dormant, Unowned, Resuming, LeftPaused, Clocked
<1> QED
  BY <1>2, <1>3 DEF GovInv

(* A tick moves every clock that runs, and the history with it.            *)
LEMMA TickKeeps == ASSUME Evt!GovernorsAssumption, GovInv, Evt!Tick PROVE GovInv'
<1>0. /\ UNCHANGED <<daemon, records, mgr, limiter, excused>>
      /\ \E g, r : reg' = [reg EXCEPT !.ages = g, !.rest = r]
      /\ quiet' = [t \in Tasks |-> Evt!Capped(quiet[t] + 1, Stall)]
  BY DEF Evt!Tick
<1>s. Stall \in Nat \ {0}
  BY DEF Evt!GovernorsAssumption
<1> DEFINE f == [t \in Tasks |-> IF mon.stall[t] = -1 THEN -1 ELSE Evt!Capped(mon.stall[t] + 1, Stall)]
<1>1. mon' = [mon EXCEPT !.stall = f]
  BY DEF Evt!Tick
<1>2. ASSUME NEW t \in Tasks
      PROVE  /\ f[t] \in Int /\ f[t] >= -1 /\ f[t] <= quiet'[t]
             /\ quiet'[t] \in Nat /\ quiet'[t] <= Stall
             /\ quiet[t] >= Stall => quiet'[t] >= Stall
  <2>1. /\ mon.stall[t] \in Int /\ quiet[t] \in Nat /\ mon.stall[t] >= -1
        /\ mon.stall[t] <= quiet[t] /\ quiet[t] <= Stall
    BY MonitorFields
  <2>2. quiet'[t] = Evt!Capped(quiet[t] + 1, Stall)
    BY <1>0
  <2>3. f[t] = IF mon.stall[t] = -1 THEN -1 ELSE Evt!Capped(mon.stall[t] + 1, Stall)
    OBVIOUS
  <2> HIDE DEF f
  <2> QED
    BY <2>1, <2>2, <2>3, <1>s DEF Evt!Capped
<1>3. f \in [Tasks -> Int] /\ quiet' \in [Tasks -> Nat]
  <2>1. f = [t \in Tasks |-> f[t]] /\ quiet' = [t \in Tasks |-> quiet'[t]]
    BY <1>0
  <2> QED
    BY <2>1, <1>2
<1> HIDE DEF f
<1>4. /\ DOMAIN mon' = MonFields /\ mon'.pc = mon.pc /\ mon'.todo = mon.todo /\ mon'.stall = f
      /\ mon'.cur = mon.cur
  BY <1>1, MonitorFields DEF MonFields
<1>5. /\ DOMAIN reg' = RegFields /\ reg'.todo = reg.todo /\ reg'.paused = reg.paused
      /\ reg'.pc = reg.pc
  BY <1>0, RegulatorFields DEF RegFields
<1>6. GovTypes'
  BY <1>0, <1>3, <1>4, <1>5 DEF GovInv, GovTypes, RegFields, MonFields
<1>7. Dormant' /\ Unowned' /\ Resuming'
  BY <1>0, <1>4, <1>5 DEF GovInv, Dormant, Unowned, Resuming, LeftPaused
<1>8. Clocked'
  <2>1. \A t \in Tasks : mon'.stall[t] >= -1 /\ mon'.stall[t] <= quiet'[t] /\ quiet'[t] <= Stall
    BY <1>2, <1>4
  <2>2. \A t \in mon'.todo : quiet'[t] >= Stall
    BY <1>2, <1>4, MonitorFields
  <2>3. mon'.pc \in {"idle", "off"} => mon'.todo = {}
    BY <1>4 DEF GovInv, Clocked
  <2> QED
    BY <2>1, <2>2, <2>3 DEF Clocked
<1> QED
  BY <1>6, <1>7, <1>8 DEF GovInv

(* StopManager keeps GovInv.                                               *)
LEMMA StopManagerKeeps == ASSUME GovInv, Evt!StopManager PROVE GovInv'
<1>0. UNCHANGED <<daemon, records, excused, quiet, limiter, reg, mon>> /\ mgr' = [mgr EXCEPT !.stop = TRUE]
  BY DEF Evt!StopManager, Evt!Rest
<1>1. /\ DOMAIN mgr' = {"pc", "stop", "delay", "todo"} /\ mgr'.pc = mgr.pc /\ mgr'.stop = TRUE
      /\ mgr'.todo = mgr.todo
  BY <1>0, ManagerFields
<1>2. GovTypes'
  BY <1>0, <1>1 DEF GovInv, GovTypes
<1>3. Dormant' /\ Unowned' /\ Resuming' /\ Clocked'
  BY <1>0, <1>1 DEF GovInv, Dormant, Unowned, Resuming, LeftPaused, Clocked
<1> QED
  BY <1>2, <1>3 DEF GovInv

(* ProcessEnds keeps GovInv.                                               *)
LEMMA ProcessEndsKeeps == ASSUME Evt!GovernorsAssumption, GovInv, Evt!ProcessEnds PROVE GovInv'
<1>0. /\ mgr' = Evt!MgrOff /\ limiter' = "off" /\ reg' = Evt!RegOff /\ mon' = Evt!MonOff
      /\ quiet' = [t \in Tasks |-> 0] /\ UNCHANGED <<daemon, records, excused>> /\ Booked
  BY BooksKept DEF Evt!ProcessEnds
<1>s. Stall \in Nat \ {0}
  BY DEF Evt!GovernorsAssumption
<1>1. /\ DOMAIN Evt!MgrOff = {"pc", "stop", "delay", "todo"} /\ Evt!MgrOff.pc = "off" /\ Evt!MgrOff.stop = FALSE
      /\ Evt!MgrOff.todo = {}
  BY DEF Evt!MgrOff
<1>2. /\ DOMAIN Evt!RegOff = RegFields /\ Evt!RegOff.todo = {} /\ Evt!RegOff.paused = {} /\ Evt!RegOff.pc = "off"
  BY DEF Evt!RegOff, RegFields
<1>3. /\ DOMAIN Evt!MonOff = MonFields /\ Evt!MonOff.stall = [t \in Tasks |-> -1] /\ Evt!MonOff.todo = {}
      /\ Evt!MonOff.pc = "off"
  BY DEF Evt!MonOff, MonFields
<1>a. mgr'.stop \in BOOLEAN /\ mgr'.pc \in MgrPcs
  BY <1>0, <1>1, Zenon DEF MgrPcs
<1>b. mon'.stall \in [Tasks -> Int] /\ quiet' \in [Tasks -> Nat] /\ mon'.pc \notin {"wait", "resume"}
  BY <1>0, <1>3
<1>4. GovTypes'
  BY <1>0, <1>1, <1>2, <1>3, <1>a, <1>b DEF GovInv, GovTypes, Booked, RegFields, MonFields
<1>5. Dormant' /\ Unowned' /\ Resuming'
  BY <1>0, <1>1, <1>2, <1>3 DEF Dormant, Booked, Unowned, Resuming
<1>6. Clocked'
  BY <1>0, <1>3, <1>s DEF Clocked
<1> QED
  BY <1>4, <1>5, <1>6 DEF GovInv

(* DaemonControl keeps GovInv.                                             *)
LEMMA DaemonControlKeeps == ASSUME GovInv, NEW t \in Tasks, Evt!DaemonControl(t) PROVE GovInv'
<1> DEFINE v == IF daemon[t] = "paused" THEN "waiting" ELSE "paused"
<1>0. /\ UNCHANGED <<records, mgr, limiter, reg, mon, quiet>> /\ daemon' = [daemon EXCEPT ![t] = v]
      /\ excused' = IF daemon[t] = "paused" THEN excused ELSE excused \cup {t}
  BY DEF Evt!DaemonControl, Evt!Rest
<1>1. v \in Evt!Remote /\ (v = "paused" => t \in excused') /\ excused \subseteq excused'
  BY <1>0 DEF Evt!Remote
<1> HIDE DEF v
<1>2. daemon' \in [Tasks -> Evt!Remote] /\ daemon'[t] = v /\ \A u \in Tasks \ {t} : daemon'[u] = daemon[u]
  BY <1>0, <1>1 DEF GovInv, GovTypes
<1>3. Booked /\ excused' \in SUBSET Tasks
  BY <1>0, <1>2 DEF GovInv, GovTypes, Booked, Unowned
<1>4. \A u \in Tasks : LeftPaused(u)' => LeftPaused(u) \/ u \in excused'
  BY <1>0, <1>1, <1>2 DEF LeftPaused
<1> QED
  BY <1>0, <1>1, <1>3, <1>4, OutsideMoves

(* SyncStates keeps GovInv.                                                *)
LEMMA SyncStatesKeeps == ASSUME GovInv, NEW t \in Tasks, Evt!SyncStates(t) PROVE GovInv'
<1> DEFINE y == [records[t] EXCEPT !.status = daemon[t]]
<1>0. /\ UNCHANGED <<daemon, excused, mgr, limiter, reg, mon, quiet>>
      /\ records \in [Tasks -> RecType] /\ daemon[t] \in Evt!Remote /\ records[t] \in RecType
      /\ excused \in SUBSET Tasks
  BY DEF Evt!SyncStates, Evt!Rest, GovInv, GovTypes
<1>1. y \in RecType /\ y.owner = records[t].owner
  BY <1>0 DEF RecType
<1>2. records' = [records EXCEPT ![t] = y]
  BY <1>0 DEF Evt!SyncStates, RecType
<1> HIDE DEF y
<1>3. records' \in [Tasks -> RecType] /\ \A u \in Tasks : records'[u].owner = records[u].owner
  BY <1>0, <1>1, <1>2
<1>4. Booked
  BY <1>0, <1>3 DEF GovInv, GovTypes, Booked, Unowned
<1>5. \A u \in Tasks : LeftPaused(u)' => LeftPaused(u) \/ u \in excused'
  BY <1>0, <1>3 DEF LeftPaused
<1> QED
  BY <1>0, <1>4, <1>5, OutsideMoves

(* Progress keeps GovInv.                                                  *)
LEMMA TaskProgressKeeps == ASSUME GovInv, NEW t \in Tasks, Evt!Progress(t) PROVE GovInv'
<1>0. /\ UNCHANGED <<records, excused, mgr, limiter, reg, mon, quiet>> /\ excused \in SUBSET Tasks
      /\ daemon \in [Tasks -> Evt!Remote]
      /\ \/ daemon' = daemon \/ daemon' = [daemon EXCEPT ![t] = "active"]
         \/ daemon' = [daemon EXCEPT ![t] = "done"]
  BY DEF Evt!Progress, Evt!Rest, GovInv, GovTypes
<1>1. "active" \in Evt!Remote /\ "done" \in Evt!Remote
  BY DEF Evt!Remote
<1>2. /\ daemon' \in [Tasks -> Evt!Remote]
      /\ \A u \in Tasks : daemon'[u] = "paused" => daemon[u] = "paused"
  BY <1>0, <1>1
<1>3. Booked
  BY <1>0, <1>2 DEF GovInv, GovTypes, Booked, Unowned
<1>4. \A u \in Tasks : LeftPaused(u)' => LeftPaused(u) \/ u \in excused'
  BY <1>0, <1>2 DEF LeftPaused
<1> QED
  BY <1>0, <1>3, <1>4, OutsideMoves

(* A user's pause has no owner, and a user's resume takes it away.         *)
LEMMA UserControlKeeps ==
    ASSUME GovInv, NEW t \in Tasks, NEW act \in ActKinds, Evt!UserControl(t, act) PROVE GovInv'
<1>0. /\ UNCHANGED <<excused, mgr, limiter, reg, mon, quiet>> /\ Evt!Registered(t)
      /\ excused \in SUBSET Tasks /\ GovTypes /\ Unowned
      /\ daemon \in [Tasks -> Evt!Remote] /\ records \in [Tasks -> RecType]
  BY DEF Evt!UserControl, Evt!Rest, GovInv, GovTypes
<1>1. /\ Booked /\ records'[t].owner = Nobody
      /\ \A u \in Tasks \ {t} : daemon'[u] = daemon[u] /\ records'[u] = records[u]
  <2>1. CASE act = "pause"
    <3> DEFINE st == IF daemon[t] = "done" THEN "done" ELSE "paused"
    <3>1. Evt!Recorded(t, st, Nobody) /\ daemon' = [daemon EXCEPT ![t] = st]
      BY <2>1, <1>0 DEF Evt!UserControl
    <3>2. st \in Evt!Remote /\ Nobody \in Evt!Owners \cup {Nobody}
      BY DEF Evt!Remote
    <3> HIDE DEF st
    <3>3. /\ records' \in [Tasks -> RecType] /\ \A u \in Tasks \ {t} : records'[u] = records[u]
          /\ records'[t].owner = IF st = "paused" THEN Nobody ELSE Nobody
          /\ \A u \in Tasks \cap Foreign : records'[u].owner = Nobody
      <4>1. PICK z \in Evt!Remote : z = st
        BY <3>2
      <4>2. Evt!Recorded(t, z, Nobody)
        BY <4>1, <3>1
      <4> QED
        BY <4>1, <4>2, <3>2, <1>0, RecordedFields
    <3>4. daemon' \in [Tasks -> Evt!Remote] /\ \A u \in Tasks \ {t} : daemon'[u] = daemon[u]
      BY <3>1, <3>2, <1>0
    <3> QED
      BY <3>3, <3>4 DEF Booked
  <2>2. CASE act # "pause"
    BY <2>2, <1>0, UnpauseFields DEF Evt!UserControl
  <2> QED
    BY <2>1, <2>2
<1>2. \A u \in Tasks : LeftPaused(u)' => LeftPaused(u) \/ u \in excused'
  BY <1>1 DEF LeftPaused
<1> QED
  BY <1>0, <1>1, <1>2, OutsideMoves

(* A change of the configuration touches nothing GovInv speaks of.         *)
LEMMA ConfigKeeps ==
    ASSUME GovInv, UNCHANGED <<daemon, records, mgr, limiter, reg, mon, excused, quiet>>
    PROVE  GovInv'
BY DEF GovInv, GovTypes, Dormant, Unowned, Resuming, LeftPaused, Clocked

(* Every step of the manager and of the governors keeps GovInv.            *)
LEMMA GovernorKeeps == ASSUME Evt!GovernorsAssumption, GovInv, Evt!Governor PROVE GovInv'
BY ConnectKeeps, BackoffKeeps, RecoverKeeps, ResumeStartupKeeps, LaunchKeeps, DrainKeeps,
   ShutdownKeeps, LimiterKeeps, RecordErrorKeeps, RegulateKeeps, ForcePauseTasksKeeps,
   ResumeAfterPauseKeeps, RegulatorEndsKeeps, PollKeeps, CyclePauseKeeps, CycleResumeKeeps,
   MonitorEndsKeeps
   DEF Evt!Governor

(* Every outside event keeps GovInv.                                       *)
LEMMA GovOutsideKeeps == ASSUME Evt!GovernorsAssumption, GovInv, Evt!GovOutside PROVE GovInv'
<1>1. CASE \E n \in Limits : Evt!UpdateTransferLimits(n)
  BY <1>1, ConfigKeeps DEF Evt!UpdateTransferLimits, Evt!Rest
<1>2. CASE \E p \in Policies : Evt!CommitPolicy(p)
  BY <1>2, ConfigKeeps DEF Evt!CommitPolicy, Evt!Rest
<1> QED
  BY <1>1, <1>2, RunKeeps, ReportErrorKeeps, TickKeeps, StopManagerKeeps, ProcessEndsKeeps,
     DaemonControlKeeps, SyncStatesKeeps, TaskProgressKeeps, UserControlKeeps
     DEF Evt!GovOutside, ActKinds

(* The manager and the governors start with their books in order.          *)
LEMMA GovInitial == ASSUME Evt!GovernorsAssumption, Evt!GovInit PROVE GovInv
<1>s. Stall \in Nat \ {0}
  BY DEF Evt!GovernorsAssumption
<1>0. /\ daemon = [t \in Tasks |-> "active"] /\ mgr = Evt!MgrOff /\ limiter = "off" /\ reg = Evt!RegOff
      /\ mon = Evt!MonOff /\ excused = {} /\ quiet = [t \in Tasks |-> 0]
      /\ records = [t \in Tasks |-> [status |-> "active", owner |-> Nobody]]
  BY DEF Evt!GovInit
<1>1. /\ DOMAIN mgr = {"pc", "stop", "delay", "todo"} /\ mgr.pc = "off" /\ mgr.stop = FALSE
      /\ mgr.todo = {}
  BY <1>0 DEF Evt!MgrOff
<1>2. DOMAIN reg = RegFields /\ reg.todo = {} /\ reg.paused = {} /\ reg.pc = "off"
  BY <1>0 DEF Evt!RegOff, RegFields
<1>3. /\ DOMAIN mon = MonFields /\ mon.stall = [t \in Tasks |-> -1] /\ mon.todo = {}
      /\ mon.pc = "off"
  BY <1>0 DEF Evt!MonOff, MonFields
<1>4. [status |-> "active", owner |-> Nobody] \in RecType /\ "active" \in Evt!Remote
  BY DEF RecType, Evt!Remote
<1>5. daemon \in [Tasks -> Evt!Remote] /\ records \in [Tasks -> RecType] /\ \A t \in Tasks : records[t].owner = Nobody
  BY <1>0, <1>4
<1>a. mgr.stop \in BOOLEAN /\ mgr.pc \in MgrPcs
  BY <1>1, Zenon DEF MgrPcs
<1>b. mon.stall \in [Tasks -> Int] /\ quiet \in [Tasks -> Nat] /\ mon.pc \notin {"wait", "resume"}
  BY <1>0, <1>3
<1>6. GovTypes
  BY <1>0, <1>1, <1>2, <1>3, <1>5, <1>a, <1>b DEF GovTypes, RegFields, MonFields
<1>7. Dormant /\ Unowned /\ Resuming
  BY <1>0, <1>1, <1>2, <1>3, <1>5 DEF Dormant, Unowned, Resuming
<1>8. Clocked
  BY <1>0, <1>3, <1>s DEF Clocked
<1> QED
  BY <1>6, <1>7, <1>8 DEF GovInv

-----------------------------------------------------------------------------
(* The composition *)

EventsInv == GovInv /\ EvtInv

(* Every step keeps the two invariants together.                           *)
LEMMA EventsStep ==
    ASSUME Evt!GovernorsAssumption, Evt!EventsAssumption, EventsInv, [Evt!Next]_(Evt!vars) PROVE EventsInv'
<1>0. GovInv /\ EvtInv
  BY DEF EventsInv
<1>1. CASE (Evt!Governor \/ Evt!GovOutside) /\ Evt!Reported
  BY <1>0, <1>1, GovernorKeeps, GovOutsideKeeps, ReportedKeeps DEF EventsInv
<1>2. CASE /\ Evt!Listening \/ Evt!Listen \/ Evt!StopListener \/ Evt!Enqueue \/ Evt!StopNotes \/ Evt!StartNotes
           /\ UNCHANGED <<daemon, flowing, cap, records, mgr, conf, limiter, reg, mon, excused, quiet>>
  BY <1>0, <1>2, ConfigKeeps, ListeningKeeps, ListenKeeps, StopListenerKeeps, EnqueueKeeps,
     StopNotesKeeps, StartNotesKeeps DEF EventsInv
<1>3. CASE UNCHANGED Evt!vars
  <2>1. UNCHANGED <<daemon, records, mgr, limiter, reg, mon, excused, quiet>> /\ UNCHANGED Evt!evtVars
    BY <1>3 DEF Evt!vars, Evt!govVars
  <2>2. GovInv'
    BY <2>1, <1>0, ConfigKeeps
  <2>3. EvtInv'
    BY <2>1, <1>0 DEF Evt!evtVars, EvtInv, Tracker, ListenerTypes, Ending, Silenced
  <2> QED
    BY <2>2, <2>3 DEF EventsInv
<1> QED
  BY <1>1, <1>2, <1>3 DEF Evt!Next, Evt!Internal, Evt!Outside

(* So they hold in every reachable state.                                  *)
LEMMA EventsSafe ==
    ASSUME Evt!GovernorsAssumption, Evt!EventsAssumption PROVE Evt!Spec => []EventsInv
<1>1. Evt!Init => EventsInv
  BY GovInitial, EvtInitial DEF Evt!Init, EventsInv
<1>2. EventsInv /\ [Evt!Next]_(Evt!vars) => EventsInv'
  BY EventsStep
<1> QED
  BY <1>1, <1>2, PTL DEF Evt!Spec

(* A pause the automation holds has an owner: read off the invariant.      *)
LEMMA OwnedFollows == ASSUME EventsInv PROVE AutomationOwned
<1>1. Evt!StartupResumes
  BY DEF EventsInv, GovInv, Resuming, LeftPaused, Evt!StartupResumes
<1>2. Evt!ProgressOwned
  BY DEF EventsInv, EvtInv, Tracker, Ending, Silenced, Evt!ProgressOwned, Evt!Alive, Evt!Calling
<1> QED
  BY <1>1, <1>2 DEF AutomationOwned

(* For any tasks, slots, loops and events: what automation left paused     *)
(* runs again before the governors start (manager.go Run), a running       *)
(* progress loop is the entry of its task, no handler or loop outlives the *)
(* listener (aria2ProgressTracker), and nothing is sent after the          *)
(* notifications stopped.                                                  *)
THEOREM EventsOwned == AutomationSpec => []AutomationOwned
BY EventsSafe, OwnedFollows, AutomationAssumption, PTL DEF AutomationSpec

(* What the governors change in the daemon is a task of the account, and   *)
(* a new cycle is one of a task on the monitor's list.                     *)
LEMMA GovernorJustified ==
    ASSUME Evt!GovernorsAssumption, GovInv, Evt!Governor, NEW t \in Tasks, daemon'[t] # daemon[t]
    PROVE  Evt!Registered(t) /\ ((mon'.cur = t /\ mon.cur # t) => quiet[t] >= Stall)
<1>0. GovTypes /\ Unowned /\ Evt!Owners = {"telegram", "zero", "lifecycle"} /\ ActKinds = {"pause", "resume"}
  BY DEF GovInv, Evt!Owners, ActKinds
<1>1. ASSUME NEW u \in Tasks, NEW a \in Evt!Owners, NEW act \in ActKinds, Controlled(a, u, act)
      PROVE  u = t /\ Evt!Registered(t)
  BY <1>0, <1>1, ControlFields
<1>2. CASE Evt!ResumeStartupPausedTasks
  <2>1. \E u \in mgr.todo : Controlled("lifecycle", u, "resume")
    BY <1>2 DEF Evt!ResumeStartupPausedTasks, Evt!OneControl, Controlled, Evt!Fails
  <2> QED
    BY <2>1, <1>0, <1>1, <1>2, ManagerFields DEF Evt!ResumeStartupPausedTasks
<1>3. CASE Evt!PauseTDLTasksForShutdown
  <2>1. \E u \in mgr.todo : Controlled("lifecycle", u, "pause")
    BY <1>3 DEF Evt!PauseTDLTasksForShutdown, Evt!OneControl, Controlled, Evt!Fails
  <2> QED
    BY <2>1, <1>0, <1>1, <1>3, ManagerFields DEF Evt!PauseTDLTasksForShutdown
<1>4. CASE Evt!ForcePauseTasks
  <2>1. \E u \in reg.todo : Controlled("telegram", u, "pause")
    BY <1>4 DEF Evt!ForcePauseTasks, Evt!OneControl, Controlled, Evt!Fails
  <2> QED
    BY <2>1, <1>0, <1>1, <1>4, RegulatorFields DEF Evt!ForcePauseTasks, Evt!RegRest
<1>5. CASE Evt!ResumeAfterPause
  <2>1. \E u \in reg.paused : Controlled("telegram", u, "resume")
    BY <1>5 DEF Evt!ResumeAfterPause, Evt!OneControl, Controlled, Evt!Fails
  <2> QED
    BY <2>1, <1>0, <1>1, <1>5, RegulatorFields DEF Evt!ResumeAfterPause, Evt!RegRest
<1>6. CASE Evt!CyclePause
  <2>1. \E u \in mon.todo : Controlled("zero", u, "pause")
    BY <1>6 DEF Evt!CyclePause, Evt!OneControl, Controlled, Evt!Fails
  <2>2. t \in mon.todo /\ Evt!Registered(t)
    BY <2>1, <1>0, <1>1, MonitorFields
  <2> QED
    BY <2>2, MonitorFields
<1>7. CASE Evt!CycleResume
  <2>1. Controlled("zero", mon.cur, "resume") /\ mon.cur \in Tasks
    BY <1>7, MonitorFields DEF Evt!CycleResume, Evt!OneControl, Controlled, Evt!Fails
  <2>2. mon.cur = t /\ Evt!Registered(t)
    BY <2>1, <1>0, <1>1
  <2> QED
    BY <2>2
<1>8. CASE Evt!Connect \/ Evt!Backoff \/ Evt!Recover \/ Evt!Launch \/ Evt!Drain \/ Evt!Limiter
  BY <1>8 DEF Evt!Connect, Evt!Backoff, Evt!Recover, Evt!Launch, Evt!Drain, Evt!Limiter
<1>9. CASE Evt!RecordError \/ Evt!Regulate \/ Evt!RegulatorEnds \/ Evt!Poll \/ Evt!MonitorEnds
  BY <1>9 DEF Evt!RecordError, Evt!Regulate, Evt!RegulatorEnds, Evt!Poll, Evt!MonitorEnds
<1> QED
  BY <1>2, <1>3, <1>4, <1>5, <1>6, <1>7, <1>8, <1>9 DEF Evt!Governor

(* For any thresholds and any timing: the governors change tasks of the    *)
(* account only, and the monitor cycles a task only after Stall ticks of   *)
(* polls that all saw it active without a byte (speed_monitor.go poll).    *)
THEOREM EventsJustified == AutomationSpec => Justified
<1>1. EventsInv /\ [Evt!Next]_(Evt!vars) =>
        [Evt!Governor => \A t \in Tasks : daemon'[t] # daemon[t] =>
            /\ Evt!Registered(t)
            /\ (mon'.cur = t /\ mon.cur # t) => quiet[t] >= Stall]_(Evt!vars)
  BY GovernorJustified, AutomationAssumption DEF EventsInv
<1> QED
  BY <1>1, EventsSafe, AutomationAssumption, PTL DEF AutomationSpec, Evt!Spec, Justified
=============================================================================
