---------------------------- MODULE IntakeProofs ----------------------------
(***************************************************************************)
(* Proofs about Intake, for any messages, callers, routes, albums, queue   *)
(* lengths and any number of outside events: a reaction submits its        *)
(* message once, at most one executor takes an item, nothing is left that  *)
(* reads over a released connection, a caller is told of its own link, and *)
(* no two files of a batch get the same path.                              *)
(***************************************************************************)
EXTENDS Intake, FiniteSetTheorems, SequenceTheorems, WellFoundedInduction, TLAPS

(* Updates on their way tell what the account's reaction was, in order:    *)
(* between an update without it and a later one with it, it was added.     *)
Sent == [mine : {"yes", "no", "part"}, kind : {"reaction", "edit"}, n : Nat]
Told(q, on, a) ==
    /\ \A i \in 1..Len(q) : q[i].n <= a /\ (on /\ q[i].mine = "no" => q[i].n < a)
    /\ \A i, j \in 1..Len(q) :
          i < j => q[i].n <= q[j].n /\ (q[i].mine = "no" /\ q[j].mine = "yes" => q[i].n < q[j].n)

(* Without a claim every update with the reaction stands for one that was  *)
(* not submitted yet; with a claim that is to be published every update    *)
(* does; with one that was, an update without the reaction comes after it. *)
Owed(q, on, a, total) == (on => total < a) /\ \A i \in 1..Len(q) : q[i].mine = "yes" => total < q[i].n
Claiming(q, a, total) == total < a /\ \A i \in 1..Len(q) : total < q[i].n
Served(q, total) == \A i \in 1..Len(q) : q[i].mine = "no" => total <= q[i].n

MsgSound(m, q, h, g, on, a, t, C) ==
    /\ Told(q, on, a) /\ g.total <= a /\ (h = "publish" => g.total < a)
    /\ t = "up" /\ m \notin C => h # "publish" /\ g.window = 0 /\ Owed(q, on, a, g.total)
    /\ m \in C /\ h = "publish" => g.window = 0 /\ Claiming(q, a, g.total)
    /\ m \in C /\ h # "publish" => g.window = 1 /\ Served(q, g.total)

Counts == [total : Nat, window : Nat]
ReactTypes ==
    /\ react \in [Messages -> BOOLEAN] /\ inbox \in [Messages -> Seq(Sent)]
    /\ handler \in [Messages -> {"idle", "publish", "forward"}]
    /\ trigger \in {"up", "stopped"} /\ claims \subseteq Messages /\ (trigger = "stopped" => claims = {})
    /\ added \in [Messages -> Nat] /\ got \in [Messages -> Counts]
ReactInv ==
    /\ ReactTypes
    /\ \A m \in Messages : MsgSound(m, inbox[m], handler[m], got[m], react[m], added[m], trigger, claims)

(* The items of a batch: nobody took one that is still open, and only the  *)
(* executor whose turn it was took one that is over.                       *)
ItemFields == {"at", "k", "data", "target", "bad", "took", "entered"}
Fresh == {"new", "plan", "failed", "skipped"}
Open == Fresh \cup {"route", "inside"}
ItemSound(it, r) ==
    /\ DOMAIN it = ItemFields /\ it.at \in Open \cup {"queued", "uncertain"}
    /\ it.at \in Open => it.took = {}
    /\ it.at \in {"queued", "uncertain"} => it.took \subseteq {r[it.k]}
    /\ it.at = "queued" /\ "record" \notin it.bad => it.took = {r[it.k]}
BatchFields == {"at", "msg", "call", "route", "item"}
BatchInv ==
    /\ DOMAIN batch = BatchFields
    /\ batch.at \in {"idle", "taken", "begun", "prepare", "submit", "failed"}
    /\ batch.at \notin {"prepare", "submit"} => batch.item = <<>>
    /\ \A i \in Items : ItemSound(batch.item[i], batch.route) /\ (batch.at = "prepare" => batch.item[i].at \in Fresh)

(* The connection ends in the order dispatcher, intents, updates.          *)
ConnInv ==
    /\ DOMAIN disp = {"at", "call"} /\ disp.at \in {"idle", "resolve", "await"}
    /\ conn \in {"intents", "updates", "off"} => disp.at = "idle"
    /\ conn \in {"updates", "off"} => batch.at = "idle" /\ fwd = NoMsg /\ bus = <<>> /\ fbus = <<>>
    /\ conn = "off" => \A m \in Messages : handler[m] = "idle"

(* What is queued or under way for a caller is of the current run of the   *)
(* controller and carries his message; who returned early can not be taken *)
(* for a caller of this run.                                               *)
CallRec == [at : {"idle", "sending", "waiting", "answered", "returned"}, msg : Messages \cup {NoMsg}, run : Nat,
            live : BOOLEAN, ans : Messages \cup {NoMsg}, early : BOOLEAN]
CallSound(c, y, run, last, R) ==
    /\ y.run <= last /\ (y.at \in {"sending", "waiting"} => y.run # 0)
    /\ y.ans \in {NoMsg, y.msg} /\ (y.at # "idle" => y.msg \in Messages) /\ (y.at = "idle" => c \notin R)
    /\ y.early => y.at = "returned" /\ c \notin R /\ (~y.live \/ (y.run # run /\ y.run # 0))
CallsSound ==
    /\ call \in [Callers -> CallRec]
    /\ DOMAIN ctrl = {"run", "last", "stop"} /\ ctrl.run \in Nat /\ ctrl.last \in Nat /\ ctrl.run <= ctrl.last
    /\ \A c \in Callers : CallSound(c, call[c], ctrl.run, ctrl.last, ran)

Asked(c) == c \in Callers /\ call[c].at # "idle"
Under(c) == Asked(c) /\ call[c].run = ctrl.run /\ ctrl.run # 0
Intent == [msg : Messages, call : Nat]
LinksSound == links \in Seq(Callers) /\ \A i \in 1..Len(links) : Under(links[i])
BusSound ==
    /\ bus \in Seq(Intent)
    /\ \A i \in 1..Len(bus) : bus[i].call # 0 => Under(bus[i].call) /\ bus[i].msg = call[bus[i].call].msg
DispSound == disp.at # "idle" => Under(disp.call)
BatchSound == batch.call # 0 => Asked(batch.call) /\ batch.msg = call[batch.call].msg
LinkInv == CallsSound /\ LinksSound /\ BusSound /\ DispSound /\ BatchSound

IntakeInv == ReactInv /\ BatchInv /\ ConnInv /\ LinkInv

-----------------------------------------------------------------------------
(* Reactions *)

(* One more update behind the others.                                      *)
LEMMA Appended ==
    ASSUME NEW m, NEW q \in Seq(Sent), NEW h, NEW g \in Counts, NEW on \in BOOLEAN, NEW a \in Nat, NEW t, NEW C,
           MsgSound(m, q, h, g, on, a, t, C),
           NEW u \in Sent, NEW on2 \in BOOLEAN, NEW a2 \in Nat, a <= a2, u.n = a2,
           on2 /\ ~on => a < a2, u.mine = "yes" => on2, u.mine = "no" => ~on2
    PROVE  MsgSound(m, Append(q, u), h, g, on2, a2, t, C)
<1> DEFINE p == Append(q, u)
<1>1. /\ Len(q) \in Nat /\ Len(p) = Len(q) + 1 /\ p[Len(q) + 1] = u
      /\ \A i \in 1..Len(q) : p[i] = q[i] /\ q[i] \in Sent
  OBVIOUS
<1>2. \A i \in 1..Len(p) : i \in 1..Len(q) \/ i = Len(q) + 1
  BY <1>1
<1>3. \A i \in 1..Len(q) : q[i].n \in Nat /\ q[i].n <= a /\ (on /\ q[i].mine = "no" => q[i].n < a)
  BY <1>1 DEF MsgSound, Told, Sent
<1> HIDE DEF p
<1>4. Told(p, on2, a2)
  <2>1. \A i \in 1..Len(p) : p[i].n <= a2 /\ (on2 /\ p[i].mine = "no" => p[i].n < a2)
    BY <1>1, <1>2, <1>3
  <2>2. ASSUME NEW i \in 1..Len(p), NEW j \in 1..Len(p), i < j
        PROVE  p[i].n <= p[j].n /\ (p[i].mine = "no" /\ p[j].mine = "yes" => p[i].n < p[j].n)
    <3>1. CASE j \in 1..Len(q)
      <4>1. i \in 1..Len(q)
        BY <3>1, <2>2, <1>1, <1>2
      <4> QED
        BY <3>1, <4>1, <2>2, <1>1 DEF MsgSound, Told
    <3>2. CASE j = Len(q) + 1
      <4>1. i \in 1..Len(q) /\ p[j] = u
        BY <3>2, <2>2, <1>1, <1>2
      <4> QED
        BY <4>1, <1>1, <1>3
    <3> QED
      BY <3>1, <3>2, <1>2
  <2> QED
    BY <2>1, <2>2 DEF Told
<1>5. g.total \in Nat /\ g.total <= a
  BY DEF MsgSound, Counts
<1>6. (h = "publish" => g.total < a) => (h = "publish" => g.total < a2)
  BY <1>5
<1>7. ASSUME Owed(q, on, a, g.total) PROVE Owed(p, on2, a2, g.total)
  BY <1>7, <1>1, <1>2, <1>3, <1>5 DEF Owed
<1>8. ASSUME Claiming(q, a, g.total) PROVE Claiming(p, a2, g.total)
  BY <1>8, <1>1, <1>2, <1>3, <1>5 DEF Claiming
<1>9. ASSUME Served(q, g.total) PROVE Served(p, g.total)
  BY <1>9, <1>1, <1>2, <1>3, <1>5 DEF Served
<1>10. g.total <= a2
  BY <1>5
<1>11. MsgSound(m, p, h, g, on2, a2, t, C)
  BY <1>4, <1>6, <1>7, <1>8, <1>9, <1>10 DEF MsgSound
<1> QED
  BY <1>11 DEF p

(* The first update is taken away: what is said of all is said of the rest. *)
LEMMA Rest ==
    ASSUME NEW q \in Seq(Sent), q # <<>>, NEW on \in BOOLEAN, NEW a \in Nat, Told(q, on, a)
    PROVE  /\ Tail(q) \in Seq(Sent) /\ Told(Tail(q), on, a) /\ Head(q) \in Sent
           /\ Head(q).n \in Nat /\ Head(q).n <= a /\ (on /\ Head(q).mine = "no" => Head(q).n < a)
           /\ \A i \in 1..Len(Tail(q)) :
                 /\ \E j \in 1..Len(q) : q[j] = Tail(q)[i]
                 /\ Tail(q)[i].n \in Nat /\ Head(q).n <= Tail(q)[i].n
                 /\ Head(q).mine = "no" /\ Tail(q)[i].mine = "yes" => Head(q).n < Tail(q)[i].n
<1> DEFINE r == Tail(q)
<1>1. /\ Len(q) \in Nat /\ Len(q) > 0 /\ r \in Seq(Sent) /\ Len(r) = Len(q) - 1
      /\ \A i \in 1..Len(r) : r[i] = q[i + 1] /\ i + 1 \in 1..Len(q) /\ 1 < i + 1
      /\ Head(q) = q[1] /\ 1 \in 1..Len(q)
      /\ \A i \in 1..Len(q) : q[i] \in Sent
  OBVIOUS
<1> DEFINE u == Head(q)
<1> HIDE DEF r, u
<1>2. u = q[1]
  BY <1>1 DEF u
<1>3. \A i \in 1..Len(q) : q[i].n \in Nat
  BY <1>1 DEF Sent
<1>4. Told(r, on, a)
  <2>1. \A i \in 1..Len(r) : r[i].n <= a /\ (on /\ r[i].mine = "no" => r[i].n < a)
    BY <1>1 DEF Told
  <2>2. ASSUME NEW i \in 1..Len(r), NEW j \in 1..Len(r), i < j
        PROVE  r[i].n <= r[j].n /\ (r[i].mine = "no" /\ r[j].mine = "yes" => r[i].n < r[j].n)
    <3>1. i + 1 \in 1..Len(q) /\ j + 1 \in 1..Len(q) /\ i + 1 < j + 1 /\ r[i] = q[i + 1] /\ r[j] = q[j + 1]
      BY <1>1, <2>2
    <3> QED
      BY <3>1 DEF Told
  <2> QED
    BY <2>1, <2>2 DEF Told
<1>5. ASSUME NEW i \in 1..Len(r)
      PROVE  /\ \E j \in 1..Len(q) : q[j] = r[i]
             /\ r[i].n \in Nat /\ u.n <= r[i].n
             /\ u.mine = "no" /\ r[i].mine = "yes" => u.n < r[i].n
  <2>1. i + 1 \in 1..Len(q) /\ 1 \in 1..Len(q) /\ 1 < i + 1 /\ r[i] = q[i + 1]
    BY <1>1
  <2> QED
    BY <2>1, <1>2, <1>3 DEF Told
<1>6. u \in Sent /\ u.n \in Nat /\ u.n <= a /\ (on /\ u.mine = "no" => u.n < a)
  BY <1>1, <1>2, <1>3 DEF Told
<1> QED
  BY <1>1, <1>4, <1>5, <1>6 DEF r, u

(* An update that changes no claim is taken.                               *)
LEMMA TakenPlain ==
    ASSUME NEW m, NEW q \in Seq(Sent), q # <<>>, NEW h, h # "publish", NEW g \in Counts, NEW on \in BOOLEAN, NEW a \in Nat,
           NEW t, NEW C, MsgSound(m, q, h, g, on, a, t, C), NEW h2, h2 # "publish"
    PROVE  MsgSound(m, Tail(q), h2, g, on, a, t, C)
<1>1. Told(q, on, a)
  BY DEF MsgSound
<1>2. /\ Told(Tail(q), on, a)
      /\ \A i \in 1..Len(Tail(q)) : \E j \in 1..Len(q) : q[j] = Tail(q)[i]
  BY <1>1, Rest
<1>3. ASSUME Owed(q, on, a, g.total) PROVE Owed(Tail(q), on, a, g.total)
  BY <1>3, <1>2 DEF Owed
<1>4. ASSUME Served(q, g.total) PROVE Served(Tail(q), g.total)
  BY <1>4, <1>2 DEF Served
<1> QED
  BY <1>2, <1>3, <1>4 DEF MsgSound

(* An update with the reaction claims its message.                         *)
LEMMA TakenClaim ==
    ASSUME NEW m, NEW q \in Seq(Sent), q # <<>>, NEW h, NEW g \in Counts, NEW on \in BOOLEAN, NEW a \in Nat,
           NEW C, MsgSound(m, q, h, g, on, a, "up", C), m \notin C, Head(q).mine = "yes"
    PROVE  MsgSound(m, Tail(q), "publish", g, on, a, "up", C \cup {m})
<1>1. Told(q, on, a) /\ g.window = 0 /\ Owed(q, on, a, g.total) /\ g.total \in Nat /\ g.total <= a
  BY DEF MsgSound, Counts
<1>2. /\ Told(Tail(q), on, a) /\ Head(q).n \in Nat /\ Head(q).n <= a
      /\ \A i \in 1..Len(Tail(q)) : Tail(q)[i].n \in Nat /\ Head(q).n <= Tail(q)[i].n
  BY <1>1, Rest
<1>3. g.total < Head(q).n
  <2>1. 1 \in 1..Len(q) /\ Head(q) = q[1]
    OBVIOUS
  <2> QED
    BY <2>1, <1>1 DEF Owed
<1>4. Claiming(Tail(q), a, g.total)
  BY <1>1, <1>2, <1>3 DEF Claiming
<1> QED
  BY <1>1, <1>2, <1>4 DEF MsgSound, Claiming

(* An update without it gives the claim back.                              *)
LEMMA TakenForget ==
    ASSUME NEW m, NEW q \in Seq(Sent), q # <<>>, NEW h, h # "publish", NEW g \in Counts, NEW on \in BOOLEAN, NEW a \in Nat,
           NEW t, NEW C, MsgSound(m, q, h, g, on, a, t, C), t = "up" => Head(q).mine = "no",
           NEW h2, h2 # "publish", NEW g2 \in Counts, g2.total = g.total, g2.window = 0
    PROVE  MsgSound(m, Tail(q), h2, g2, on, a, t, C \ {m})
<1>1. Told(q, on, a) /\ g.total \in Nat /\ g.total <= a
  BY DEF MsgSound, Counts
<1>2. /\ Told(Tail(q), on, a) /\ Head(q).n \in Nat /\ (on /\ Head(q).mine = "no" => Head(q).n < a)
      /\ \A i \in 1..Len(Tail(q)) :
            /\ \E j \in 1..Len(q) : q[j] = Tail(q)[i]
            /\ Tail(q)[i].n \in Nat
            /\ Head(q).mine = "no" /\ Tail(q)[i].mine = "yes" => Head(q).n < Tail(q)[i].n
  BY <1>1, Rest
<1>3. ASSUME t = "up" PROVE Owed(Tail(q), on, a, g.total)
  <2>1. CASE m \in C
    <3>1. Served(q, g.total) /\ 1 \in 1..Len(q) /\ Head(q) = q[1] /\ Head(q).mine = "no"
      BY <2>1, <1>3 DEF MsgSound
    <3>2. g.total <= Head(q).n
      BY <3>1 DEF Served
    <3> QED
      BY <3>1, <3>2, <1>1, <1>2 DEF Owed
  <2>2. CASE m \notin C
    <3>1. Owed(q, on, a, g.total)
      BY <2>2, <1>3 DEF MsgSound
    <3> QED
      BY <3>1, <1>2 DEF Owed
  <2> QED
    BY <2>1, <2>2
<1> QED
  BY <1>1, <1>2, <1>3 DEF MsgSound

(* The intent of a claim is published.                                     *)
LEMMA ClaimPublished ==
    ASSUME NEW m, NEW q \in Seq(Sent), NEW g \in Counts, NEW on \in BOOLEAN, NEW a \in Nat,
           NEW t, NEW C, MsgSound(m, q, "publish", g, on, a, t, C),
           NEW h2, h2 # "publish", NEW g2 \in Counts, g2.total = g.total + 1, g2.window = g.window + 1
    PROVE  MsgSound(m, q, h2, g2, on, a, t, C)
<1>1. Told(q, on, a) /\ g.total \in Nat /\ g.total < a /\ g2.total <= a /\ ~(t = "up" /\ m \notin C)
  BY DEF MsgSound, Counts
<1>2. \A i \in 1..Len(q) : q[i].n \in Nat
  <2>1. \A i \in 1..Len(q) : q[i] \in Sent
    OBVIOUS
  <2> QED
    BY <2>1 DEF Sent
<1>3. ASSUME m \in C PROVE g2.window = 1 /\ Served(q, g2.total)
  <2>1. Claiming(q, a, g.total) /\ g.window = 0
    BY <1>3 DEF MsgSound
  <2> QED
    BY <2>1, <1>1, <1>2 DEF Claiming, Served
<1> QED
  BY <1>1, <1>3 DEF MsgSound

(* The intent of a claim was not taken: the claim is given back.           *)
LEMMA ClaimReturned ==
    ASSUME NEW m, NEW q \in Seq(Sent), NEW g \in Counts, NEW on \in BOOLEAN, NEW a \in Nat,
           NEW t, NEW C, MsgSound(m, q, "publish", g, on, a, t, C),
           NEW h2, h2 # "publish", NEW g2 \in Counts, g2.total = g.total, g2.window = 0
    PROVE  MsgSound(m, q, h2, g2, on, a, t, C \ {m})
<1>1. Told(q, on, a) /\ g.total \in Nat /\ g.total < a /\ ~(t = "up" /\ m \notin C) /\ g.total <= a
  BY DEF MsgSound, Counts
<1>2. ASSUME m \in C PROVE Owed(q, on, a, g.total)
  BY <1>2 DEF MsgSound, Claiming, Owed
<1> QED
  BY <1>1, <1>2 DEF MsgSound

(* The handler does something else, or the trigger stops.                  *)
LEMMA HandlerMoves ==
    ASSUME NEW m, NEW q, NEW h, NEW g, NEW on, NEW a, NEW t, NEW C, MsgSound(m, q, h, g, on, a, t, C),
           NEW h2, h # "publish", h2 # "publish"
    PROVE  MsgSound(m, q, h2, g, on, a, t, C)
BY DEF MsgSound

(* A stopped trigger holds no claim, and nothing more is asked of it.      *)
LEMMA TriggerStops ==
    ASSUME NEW m, NEW q, NEW h, NEW g, NEW on, NEW a, NEW t, NEW C, MsgSound(m, q, h, g, on, a, t, C),
           NEW g2, g2.total = g.total
    PROVE  MsgSound(m, q, h, g2, on, a, "stopped", {})
BY DEF MsgSound

(* A message is not concerned by the claims of the others.                 *)
LEMMA OtherClaims ==
    ASSUME NEW m, NEW q, NEW h, NEW g, NEW on, NEW a, NEW t, NEW C, NEW D, m \in C <=> m \in D,
           MsgSound(m, q, h, g, on, a, t, C)
    PROVE  MsgSound(m, q, h, g, on, a, t, D)
BY DEF MsgSound

(* A step that concerns one message.                                       *)
LEMMA OneMessage ==
    ASSUME ReactInv, NEW m \in Messages, ReactTypes', trigger' = trigger,
           \A k \in Messages \ {m} : /\ inbox'[k] = inbox[k] /\ handler'[k] = handler[k] /\ got'[k] = got[k]
                                     /\ react'[k] = react[k] /\ added'[k] = added[k] /\ (k \in claims' <=> k \in claims),
           MsgSound(m, inbox'[m], handler'[m], got'[m], react'[m], added'[m], trigger', claims')
    PROVE  ReactInv'
<1>1. ASSUME NEW k \in Messages
      PROVE  MsgSound(k, inbox'[k], handler'[k], got'[k], react'[k], added'[k], trigger', claims')
  <2>1. CASE k = m
    BY <2>1
  <2>2. CASE k # m
    <3>1. MsgSound(k, inbox[k], handler[k], got[k], react[k], added[k], trigger, claims)
      BY DEF ReactInv
    <3>2. MsgSound(k, inbox[k], handler[k], got[k], react[k], added[k], trigger, claims')
      BY <3>1, <2>2, OtherClaims
    <3> QED
      BY <3>2, <2>2
  <2> QED
    BY <2>1, <2>2
<1> QED
  BY <1>1 DEF ReactInv

ReactionState == <<react, inbox, handler, trigger, claims, added, got>>
(* A step that leaves the reactions alone.                                 *)
LEMMA ReactFrame == ReactInv /\ UNCHANGED ReactionState => ReactInv'
<1> SUFFICES ASSUME ReactInv, UNCHANGED ReactionState PROVE ReactInv'
  OBVIOUS
<1>1. /\ react' = react /\ inbox' = inbox /\ handler' = handler /\ trigger' = trigger /\ claims' = claims
      /\ added' = added /\ got' = got
  BY DEF ReactionState
<1>2. ReactTypes'
  BY <1>1 DEF ReactInv, ReactTypes
<1> QED
  BY <1>1, <1>2 DEF ReactInv

(* A reaction that is added counts as one more before it is told.          *)
LEMMA ReactReact == ASSUME ReactInv, NEW m \in Messages, React(m) PROVE ReactInv'
<1> DEFINE a2 == IF react[m] THEN added[m] ELSE added[m] + 1
           u == [mine |-> IF react[m] THEN "no" ELSE "yes", kind |-> "reaction", n |-> a2]
<1>1. ReactTypes /\ MsgSound(m, inbox[m], handler[m], got[m], react[m], added[m], trigger, claims)
  BY DEF ReactInv
<1>2. react[m] \in BOOLEAN /\ inbox[m] \in Seq(Sent) /\ got[m] \in Counts /\ added[m] \in Nat
  BY <1>1 DEF ReactTypes
<1>3. a2 \in Nat /\ added[m] <= a2 /\ (~react[m] => added[m] < a2)
  BY <1>2
<1>4. PICK on \in BOOLEAN : on = ~react[m]
  BY Zenon
<1>5. added' = [added EXCEPT ![m] = a2] /\ added'[m] = a2 /\ react' = [react EXCEPT ![m] = ~react[m]]
  BY <1>1 DEF React, ReactTypes
<1>6. inbox' = [inbox EXCEPT ![m] = Append(inbox[m], u)]
  BY <1>1, <1>5 DEF React, ReactTypes
<1> HIDE DEF a2
<1>7. u \in Sent /\ u.n = a2
  BY <1>3 DEF Sent
<1>8. (u.mine = "yes" => ~react[m]) /\ (u.mine = "no" => react[m])
  OBVIOUS
<1> HIDE DEF u
<1>9. react' = [react EXCEPT ![m] = on]
  BY <1>4, <1>5
<1>10. MsgSound(m, Append(inbox[m], u), handler[m], got[m], on, a2, trigger, claims)
  BY <1>1, <1>2, <1>3, <1>4, <1>7, <1>8, Appended
<1>11. handler' = handler /\ trigger' = trigger /\ claims' = claims /\ got' = got
  BY DEF React
<1>12. Append(inbox[m], u) \in Seq(Sent)
  BY <1>2, <1>7
<1>13. ReactTypes'
  BY <1>1, <1>3, <1>5, <1>6, <1>9, <1>11, <1>12 DEF ReactTypes
<1>14. inbox'[m] = Append(inbox[m], u) /\ react'[m] = on
  BY <1>1, <1>6, <1>9 DEF ReactTypes
<1>15. \A k \in Messages \ {m} : inbox'[k] = inbox[k] /\ added'[k] = added[k] /\ react'[k] = react[k]
  BY <1>1, <1>5, <1>6, <1>9 DEF ReactTypes
<1> QED
  BY <1>5, <1>10, <1>11, <1>13, <1>14, <1>15, OneMessage

(* What is told once more is what the message has, so the order holds.     *)
LEMMA ReactTellAgain == ASSUME ReactInv, NEW m \in Messages, TellAgain(m) PROVE ReactInv'
<1>1. ReactTypes /\ MsgSound(m, inbox[m], handler[m], got[m], react[m], added[m], trigger, claims)
  BY DEF ReactInv
<1>2. react[m] \in BOOLEAN /\ inbox[m] \in Seq(Sent) /\ got[m] \in Counts /\ added[m] \in Nat
  BY <1>1 DEF ReactTypes
<1>3. PICK part \in BOOLEAN : inbox' = [inbox EXCEPT ![m] =
                          Append(@, [mine |-> IF part THEN "part" ELSE IF react[m] THEN "yes" ELSE "no",
                                     kind |-> "edit", n |-> added[m]])]
  BY DEF TellAgain
<1> DEFINE u == [mine |-> IF part THEN "part" ELSE IF react[m] THEN "yes" ELSE "no", kind |-> "edit", n |-> added[m]]
<1>4. inbox' = [inbox EXCEPT ![m] = Append(inbox[m], u)]
  BY <1>1, <1>3 DEF ReactTypes
<1>5. u \in Sent /\ u.n = added[m] /\ (u.mine = "yes" => react[m]) /\ (u.mine = "no" => ~react[m])
  BY <1>2 DEF Sent
<1> HIDE DEF u
<1>6. added[m] <= added[m] /\ (react[m] /\ ~react[m] => added[m] < added[m])
  BY <1>2
<1>7. MsgSound(m, Append(inbox[m], u), handler[m], got[m], react[m], added[m], trigger, claims)
  BY <1>1, <1>2, <1>5, <1>6, Appended
<1>8. /\ react' = react /\ added' = added /\ handler' = handler /\ trigger' = trigger /\ claims' = claims /\ got' = got
  BY DEF TellAgain
<1>9. Append(inbox[m], u) \in Seq(Sent)
  BY <1>2, <1>5
<1>10. ReactTypes'
  BY <1>1, <1>4, <1>8, <1>9 DEF ReactTypes
<1>11. inbox'[m] = Append(inbox[m], u) /\ \A k \in Messages \ {m} : inbox'[k] = inbox[k]
  BY <1>1, <1>4 DEF ReactTypes
<1> QED
  BY <1>7, <1>8, <1>10, <1>11, OneMessage

(* Forget changes the window of one message only.                          *)
LEMMA Forgotten ==
    ASSUME got \in [Messages -> Counts], NEW m \in Messages, Forget(m)
    PROVE  /\ claims' = claims \ {m} /\ got' \in [Messages -> Counts]
           /\ got'[m] \in Counts /\ got'[m].total = got[m].total /\ got'[m].window = 0
           /\ \A k \in Messages \ {m} : got'[k] = got[k]
<1> DEFINE y == [got[m] EXCEPT !.window = 0]
<1>1. got[m] \in Counts
  OBVIOUS
<1>2. y \in Counts /\ y.total = got[m].total /\ y.window = 0
  BY <1>1 DEF Counts
<1> HIDE DEF y
<1>3. got' = [got EXCEPT ![m] = y]
  BY DEF Forget, y
<1> QED
  BY <1>2, <1>3 DEF Forget

(* The three outcomes of an update: a claim, a claim given back, neither.  *)
LEMMA ReactOnUpdate == ASSUME ReactInv, NEW m \in Messages, OnUpdate(m) PROVE ReactInv'
<1> DEFINE q == inbox[m]
           u == Head(q)
           unset == u.kind = "edit" /\ u.mine = "no"
           mine == Enabled("download") /\ Matches(u)
           claim == mine /\ Claimable(m)
           h2 == IF unset THEN "idle" ELSE IF claim THEN "publish"
                 ELSE IF Enabled("forward") /\ Matches(u) THEN "forward" ELSE "idle"
<1>1. ReactTypes /\ MsgSound(m, q, handler[m], got[m], react[m], added[m], trigger, claims)
  BY DEF ReactInv
<1>2. /\ react[m] \in BOOLEAN /\ q \in Seq(Sent) /\ got[m] \in Counts /\ added[m] \in Nat /\ q # <<>> /\ handler[m] = "idle"
      /\ got \in [Messages -> Counts] /\ handler[m] # "publish"
  BY <1>1 DEF ReactTypes, OnUpdate
<1>3. /\ inbox' = [inbox EXCEPT ![m] = Tail(q)] /\ handler' = [handler EXCEPT ![m] = h2]
      /\ react' = react /\ trigger' = trigger /\ added' = added
  BY <1>1 DEF OnUpdate, ReactTypes
<1>4. \/ claim /\ claims' = claims \cup {m} /\ got' = got
      \/ ~claim /\ (unset \/ (Enabled("download") /\ ~mine /\ u.mine # "part")) /\ Forget(m)
      \/ ~claim /\ claims' = claims /\ got' = got
  BY DEF OnUpdate
<1>5. /\ inbox'[m] = Tail(q) /\ handler'[m] = h2
      /\ \A k \in Messages \ {m} : inbox'[k] = inbox[k] /\ handler'[k] = handler[k]
  BY <1>1, <1>3 DEF ReactTypes
<1>6. Tail(q) \in Seq(Sent) /\ u \in Sent
  BY <1>2
<1>7. h2 \in {"idle", "publish", "forward"} /\ (~claim => h2 # "publish")
  OBVIOUS
<1>8. inbox' \in [Messages -> Seq(Sent)] /\ handler' \in [Messages -> {"idle", "publish", "forward"}]
  BY <1>1, <1>3, <1>6, <1>7 DEF ReactTypes
<1>9. CASE claim /\ claims' = claims \cup {m} /\ got' = got
  <2>1. trigger = "up" /\ m \notin claims /\ u.mine = "yes"
    BY <1>9 DEF Matches, Claimable
  <2>2. h2 = "publish"
    BY <1>9, <2>1
  <2>3. MsgSound(m, Tail(q), "publish", got[m], react[m], added[m], "up", claims \cup {m})
    BY <1>1, <1>2, <2>1, TakenClaim
  <2>4. ReactTypes'
    BY <1>1, <1>3, <1>8, <1>9, <2>1 DEF ReactTypes
  <2> QED
    BY <2>1, <2>2, <2>3, <2>4, <1>3, <1>5, <1>9, OneMessage
<1>10. CASE ~claim /\ (unset \/ (Enabled("download") /\ ~mine /\ u.mine # "part")) /\ Forget(m)
  <2>1. trigger = "up" => u.mine = "no"
    BY <1>6, <1>10 DEF Matches, Sent
  <2>2. /\ claims' = claims \ {m} /\ got' \in [Messages -> Counts]
        /\ got'[m] \in Counts /\ got'[m].total = got[m].total /\ got'[m].window = 0
        /\ \A k \in Messages \ {m} : got'[k] = got[k]
    BY <1>2, <1>10, Forgotten
  <2>3. PICK g2 \in Counts : g2 = got'[m]
    BY <2>2
  <2>4. h2 # "publish"
    BY <1>7, <1>10
  <2> HIDE DEF h2
  <2>5. MsgSound(m, Tail(q), h2, g2, react[m], added[m], trigger, claims \ {m})
    BY <1>1, <1>2, <2>1, <2>2, <2>3, <2>4, TakenForget
  <2>6. ReactTypes'
    BY <1>1, <1>3, <1>8, <2>2 DEF ReactTypes
  <2> QED
    BY <2>2, <2>3, <2>5, <2>6, <1>3, <1>5, OneMessage
<1>11. CASE ~claim /\ claims' = claims /\ got' = got
  <2>1. h2 # "publish"
    BY <1>7, <1>11
  <2> HIDE DEF h2
  <2>2. MsgSound(m, Tail(q), h2, got[m], react[m], added[m], trigger, claims)
    BY <1>1, <1>2, <2>1, TakenPlain
  <2>3. ReactTypes'
    BY <1>1, <1>3, <1>8, <1>11 DEF ReactTypes
  <2> QED
    BY <2>2, <2>3, <1>3, <1>5, <1>11, OneMessage
<1> QED
  BY <1>4, <1>9, <1>10, <1>11

(* The claim gets its intent, or is given back with a full or closed bus.  *)
LEMMA ReactEnqueueDownload == ASSUME ReactInv, NEW m \in Messages, EnqueueDownload(m) PROVE ReactInv'
<1> DEFINE q == inbox[m]
           h2 == IF Enabled("forward") THEN "forward" ELSE "idle"
<1>1. ReactTypes /\ MsgSound(m, q, handler[m], got[m], react[m], added[m], trigger, claims)
  BY DEF ReactInv
<1>2. /\ react[m] \in BOOLEAN /\ q \in Seq(Sent) /\ got[m] \in Counts /\ added[m] \in Nat /\ handler[m] = "publish"
      /\ got \in [Messages -> Counts]
  BY <1>1 DEF ReactTypes, EnqueueDownload
<1>3. /\ inbox' = inbox /\ handler' = [handler EXCEPT ![m] = h2] /\ react' = react /\ trigger' = trigger /\ added' = added
  BY DEF EnqueueDownload
<1>4. h2 \in {"idle", "forward"} /\ h2 # "publish"
  OBVIOUS
<1> HIDE DEF h2
<1>5. handler'[m] = h2 /\ handler' \in [Messages -> {"idle", "publish", "forward"}]
      /\ \A k \in Messages \ {m} : handler'[k] = handler[k]
  BY <1>1, <1>3, <1>4 DEF ReactTypes
<1>6. CASE Published(m) /\ UNCHANGED claims
  <2> DEFINE g2 == [total |-> got[m].total + 1, window |-> got[m].window + 1]
  <2>1. got' = [got EXCEPT ![m] = g2]
    BY <1>2, <1>6 DEF Published
  <2>2. g2 \in Counts /\ g2.total = got[m].total + 1 /\ g2.window = got[m].window + 1
    BY <1>2 DEF Counts
  <2> HIDE DEF g2
  <2>3. got'[m] = g2 /\ got' \in [Messages -> Counts] /\ \A k \in Messages \ {m} : got'[k] = got[k]
    BY <1>2, <2>1, <2>2
  <2>4. MsgSound(m, q, h2, g2, react[m], added[m], trigger, claims)
    BY <1>1, <1>2, <1>4, <2>2, ClaimPublished
  <2>5. ReactTypes'
    BY <1>1, <1>3, <1>5, <1>6, <2>3 DEF ReactTypes
  <2> QED
    BY <2>3, <2>4, <2>5, <1>3, <1>5, <1>6, OneMessage
<1>7. CASE Forget(m)
  <2>1. /\ claims' = claims \ {m} /\ got' \in [Messages -> Counts]
        /\ got'[m] \in Counts /\ got'[m].total = got[m].total /\ got'[m].window = 0
        /\ \A k \in Messages \ {m} : got'[k] = got[k]
    BY <1>2, <1>7, Forgotten
  <2>2. PICK g2 \in Counts : g2 = got'[m]
    BY <2>1
  <2>3. MsgSound(m, q, h2, g2, react[m], added[m], trigger, claims \ {m})
    BY <1>1, <1>2, <1>4, <2>1, <2>2, ClaimReturned
  <2>4. ReactTypes'
    BY <1>1, <1>3, <1>5, <2>1 DEF ReactTypes
  <2> QED
    BY <2>1, <2>2, <2>3, <2>4, <1>3, <1>5, OneMessage
<1> QED
  BY <1>6, <1>7 DEF EnqueueDownload

(* The forward intent concerns no claim.                                   *)
LEMMA ReactPublishForward == ASSUME ReactInv, NEW m \in Messages, PublishForward(m) PROVE ReactInv'
<1>1. ReactTypes /\ MsgSound(m, inbox[m], handler[m], got[m], react[m], added[m], trigger, claims) /\ handler[m] = "forward"
  BY DEF ReactInv, PublishForward
<1>2. /\ inbox' = inbox /\ handler' = [handler EXCEPT ![m] = "idle"] /\ react' = react /\ trigger' = trigger
      /\ added' = added /\ claims' = claims /\ got' = got
  BY DEF PublishForward
<1>3. MsgSound(m, inbox[m], "idle", got[m], react[m], added[m], trigger, claims)
  BY <1>1, HandlerMoves
<1>4. ReactTypes' /\ handler'[m] = "idle" /\ \A k \in Messages \ {m} : handler'[k] = handler[k]
  BY <1>1, <1>2 DEF ReactTypes
<1> QED
  BY <1>2, <1>3, <1>4, OneMessage

(* All claims end with the trigger.                                        *)
LEMMA ReactStopTrigger == ASSUME ReactInv, StopTrigger PROVE ReactInv'
<1>1. ReactTypes /\ \A m \in Messages : MsgSound(m, inbox[m], handler[m], got[m], react[m], added[m], trigger, claims)
  BY DEF ReactInv
<1>2. /\ inbox' = inbox /\ handler' = handler /\ react' = react /\ trigger' = "stopped" /\ claims' = {} /\ added' = added
      /\ got' = [m \in Messages |-> [got[m] EXCEPT !.window = 0]]
  BY DEF StopTrigger
<1>3. ASSUME NEW m \in Messages PROVE got'[m] \in Counts /\ got'[m].total = got[m].total
  <2>1. got[m] \in Counts /\ got'[m] = [got[m] EXCEPT !.window = 0]
    BY <1>1, <1>2 DEF ReactTypes
  <2> QED
    BY <2>1 DEF Counts
<1>4. ReactTypes'
  BY <1>1, <1>2, <1>3 DEF ReactTypes
<1>5. ASSUME NEW m \in Messages
      PROVE  MsgSound(m, inbox'[m], handler'[m], got'[m], react'[m], added'[m], trigger', claims')
  <2>1. PICK g2 : g2 = got'[m]
    OBVIOUS
  <2>2. MsgSound(m, inbox[m], handler[m], g2, react[m], added[m], "stopped", {})
    BY <1>1, <1>3, <2>1, TriggerStops
  <2> QED
    BY <2>1, <2>2, <1>2
<1> QED
  BY <1>4, <1>5 DEF ReactInv

-----------------------------------------------------------------------------
(* The batch *)

(* An item no executor was asked for.                                      *)
LEMMA FreshSound ==
    ASSUME NEW it, NEW r, DOMAIN it = ItemFields, it.at \in Fresh, it.took = {}
    PROVE  ItemSound(it, r)
BY DEF ItemSound, Fresh, Open

(* The batch goes on: it is of the same message and the same caller.       *)
Onward == batch.at # "idle" /\ batch'.msg = batch.msg /\ batch'.call = batch.call

(* A step of one item.                                                     *)
LEMMA ItemStep ==
    ASSUME BatchInv, NEW i \in Items, NEW y, batch' = [batch EXCEPT !.item[i] = y],
           ItemSound(y, batch.route), batch.at = "prepare" => y.at \in Fresh
    PROVE  BatchInv' /\ Onward
<1>1. /\ DOMAIN batch' = BatchFields /\ batch'.at = batch.at /\ batch'.route = batch.route
      /\ batch'.msg = batch.msg /\ batch'.call = batch.call
      /\ batch'.item = [batch.item EXCEPT ![i] = y]
  BY DEF BatchInv, BatchFields
<1>2. /\ DOMAIN batch'.item = DOMAIN batch.item /\ batch'.item[i] = y
      /\ \A j \in DOMAIN batch.item : j # i => batch'.item[j] = batch.item[j]
  BY <1>1 DEF Items
<1>3. batch.at \in {"prepare", "submit"}
  <2>1. DOMAIN batch.item # DOMAIN <<>>
    BY DEF Items
  <2> QED
    BY <2>1 DEF BatchInv
<1>4. BatchInv'
  BY <1>1, <1>2, <1>3 DEF BatchInv, Items
<1> QED
  BY <1>1, <1>3, <1>4 DEF Onward

(* The batch is left alone.                                                *)
LEMMA BatchFrame == BatchInv /\ batch' = batch => BatchInv'
BY DEF BatchInv, Items

(* A batch begins without items.                                           *)
LEMMA BatchTakeIntent == ASSUME BatchInv, TakeIntent PROVE BatchInv'
<1>1. CASE batch' = batch
  BY <1>1, BatchFrame
<1>2. CASE batch' = [NoBatch EXCEPT !.at = "taken", !.msg = Head(bus).msg, !.call = Head(bus).call]
  <2>1. DOMAIN batch' = BatchFields /\ batch'.at = "taken" /\ batch'.item = <<>>
    BY <1>2 DEF NoBatch, BatchFields
  <2>2. DOMAIN batch'.item = {}
    BY <2>1
  <2> QED
    BY <2>1, <2>2 DEF BatchInv, Items
<1> QED
  BY <1>1, <1>2 DEF TakeIntent

(* The route is read while there are no items.                             *)
LEMMA BatchBeginBatch == ASSUME BatchInv, BeginBatch PROVE BatchInv' /\ Onward
<1>1. /\ DOMAIN batch' = BatchFields /\ batch'.at \in {"begun", "failed"} /\ batch'.item = <<>>
      /\ batch.at = "taken" /\ batch'.msg = batch.msg /\ batch'.call = batch.call
  BY DEF BatchInv, BeginBatch, BatchFields
<1>2. DOMAIN batch'.item = {}
  BY <1>1
<1> QED
  BY <1>1, <1>2 DEF BatchInv, Items, Onward

(* The items of an album are all new.                                      *)
LEMMA BatchCollect == ASSUME BatchInv, Collect PROVE BatchInv' /\ Onward
<1>0. batch.at = "begun"
  BY DEF Collect
<1>1. CASE batch' = [batch EXCEPT !.at = "failed"]
  <2>1. /\ DOMAIN batch' = BatchFields /\ batch'.at = "failed" /\ batch'.item = <<>>
        /\ batch'.msg = batch.msg /\ batch'.call = batch.call
    BY <1>1 DEF BatchInv, Collect, BatchFields
  <2>2. DOMAIN batch'.item = {}
    BY <2>1
  <2> QED
    BY <2>1, <2>2, <1>0 DEF BatchInv, Items, Onward
<1>2. ASSUME NEW album,
             batch' = [batch EXCEPT !.at = "prepare", !.item = [i \in DOMAIN album |-> NewItem(album[i])]]
      PROVE  BatchInv' /\ Onward
  <2>1. /\ DOMAIN batch' = BatchFields /\ batch'.at = "prepare"
        /\ batch'.item = [i \in DOMAIN album |-> NewItem(album[i])]
        /\ batch'.msg = batch.msg /\ batch'.call = batch.call
    BY <1>2 DEF BatchInv, BatchFields
  <2>2. ASSUME NEW i \in DOMAIN album
        PROVE  ItemSound(batch'.item[i], batch'.route) /\ batch'.item[i].at \in Fresh
    <3>1. PICK it : it = batch'.item[i]
      OBVIOUS
    <3>2. it = NewItem(album[i])
      BY <2>1, <3>1
    <3>3. DOMAIN it = ItemFields /\ it.at = "new" /\ it.took = {}
      BY <3>2 DEF NewItem, ItemFields
    <3>4. it.at \in Fresh
      BY <3>3 DEF Fresh
    <3>5. PICK r : r = batch'.route
      OBVIOUS
    <3> QED
      BY <3>1, <3>3, <3>4, <3>5, FreshSound
  <2> QED
    BY <2>1, <2>2, <1>0 DEF BatchInv, Items, Onward
<1> QED
  BY <1>1, <1>2 DEF Collect

(* Preparing asks no executor.                                             *)
LEMMA BatchPrepare == ASSUME BatchInv, NEW i \in Items, Prepare(i) PROVE BatchInv' /\ Onward
<1> DEFINE it == batch.item[i]
<1>1. /\ batch.at = "prepare" /\ it.at = "new" /\ DOMAIN it = ItemFields /\ it.took = {}
      /\ DOMAIN batch = BatchFields
  BY DEF BatchInv, Prepare, ItemSound, Open, Fresh
<1>2. ASSUME NEW y, batch' = [batch EXCEPT !.item[i] = y], DOMAIN y = ItemFields, y.at \in Fresh, y.took = {}
      PROVE  BatchInv' /\ Onward
  BY <1>2, FreshSound, ItemStep
<1>3. ASSUME NEW x \in Fresh, batch' = [batch EXCEPT !.item[i].at = x]
      PROVE  BatchInv' /\ Onward
  <2> DEFINE y == [it EXCEPT !.at = x]
  <2>1. DOMAIN y = ItemFields /\ y.at \in Fresh /\ y.took = {}
    BY <1>1, <1>3 DEF ItemFields
  <2>2. batch' = [batch EXCEPT !.item[i] = y]
    BY <1>1, <1>3
  <2> QED
    BY <1>2, <2>1, <2>2
<1>4. CASE batch' = Plan(i)
  <2>1. PICK x : x = IF Uses("local") THEN TargetOf(batch.item[i].data) ELSE NoTarget
    OBVIOUS
  <2> DEFINE y == [it EXCEPT !.at = "plan", !.target = x]
  <2>2. DOMAIN y = ItemFields /\ y.at \in Fresh /\ y.took = {}
    BY <1>1 DEF ItemFields, Fresh
  <2>3. batch' = [batch EXCEPT !.item[i].at = "plan", !.item[i].target = x]
    BY <1>4, <2>1 DEF Plan
  <2>4. batch' = [batch EXCEPT !.item[i] = y]
    BY <1>1, <2>3 DEF ItemFields
  <2> QED
    BY <1>2, <2>2, <2>4
<1>5. CASE batch' = [batch EXCEPT !.item[i].at = "plan", !.item[i].bad = {"local"}]
  <2> DEFINE y == [it EXCEPT !.at = "plan", !.bad = {"local"}]
  <2>2. DOMAIN y = ItemFields /\ y.at \in Fresh /\ y.took = {}
    BY <1>1 DEF ItemFields, Fresh
  <2>3. batch' = [batch EXCEPT !.item[i] = y]
    BY <1>1, <1>5 DEF ItemFields, BatchFields
  <2> QED
    BY <1>2, <2>2, <2>3
<1>6. {"failed", "skipped"} \subseteq Fresh
  BY DEF Fresh
<1> QED
  BY <1>3, <1>4, <1>5, <1>6 DEF Prepare

(* Making targets unique changes targets only.                             *)
LEMMA BatchMakeUnique == ASSUME BatchInv, MakeUnique PROVE BatchInv' /\ Onward
<1>1. batch.at = "prepare" /\ DOMAIN batch = BatchFields
  BY DEF BatchInv, MakeUnique
<1> DEFINE named == Ascending({i \in At({"plan"}) : Uses("local") /\ "local" \notin batch.item[i].bad})
           place(i) == CHOOSE k \in DOMAIN named : named[k] = i
<1>2. PICK ok \in BOOLEAN, unique \in {UniqueOf([k \in DOMAIN named |-> batch.item[named[k]].target])} :
        batch' = [batch EXCEPT !.at = "submit", !.item = [i \in Items |->
                IF i \notin Range(named) THEN batch.item[i]
                ELSE IF ok /\ unique # <<>> THEN [batch.item[i] EXCEPT !.target = unique[place(i)]]
                ELSE [batch.item[i] EXCEPT !.bad = {"local"}, !.target = NoTarget]]]
  BY DEF MakeUnique
<1> HIDE DEF named, place
<1>3. /\ DOMAIN batch' = BatchFields /\ batch'.at = "submit" /\ batch'.msg = batch.msg /\ batch'.call = batch.call
      /\ DOMAIN batch'.item = Items
      /\ \A i \in Items : \/ batch'.item[i] = batch.item[i]
                          \/ \E x : batch'.item[i] = [batch.item[i] EXCEPT !.target = x]
                          \/ batch'.item[i] = [batch.item[i] EXCEPT !.bad = {"local"}, !.target = NoTarget]
  BY <1>1, <1>2 DEF BatchFields
<1>4. ASSUME NEW i \in Items PROVE ItemSound(batch'.item[i], batch'.route)
  <2>1. DOMAIN batch.item[i] = ItemFields /\ batch.item[i].at \in Fresh /\ batch.item[i].took = {}
    BY <1>1 DEF BatchInv, ItemSound, Open
  <2>2. PICK it, r : it = batch'.item[i] /\ r = batch'.route
    OBVIOUS
  <2>3. DOMAIN it = ItemFields /\ it.at \in Fresh /\ it.took = {}
    BY <1>3, <2>1, <2>2 DEF ItemFields
  <2> QED
    BY <2>2, <2>3, FreshSound
<1> QED
  BY <1>1, <1>3, <1>4 DEF BatchInv, Items, Onward

(* The source of an item is registered before its first executor.          *)
LEMMA BatchRegister == ASSUME BatchInv, NEW i \in Items, Register(i) PROVE BatchInv' /\ Onward
<1> DEFINE it == batch.item[i]
<1>1. batch.at = "submit" /\ it.at = "plan" /\ ItemSound(it, batch.route)
  BY DEF BatchInv, Register
<1>2. ASSUME NEW x \in {"route", "failed"}, batch' = [batch EXCEPT !.item[i].at = x]
      PROVE  BatchInv' /\ Onward
  <2> DEFINE y == [it EXCEPT !.at = x]
  <2>1. ItemSound(y, batch.route)
    BY <1>1, <1>2 DEF ItemSound, ItemFields, Open, Fresh
  <2>2. batch' = [batch EXCEPT !.item[i] = y]
    BY <1>2
  <2> QED
    BY <1>1, <2>1, <2>2, ItemStep
<1> QED
  BY <1>2 DEF Register

(* The items an executor or the route answers for: nobody took them yet.   *)
LEMMA RejectedStep ==
    ASSUME BatchInv, NEW i \in Items, batch.item[i].at \in {"route", "inside"}, batch' = Rejected(i)
    PROVE  BatchInv' /\ Onward
<1> DEFINE it == batch.item[i]
           y == IF it.k = Len(batch.route) THEN [it EXCEPT !.at = "failed", !.entered = FALSE]
                ELSE [it EXCEPT !.at = "route", !.k = it.k + 1, !.entered = FALSE]
<1>1. ItemSound(it, batch.route) /\ batch.at # "prepare"
  BY DEF BatchInv, Fresh
<1>2. DOMAIN y = ItemFields /\ y.at \in {"failed", "route"} /\ y.took = {}
  BY <1>1 DEF ItemSound, ItemFields, Open
<1>3. batch' = [batch EXCEPT !.item[i] = y]
  BY DEF Rejected
<1> HIDE DEF y
<1>4. ItemSound(y, batch.route)
  BY <1>2 DEF ItemSound, Open, Fresh
<1> QED
  BY <1>1, <1>3, <1>4, ItemStep

(* Giving up does not say that somebody took the item.                     *)
LEMMA StuckStep ==
    ASSUME BatchInv, NEW i \in Items, batch.item[i].at \in {"route", "inside"}, batch' = Stuck(i)
    PROVE  BatchInv' /\ Onward
<1> DEFINE it == batch.item[i]
<1>1. ItemSound(it, batch.route) /\ batch.at # "prepare"
  BY DEF BatchInv, Fresh
<1>2. PICK x \in {"uncertain", "failed"} : x = IF it.entered THEN "uncertain" ELSE "failed"
  OBVIOUS
<1> DEFINE y == [it EXCEPT !.at = x]
<1>3. DOMAIN y = ItemFields /\ y.at = x /\ y.took = {}
  BY <1>1 DEF ItemSound, ItemFields, Open
<1>4. batch' = [batch EXCEPT !.item[i] = y]
  BY <1>2 DEF Stuck
<1> HIDE DEF y
<1>5. ItemSound(y, batch.route)
  BY <1>3 DEF ItemSound, Open, Fresh
<1> QED
  BY <1>1, <1>4, <1>5, ItemStep

(* Three fields of one item, one after the other, are one change of it.    *)
Thrice(B, i, x, t, b) == [B EXCEPT !.item[i].at = x, !.item[i].took = t, !.item[i].bad = b]
Reset(it, x, t, b) == [it EXCEPT !.at = x, !.took = t, !.bad = b]
Put(B, i, y) == [B EXCEPT !.item[i] = y]
LEMMA ItemThrice ==
    ASSUME NEW B, "item" \in DOMAIN B, NEW i \in DOMAIN B.item, NEW x, NEW t, NEW b
    PROVE  Thrice(B, i, x, t, b) = Put(B, i, Reset(B.item[i], x, t, b))
<1> DEFINE C == [B EXCEPT !.item[i].at = x]
           D == [C EXCEPT !.item[i].took = t]
           E == [D EXCEPT !.item[i].bad = b]
           c == [B.item[i] EXCEPT !.at = x]
           d == [c EXCEPT !.took = t]
           e == [d EXCEPT !.bad = b]
<1>1. C = [B EXCEPT !.item[i] = c]
  OBVIOUS
<1>2. C.item[i] = c /\ "item" \in DOMAIN C /\ i \in DOMAIN C.item
  BY <1>1
<1>3. D = [C EXCEPT !.item[i] = d]
  <2> HIDE DEF C, c
  <2> QED
    BY <1>2
<1>4. D.item[i] = d /\ "item" \in DOMAIN D /\ i \in DOMAIN D.item
  <2> HIDE DEF C, c, d
  <2> QED
    BY <1>2, <1>3
<1>5. E = [D EXCEPT !.item[i] = e]
  <2> HIDE DEF D, d
  <2> QED
    BY <1>4
<1>6. D = [B EXCEPT !.item[i] = d]
  <2> HIDE DEF C, D, c, d
  <2> QED
    BY <1>1, <1>3
<1>7. E = [B EXCEPT !.item[i] = e]
  <2> HIDE DEF D, E, d, e
  <2> QED
    BY <1>6, <1>5
<1>8. e = Reset(B.item[i], x, t, b)
  BY Zenon DEF Reset
<1>9. E = Thrice(B, i, x, t, b)
  BY Zenon DEF Thrice
<1> HIDE DEF E, e
<1> QED
  BY <1>7, <1>8, <1>9 DEF Put

(* The same where two of the fields grow, after the first one is set.      *)
Grown(B, i, x, t, b) == [B EXCEPT !.item[i].at = x, !.item[i].took = @ \cup t, !.item[i].bad = @ \cup b]
LEMMA ItemThriceGrown ==
    ASSUME NEW B, "item" \in DOMAIN B, NEW i \in DOMAIN B.item, NEW x, NEW t, NEW b,
           {"at", "took", "bad"} \subseteq DOMAIN B.item[i]
    PROVE  Grown(B, i, x, t, b) = Thrice(B, i, x, B.item[i].took \cup t, B.item[i].bad \cup b)
<1> DEFINE C == [B EXCEPT !.item[i].at = x]
           D == [C EXCEPT !.item[i].took = @ \cup t]
<1>1. C.item[i].took = B.item[i].took /\ C.item[i].bad = B.item[i].bad
  OBVIOUS
<1>2. "item" \in DOMAIN C /\ i \in DOMAIN C.item /\ "bad" \in DOMAIN C.item[i]
  OBVIOUS
<1>3. D.item[i].bad = C.item[i].bad
  <2> HIDE DEF C
  <2> QED
    BY <1>2
<1>4. D = [C EXCEPT !.item[i].took = B.item[i].took \cup t]
  <2> HIDE DEF C
  <2> QED
    BY <1>1
<1>5. [D EXCEPT !.item[i].bad = @ \cup b] = [D EXCEPT !.item[i].bad = B.item[i].bad \cup b]
  <2> HIDE DEF C, D
  <2> QED
    BY <1>1, <1>3
<1>6. Grown(B, i, x, t, b) = [D EXCEPT !.item[i].bad = @ \cup b]
  BY Zenon DEF Grown
<1>7. Thrice(B, i, x, B.item[i].took \cup t, B.item[i].bad \cup b)
      = [[C EXCEPT !.item[i].took = B.item[i].took \cup t] EXCEPT !.item[i].bad = B.item[i].bad \cup b]
  BY Zenon DEF Thrice
<1> HIDE DEF C, D
<1> QED
  BY <1>4, <1>5, <1>6, <1>7, Zenon

(* The item is over, and those who took it are known.                      *)
LEMMA OverStep ==
    ASSUME BatchInv, NEW i \in Items, batch.item[i].at \in {"route", "inside"}, NEW y, DOMAIN y = ItemFields,
           y.k = batch.item[i].k, y.at \in {"queued", "uncertain"}, y.took \subseteq {Executor(i)},
           y.at = "queued" /\ "record" \notin y.bad => y.took = {Executor(i)},
           batch' = [batch EXCEPT !.item[i] = y]
    PROVE  BatchInv' /\ Onward
<1>1. batch.at # "prepare"
  BY DEF BatchInv, Fresh
<1>2. ItemSound(y, batch.route)
  BY DEF ItemSound, Executor, Open, Fresh
<1> QED
  BY <1>1, <1>2, ItemStep

(* An executor that is not entered takes nothing; http takes at once.      *)
LEMMA BatchOffer == ASSUME BatchInv, NEW i \in Items, Offer(i) PROVE BatchInv' /\ Onward
<1> DEFINE it == batch.item[i]
<1>1. ItemSound(it, batch.route) /\ batch.at # "prepare" /\ it.at = "route" /\ DOMAIN it = ItemFields /\ it.took = {}
  BY DEF BatchInv, Fresh, Offer, ItemSound, Open
<1>2. CASE batch' \in {Rejected(i), Stuck(i)}
  BY <1>1, <1>2, RejectedStep, StuckStep
<1>3. CASE batch' = [batch EXCEPT !.item[i].at = "skipped"]
  <2> DEFINE y == [it EXCEPT !.at = "skipped"]
  <2>1. DOMAIN y = ItemFields /\ y.at = "skipped" /\ y.took = {}
    BY <1>1 DEF ItemFields
  <2>2. batch' = [batch EXCEPT !.item[i] = y]
    BY <1>3
  <2> HIDE DEF y
  <2>3. ItemSound(y, batch.route)
    BY <2>1 DEF ItemSound, Open, Fresh
  <2> QED
    BY <1>1, <2>2, <2>3, ItemStep
<1>4. CASE batch' = [batch EXCEPT !.item[i].at = "inside", !.item[i].entered = TRUE]
  <2> DEFINE y == [it EXCEPT !.at = "inside", !.entered = TRUE]
  <2>1. DOMAIN y = ItemFields /\ y.at = "inside" /\ y.took = {}
    BY <1>1 DEF ItemFields
  <2>2. batch' = [batch EXCEPT !.item[i] = y]
    BY <1>1, <1>4 DEF ItemFields
  <2> HIDE DEF y
  <2>3. ItemSound(y, batch.route)
    BY <2>1 DEF ItemSound, Open, Fresh
  <2> QED
    BY <1>1, <2>2, <2>3, ItemStep
<1>5. CASE batch' = [batch EXCEPT !.item[i].at = "queued", !.item[i].took = @ \cup {Executor(i)}]
  <2> DEFINE y == [it EXCEPT !.at = "queued", !.took = it.took \cup {Executor(i)}]
  <2>1. DOMAIN y = ItemFields /\ y.at = "queued" /\ y.took = {Executor(i)} /\ y.k = it.k
    BY <1>1 DEF ItemFields
  <2>2. batch' = [batch EXCEPT !.item[i] = y]
    BY <1>1, <1>5 DEF ItemFields
  <2> HIDE DEF y
  <2> QED
    BY <1>1, <2>1, <2>2, OverStep
<1> QED
  BY <1>2, <1>3, <1>4, <1>5 DEF Offer

(* Only after a definite refusal is the next executor asked.               *)
LEMMA BatchExecutorReturns == ASSUME BatchInv, NEW i \in Items, ExecutorReturns(i) PROVE BatchInv' /\ Onward
<1> DEFINE it == batch.item[i]
<1>1. it.at = "inside" /\ DOMAIN it = ItemFields /\ it.took = {}
  BY DEF BatchInv, ExecutorReturns, ItemSound, Open
<1>2. CASE batch' = Rejected(i)
  BY <1>1, <1>2, RejectedStep
<1>3. CASE batch' = Accepted(i)
  <2> DEFINE y == [it EXCEPT !.at = "queued", !.took = it.took \cup {Executor(i)}]
  <2>1. DOMAIN y = ItemFields /\ y.at = "queued" /\ y.took = {Executor(i)} /\ y.k = it.k
    BY <1>1 DEF ItemFields
  <2>2. batch' = [batch EXCEPT !.item[i] = y]
    BY <1>1, <1>3 DEF Accepted, ItemFields
  <2> HIDE DEF y
  <2> QED
    BY <1>1, <2>1, <2>2, OverStep
<1>4. ASSUME NEW did \in SUBSET {Executor(i)}, batch' = Unclear(i, did)
      PROVE  BatchInv' /\ Onward
  <2> DEFINE y == [it EXCEPT !.at = "uncertain", !.took = it.took \cup did]
  <2>1. DOMAIN y = ItemFields /\ y.at = "uncertain" /\ y.took \subseteq {Executor(i)} /\ y.k = it.k
    BY <1>1 DEF ItemFields
  <2>2. batch' = [batch EXCEPT !.item[i] = y]
    BY <1>1, <1>4 DEF Unclear, ItemFields
  <2> HIDE DEF y
  <2> QED
    BY <1>1, <2>1, <2>2, OverStep
<1>5. ASSUME NEW did \in SUBSET {Executor(i)}, batch' = Unrecorded(i, did)
      PROVE  BatchInv' /\ Onward
  <2>0. PICK t, b : t = it.took \cup did /\ b = it.bad \cup {"record"}
    OBVIOUS
  <2> DEFINE y == [it EXCEPT !.at = "queued", !.took = t, !.bad = b]
  <2>1. /\ DOMAIN y = ItemFields /\ y.at = "queued" /\ y.took \subseteq {Executor(i)} /\ y.k = it.k
        /\ "record" \in y.bad
    BY <1>1, <2>0 DEF ItemFields
  <2>2. batch' = [batch EXCEPT !.item[i] = y]
    <3>1. "item" \in DOMAIN batch /\ i \in DOMAIN batch.item /\ {"at", "took", "bad"} \subseteq DOMAIN batch.item[i]
      BY <1>1 DEF BatchInv, BatchFields, ItemFields, Items
    <3>2. batch' = Grown(batch, i, "queued", did, {"record"})
      BY <1>5, Zenon DEF Unrecorded, Grown
    <3>3. batch' = Thrice(batch, i, "queued", t, b)
      <4> HIDE DEF y
      <4>1. batch' = Thrice(batch, i, "queued", batch.item[i].took \cup did, batch.item[i].bad \cup {"record"})
        BY <3>1, <3>2, ItemThriceGrown
      <4> QED
        BY <2>0, <4>1
    <3>4. y = Reset(batch.item[i], "queued", t, b)
      BY Zenon DEF Reset
    <3>5. batch' = Put(batch, i, y)
      <4> HIDE DEF y
      <4> QED
        BY <3>1, <3>3, <3>4, ItemThrice, Zenon
    <3> HIDE DEF y
    <3> QED
      BY <3>5, Zenon DEF Put
  <2> HIDE DEF y
  <2> QED
    BY <1>1, <2>1, <2>2, OverStep
<1> QED
  BY <1>2, <1>3, <1>4, <1>5 DEF ExecutorReturns

(* The batch is over.                                                      *)
LEMMA BatchFinish == ASSUME batch' = NoBatch PROVE BatchInv'
<1>1. DOMAIN batch' = BatchFields /\ batch'.at = "idle" /\ batch'.item = <<>>
  BY DEF NoBatch, BatchFields
<1>2. DOMAIN batch'.item = {}
  BY <1>1
<1> QED
  BY <1>1, <1>2 DEF BatchInv, Items

-----------------------------------------------------------------------------
(* Callers and their links *)

(* Nobody who waits for an answer is forgotten, and his message stays.     *)
Kept ==
    /\ ctrl'.run = ctrl.run
    /\ \A c \in Callers : call[c].at # "idle" => /\ call'[c].at # "idle" /\ call'[c].run = call[c].run
                                                 /\ call'[c].msg = call[c].msg

(* Who is under way stays under way.                                       *)
LEMMA UnderKept == ASSUME Kept PROVE \A c : (Asked(c) => Asked(c)') /\ (Under(c) => Under(c)')
BY DEF Kept, Asked, Under

(* The queued links.                                                       *)
LEMMA LinksKept == ASSUME Kept, LinksSound, links' = links PROVE LinksSound'
<1>1. \A c : Under(c) => Under(c)'
  BY UnderKept
<1> QED
  BY <1>1 DEF LinksSound

(* The link of the dispatcher.                                             *)
LEMMA DispKept == ASSUME Kept, DispSound, disp' = disp \/ disp'.at = "idle" PROVE DispSound'
<1>1. \A c : Under(c) => Under(c)'
  BY UnderKept
<1> QED
  BY <1>1 DEF DispSound

(* The queued intents.                                                     *)
LEMMA BusKept == ASSUME Kept, BusSound, bus' = bus PROVE BusSound'
<1>1. ASSUME NEW i \in 1..Len(bus), bus[i].call # 0
      PROVE  Under(bus[i].call)' /\ bus[i].msg = call'[bus[i].call].msg
  <2>1. PICK c : c = bus[i].call
    OBVIOUS
  <2>2. Under(c) /\ bus[i].msg = call[c].msg
    BY <1>1, <2>1 DEF BusSound
  <2>3. Under(c)' /\ call'[c].msg = call[c].msg
    BY <2>2, UnderKept DEF Kept, Under, Asked
  <2> QED
    BY <2>1, <2>2, <2>3 DEF Under, Asked
<1>2. bus' = bus /\ bus \in Seq(Intent)
  BY DEF BusSound
<1> QED
  BY <1>1, <1>2 DEF BusSound, Under, Asked

(* The caller of the batch.                                                *)
LEMMA BatchKept == ASSUME Kept, BatchSound, batch'.call = batch.call, batch'.msg = batch.msg PROVE BatchSound'
<1>1. ASSUME batch.call # 0
      PROVE  Asked(batch.call)' /\ batch'.msg = call'[batch.call].msg
  <2>1. PICK c : c = batch.call
    OBVIOUS
  <2>2. Asked(c) /\ batch.msg = call[c].msg
    BY <1>1, <2>1 DEF BatchSound
  <2>3. Asked(c)' /\ call'[c].msg = call[c].msg
    BY <2>2, UnderKept DEF Kept, Asked
  <2> QED
    BY <2>1, <2>2, <2>3 DEF Asked
<1> QED
  BY <1>1 DEF BatchSound, Asked

(* The record of one caller changes.                                       *)
LEMMA OneCall ==
    ASSUME CallsSound, NEW c \in Callers, NEW y \in CallRec, call' = [call EXCEPT ![c] = y],
           ctrl' = ctrl, ran' = ran, CallSound(c, y, ctrl.run, ctrl.last, ran),
           call[c].at # "idle" => y.at # "idle" /\ y.run = call[c].run /\ y.msg = call[c].msg
    PROVE  CallsSound' /\ Kept
<1>1. call \in [Callers -> CallRec]
  BY DEF CallsSound
<1>2. call' \in [Callers -> CallRec] /\ call'[c] = y /\ \A d \in Callers : d # c => call'[d] = call[d]
  BY <1>1
<1>3. CallsSound'
  BY <1>2 DEF CallsSound
<1>4. Kept
  BY <1>2 DEF Kept
<1> QED
  BY <1>3, <1>4

(* No caller moves.                                                        *)
LEMMA SameCalls == ASSUME CallsSound, call' = call, ctrl' = ctrl, ran' = ran PROVE CallsSound' /\ Kept
BY DEF CallsSound, Kept

(* A step that leaves callers and links alone.                             *)
LEMMA LinkFrame ==
    ASSUME LinkInv, call' = call, ctrl' = ctrl, ran' = ran, links' = links, bus' = bus, disp' = disp,
           batch'.call = batch.call, batch'.msg = batch.msg
    PROVE  LinkInv'
<1>1. CallsSound' /\ Kept
  BY SameCalls DEF LinkInv
<1> QED
  BY <1>1, LinksKept, BusKept, DispKept, BatchKept DEF LinkInv

(* A step that only changes the record of a caller.                        *)
LEMMA CallStep ==
    ASSUME LinkInv, CallsSound', Kept, links' = links, bus' = bus, disp' = disp \/ disp'.at = "idle", batch' = batch
    PROVE  LinkInv'
BY LinksKept, BusKept, DispKept, BatchKept DEF LinkInv

(* A new call belongs to the run it found.                                 *)
LEMMA LinkSubmit == ASSUME LinkInv, NEW m \in Messages, Submit(m) PROVE LinkInv'
<1> DEFINE refused == ~Enabled("download") \/ ctrl.run = 0
<1>1. PICK c \in Idle : call' = [call EXCEPT ![c] = [NoCall EXCEPT !.at = IF refused THEN "returned" ELSE "sending",
                                                                  !.msg = m, !.run = ctrl.run]]
  BY DEF Submit
<1>2. PICK x \in {"returned", "sending"} : x = (IF refused THEN "returned" ELSE "sending") /\ (x = "sending" => ctrl.run # 0)
  OBVIOUS
<1> DEFINE y == [NoCall EXCEPT !.at = x, !.msg = m, !.run = ctrl.run]
<1>3. call' = [call EXCEPT ![c] = y] /\ c \in Callers /\ call[c].at = "idle"
  BY <1>1, <1>2 DEF Idle
<1>4. ctrl.run \in Nat /\ ctrl.run <= ctrl.last /\ c \notin ran /\ CallsSound
  BY <1>3 DEF LinkInv, CallsSound, CallSound
<1>5. y.at = x /\ y.msg = m /\ y.run = ctrl.run /\ y.ans = NoMsg /\ ~y.early
  BY DEF NoCall
<1>6. y \in CallRec
  BY <1>4 DEF CallRec, NoCall
<1> HIDE DEF y
<1>7. CallSound(c, y, ctrl.run, ctrl.last, ran)
  BY <1>2, <1>4, <1>5 DEF CallSound
<1>8. /\ ctrl' = ctrl /\ ran' = ran /\ links' = links /\ bus' = bus /\ disp' = disp /\ batch' = batch
  BY DEF Submit, batchVars
<1>9. CallsSound' /\ Kept
  BY <1>3, <1>4, <1>6, <1>7, <1>8, OneCall
<1> QED
  BY <1>8, <1>9, CallStep

(* Only a call of the current run gets into its channel.                   *)
LEMMA LinkSend == ASSUME LinkInv, NEW c \in Callers, Send(c) PROVE LinkInv'
<1> DEFINE y == [call[c] EXCEPT !.at = "waiting"]
<1>1. call' = [call EXCEPT ![c] = y] /\ call[c].at = "sending" /\ call[c].run = ctrl.run /\ links' = Append(links, c)
  BY DEF Send
<1>2. /\ CallsSound /\ call[c] \in CallRec /\ CallSound(c, call[c], ctrl.run, ctrl.last, ran)
      /\ links \in Seq(Callers) /\ \A i \in 1..Len(links) : Under(links[i])
  BY DEF LinkInv, CallsSound, LinksSound
<1>3. y.at = "waiting" /\ y \in CallRec /\ CallSound(c, y, ctrl.run, ctrl.last, ran) /\ y.run = call[c].run /\ y.msg = call[c].msg
  BY <1>1, <1>2 DEF CallRec, CallSound
<1>4. ctrl' = ctrl /\ ran' = ran /\ bus' = bus /\ disp' = disp /\ batch' = batch
  BY DEF Send, batchVars
<1> HIDE DEF y
<1>5. CallsSound' /\ Kept
  BY <1>1, <1>2, <1>3, <1>4, OneCall
<1>6. LinksSound'
  <2>1. \A d : Under(d) => Under(d)'
    BY <1>5, UnderKept
  <2>2. Under(c)
    BY <1>1, <1>2 DEF Under, Asked, CallSound
  <2>3. /\ links' \in Seq(Callers) /\ Len(links') = Len(links) + 1 /\ links'[Len(links) + 1] = c
        /\ \A i \in 1..Len(links) : links'[i] = links[i]
    BY <1>1, <1>2
  <2>4. \A i \in 1..Len(links') : i \in 1..Len(links) \/ i = Len(links) + 1
    BY <1>2, <2>3
  <2>5. ASSUME NEW i \in 1..Len(links') PROVE Under(links[i])'
    <3>1. PICK d : d = links'[i]
      OBVIOUS
    <3>2. Under(d)
      BY <1>2, <2>2, <2>3, <2>4, <3>1
    <3> QED
      BY <3>1, <3>2, <2>1
  <2> QED
    BY <2>3, <2>5 DEF LinksSound
<1> QED
  BY <1>4, <1>5, <1>6, BusKept, DispKept, BatchKept DEF LinkInv

(* A caller who leaves has not returned yet.                               *)
LEMMA LinkLeave == ASSUME LinkInv, NEW c \in Callers, Leave(c) PROVE LinkInv'
<1> DEFINE y == [call[c] EXCEPT !.live = FALSE]
<1>1. call' = [call EXCEPT ![c] = y] /\ call[c].at \in {"sending", "waiting"}
  BY DEF Leave
<1>2. CallsSound /\ call[c] \in CallRec /\ CallSound(c, call[c], ctrl.run, ctrl.last, ran)
  BY DEF LinkInv, CallsSound
<1>3. y \in CallRec /\ y.at = call[c].at /\ y.run = call[c].run /\ y.msg = call[c].msg /\ y.ans = call[c].ans
  BY <1>2 DEF CallRec
<1>4. ~y.early
  BY <1>1, <1>2 DEF CallRec, CallSound
<1>5. ctrl' = ctrl /\ ran' = ran /\ links' = links /\ bus' = bus /\ disp' = disp /\ batch' = batch
  BY DEF Leave, batchVars
<1> HIDE DEF y
<1>6. CallSound(c, y, ctrl.run, ctrl.last, ran)
  BY <1>1, <1>2, <1>3, <1>4 DEF CallSound
<1>7. CallsSound' /\ Kept
  BY <1>1, <1>2, <1>3, <1>5, <1>6, OneCall
<1> QED
  BY <1>5, <1>7, CallStep

(* A caller who returns before his turn left, or is of an ended run.       *)
LEMMA LinkGiveUp == ASSUME LinkInv, NEW c \in Callers, GiveUp(c) PROVE LinkInv'
<1>1. PICK v \in BOOLEAN : v = (c \notin ran)
  BY Zenon
<1> DEFINE y == [call[c] EXCEPT !.at = "returned", !.early = v]
<1>2. CallsSound /\ call[c] \in CallRec /\ CallSound(c, call[c], ctrl.run, ctrl.last, ran)
  BY DEF LinkInv, CallsSound
<1>3. call' = [call EXCEPT ![c].at = "returned", ![c].early = v]
  BY <1>1 DEF GiveUp
<1>4. call' = [call EXCEPT ![c] = y]
  BY <1>2, <1>3 DEF CallsSound
<1>5. call[c].at \in {"sending", "waiting"} /\ (~call[c].live \/ call[c].run # ctrl.run)
  BY DEF GiveUp
<1>6. /\ y \in CallRec /\ y.at = "returned" /\ y.run = call[c].run /\ y.msg = call[c].msg /\ y.ans = call[c].ans
      /\ y.live = call[c].live /\ y.early = v
  BY <1>2 DEF CallRec
<1>7. ctrl' = ctrl /\ ran' = ran /\ links' = links /\ bus' = bus /\ disp' = disp /\ batch' = batch
  BY DEF GiveUp, batchVars
<1> HIDE DEF y
<1>8. CallSound(c, y, ctrl.run, ctrl.last, ran)
  BY <1>1, <1>2, <1>5, <1>6 DEF CallSound
<1>9. CallsSound' /\ Kept
  BY <1>2, <1>4, <1>6, <1>7, <1>8, OneCall
<1> QED
  BY <1>7, <1>9, CallStep

(* An answered caller did not return early.                                *)
LEMMA LinkAnswered == ASSUME LinkInv, NEW c \in Callers, Answered(c) PROVE LinkInv'
<1> DEFINE y == [call[c] EXCEPT !.at = "returned"]
<1>1. call' = [call EXCEPT ![c] = y] /\ call[c].at = "answered"
  BY DEF Answered
<1>2. CallsSound /\ call[c] \in CallRec /\ CallSound(c, call[c], ctrl.run, ctrl.last, ran)
  BY DEF LinkInv, CallsSound
<1>3. y \in CallRec /\ y.at = "returned" /\ y.run = call[c].run /\ y.msg = call[c].msg /\ y.ans = call[c].ans
  BY <1>2 DEF CallRec
<1>4. ~y.early
  BY <1>1, <1>2 DEF CallRec, CallSound
<1>5. ctrl' = ctrl /\ ran' = ran /\ links' = links /\ bus' = bus /\ disp' = disp /\ batch' = batch
  BY DEF Answered, batchVars
<1> HIDE DEF y
<1>6. CallSound(c, y, ctrl.run, ctrl.last, ran)
  BY <1>1, <1>2, <1>3, <1>4 DEF CallSound
<1>7. CallsSound' /\ Kept
  BY <1>1, <1>2, <1>3, <1>5, <1>6, OneCall
<1> QED
  BY <1>5, <1>7, CallStep

(* An answer is of the caller's own link.                                  *)
LEMMA Replied ==
    ASSUME CallsSound, NEW c \in Callers, NEW msg, msg \in {NoMsg, call[c].msg}, Reply(c, msg), ctrl' = ctrl, ran' = ran
    PROVE  CallsSound' /\ Kept
<1>1. CASE call' = call
  BY <1>1, SameCalls
<1>2. CASE call[c].at = "waiting" /\ call' = [call EXCEPT ![c].at = "answered", ![c].ans = msg]
  <2> DEFINE y == [call[c] EXCEPT !.at = "answered", !.ans = msg]
  <2>1. call[c] \in CallRec /\ CallSound(c, call[c], ctrl.run, ctrl.last, ran) /\ call \in [Callers -> CallRec]
    BY DEF CallsSound
  <2>2. call' = [call EXCEPT ![c] = y]
    BY <1>2, <2>1
  <2>3. y \in CallRec /\ y.at = "answered" /\ y.run = call[c].run /\ y.msg = call[c].msg /\ y.ans = msg
    BY <2>1 DEF CallRec
  <2>4. ~y.early
    BY <1>2, <2>1 DEF CallRec, CallSound
  <2> HIDE DEF y
  <2>5. CallSound(c, y, ctrl.run, ctrl.last, ran)
    BY <1>2, <2>1, <2>3, <2>4 DEF CallSound
  <2> QED
    BY <1>2, <2>2, <2>3, <2>5, OneCall
<1> QED
  BY <1>1, <1>2 DEF Reply

(* The dispatcher takes a link of the current run.                         *)
LEMMA LinkDispatch == ASSUME LinkInv, Dispatch PROVE LinkInv'
<1>1. /\ links \in Seq(Callers) /\ links # <<>> /\ \A i \in 1..Len(links) : Under(links[i])
      /\ disp' = [at |-> "resolve", call |-> Head(links)] /\ links' = Tail(links)
  BY DEF LinkInv, LinksSound, Dispatch
<1>2. call' = call /\ ctrl' = ctrl /\ ran' = ran /\ bus' = bus /\ batch' = batch
  BY DEF Dispatch, batchVars
<1>3. CallsSound' /\ Kept
  BY <1>2, SameCalls DEF LinkInv
<1>4. \A d : Under(d) => Under(d)'
  BY <1>3, UnderKept
<1>5. /\ Under(Head(links)) /\ Tail(links) \in Seq(Callers) /\ Len(Tail(links)) = Len(links) - 1
      /\ \A i \in 1..Len(Tail(links)) : Tail(links)[i] = links[i + 1] /\ i + 1 \in 1..Len(links)
  BY <1>1
<1>6. LinksSound'
  <2>1. ASSUME NEW i \in 1..Len(links') PROVE Under(links[i])'
    <3>1. PICK d : d = links'[i]
      OBVIOUS
    <3>2. Under(d)
      BY <1>1, <1>5, <3>1
    <3> QED
      BY <3>1, <3>2, <1>4
  <2> QED
    BY <2>1, <1>1, <1>5 DEF LinksSound
<1>7. DispSound'
  <2>1. PICK d : d = disp'.call
    OBVIOUS
  <2>2. Under(d)
    BY <2>1, <1>1, <1>5
  <2> QED
    BY <2>1, <2>2, <1>4 DEF DispSound
<1> QED
  BY <1>2, <1>3, <1>6, <1>7, BusKept, BatchKept DEF LinkInv

(* What is said of an intent stays true.                                   *)
LEMMA IntentKept ==
    ASSUME Kept, NEW e, e.call # 0 => Under(e.call) /\ e.msg = call[e.call].msg
    PROVE  e.call # 0 => Under(e.call)' /\ e.msg = call'[e.call].msg
<1>1. PICK c : c = e.call
  OBVIOUS
<1>2. Under(c) => Under(c)' /\ call'[c].msg = call[c].msg
  BY UnderKept DEF Kept, Under, Asked
<1> QED
  BY <1>1, <1>2

(* One more intent.                                                        *)
LEMMA BusGrows ==
    ASSUME Kept, BusSound, NEW e \in Intent, bus' = Append(bus, e),
           e.call # 0 => Under(e.call) /\ e.msg = call[e.call].msg
    PROVE  BusSound'
<1>1. /\ bus \in Seq(Intent) /\ bus' \in Seq(Intent) /\ Len(bus') = Len(bus) + 1 /\ bus'[Len(bus) + 1] = e
      /\ \A i \in 1..Len(bus) : bus'[i] = bus[i]
  BY DEF BusSound
<1>2. \A i \in 1..Len(bus') : i \in 1..Len(bus) \/ i = Len(bus) + 1
  BY <1>1
<1>3. ASSUME NEW i \in 1..Len(bus') PROVE bus'[i].call # 0 => Under(bus[i].call)' /\ bus'[i].msg = call'[bus'[i].call].msg
  <2>1. PICK x : x = bus'[i]
    OBVIOUS
  <2>2. x.call # 0 => Under(x.call) /\ x.msg = call[x.call].msg
    BY <1>1, <1>2, <2>1 DEF BusSound
  <2>3. x.call # 0 => Under(x.call)' /\ x.msg = call'[x.call].msg
    BY <2>2, IntentKept
  <2> QED
    BY <2>1, <2>3 DEF Under, Asked
<1> QED
  BY <1>1, <1>3 DEF BusSound

(* The first intent is taken.                                              *)
LEMMA BusShrinks == ASSUME Kept, BusSound, bus # <<>>, bus' = Tail(bus) PROVE BusSound'
<1>1. /\ bus \in Seq(Intent) /\ bus' \in Seq(Intent) /\ Len(bus') = Len(bus) - 1
      /\ \A i \in 1..Len(bus') : bus'[i] = bus[i + 1] /\ i + 1 \in 1..Len(bus)
  BY DEF BusSound
<1>2. ASSUME NEW i \in 1..Len(bus') PROVE bus'[i].call # 0 => Under(bus[i].call)' /\ bus'[i].msg = call'[bus'[i].call].msg
  <2>1. PICK x : x = bus'[i]
    OBVIOUS
  <2>2. x.call # 0 => Under(x.call) /\ x.msg = call[x.call].msg
    BY <1>1, <2>1 DEF BusSound
  <2>3. x.call # 0 => Under(x.call)' /\ x.msg = call'[x.call].msg
    BY <2>2, IntentKept
  <2> QED
    BY <2>1, <2>3 DEF Under, Asked
<1> QED
  BY <1>1, <1>2 DEF BusSound

(* The intent of a reaction has no caller.                                 *)
LEMMA LinkEnqueueDownload == ASSUME LinkInv, NEW m \in Messages, EnqueueDownload(m) PROVE LinkInv'
<1>1. call' = call /\ ctrl' = ctrl /\ ran' = ran /\ links' = links /\ disp' = disp /\ batch' = batch
  BY DEF EnqueueDownload, linkVars, batchVars
<1>2. CASE bus' = bus
  BY <1>1, <1>2, LinkFrame
<1>3. CASE bus' = Append(bus, [msg |-> m, call |-> 0])
  <2> DEFINE e == [msg |-> m, call |-> 0]
  <2>1. e \in Intent /\ e.call = 0
    BY DEF Intent
  <2>2. bus' = Append(bus, e)
    BY <1>3
  <2> HIDE DEF e
  <2>3. CallsSound' /\ Kept
    BY <1>1, SameCalls DEF LinkInv
  <2>4. BusSound'
    BY <2>1, <2>2, <2>3, BusGrows DEF LinkInv
  <2> QED
    BY <1>1, <2>3, <2>4, LinksKept, DispKept, BatchKept DEF LinkInv
<1> QED
  BY <1>2, <1>3 DEF EnqueueDownload, Published

(* The intent of a link carries the message of its caller.                 *)
LEMMA LinkResolveLink == ASSUME LinkInv, DOMAIN disp = {"at", "call"}, ResolveLink PROVE LinkInv'
<1>1. PICK c : c = disp.call
  OBVIOUS
<1>2. Under(c) /\ c \in Callers /\ call[c].msg \in Messages /\ c \in Nat
  BY <1>1, IntakeAssumption DEF LinkInv, DispSound, ResolveLink, Under, Asked, CallsSound, CallSound
<1>3. ctrl' = ctrl /\ ran' = ran /\ links' = links /\ batch' = batch
  BY DEF ResolveLink, batchVars
<1>4. CASE bus' = Append(bus, [msg |-> call[c].msg, call |-> c]) /\ disp' = [disp EXCEPT !.at = "await"] /\ call' = call
  <2> DEFINE e == [msg |-> call[c].msg, call |-> c]
  <2>1. e \in Intent /\ e.call = c /\ e.msg = call[c].msg
    BY <1>2 DEF Intent
  <2>2. bus' = Append(bus, e)
    BY <1>4
  <2> HIDE DEF e
  <2>3. CallsSound' /\ Kept
    BY <1>3, <1>4, SameCalls DEF LinkInv
  <2>4. BusSound'
    BY <1>2, <2>1, <2>2, <2>3, BusGrows DEF LinkInv
  <2>5. DispSound'
    <3>1. disp'.call = c
      BY <1>1, <1>4
    <3>2. Under(c)'
      BY <1>2, <2>3, UnderKept
    <3> QED
      BY <3>1, <3>2 DEF DispSound, Under, Asked
  <2> QED
    BY <1>3, <2>3, <2>4, <2>5, LinksKept, BatchKept DEF LinkInv
<1>5. CASE Reply(c, NoMsg) /\ disp' = [at |-> "idle", call |-> 0] /\ bus' = bus
  <2>1. CallsSound' /\ Kept
    BY <1>2, <1>3, <1>5, Replied DEF LinkInv
  <2> QED
    BY <2>1, <1>3, <1>5, CallStep
<1> QED
  BY <1>1, <1>4, <1>5 DEF ResolveLink

(* The link is given up with an error.                                     *)
LEMMA LinkAbandonIntent == ASSUME LinkInv, AbandonIntent PROVE LinkInv'
<1>1. PICK c : c = disp.call
  OBVIOUS
<1>2. c \in Callers
  BY <1>1 DEF LinkInv, DispSound, AbandonIntent, Under, Asked
<1>3. ctrl' = ctrl /\ ran' = ran /\ links' = links /\ batch' = batch /\ bus' = bus /\ disp'.at = "idle" /\ Reply(c, NoMsg)
  BY <1>1 DEF AbandonIntent, batchVars
<1>4. CallsSound' /\ Kept
  BY <1>2, <1>3, Replied DEF LinkInv
<1> QED
  BY <1>3, <1>4, CallStep

(* Whose intent is taken is live and of this run: he did not return early. *)
LEMMA LinkTakeIntent == ASSUME LinkInv, TakeIntent PROVE LinkInv'
<1>1. call' = call /\ ctrl' = ctrl /\ links' = links /\ disp' = disp /\ bus' = Tail(bus) /\ bus # <<>>
  BY DEF TakeIntent, linkVars
<1>2. PICK e : e = Head(bus)
  OBVIOUS
<1>3. e.call # 0 => Under(e.call) /\ e.msg = call[e.call].msg
  <2>1. 1 \in 1..Len(bus) /\ e = bus[1]
    BY <1>1, <1>2 DEF LinkInv, BusSound
  <2> QED
    BY <2>1 DEF LinkInv, BusSound
<1>4. Kept
  BY <1>1 DEF Kept
<1>5. CASE batch' = batch /\ ran' = ran
  <2>1. CallsSound'
    BY <1>1, <1>5, SameCalls DEF LinkInv
  <2> QED
    BY <1>1, <1>4, <1>5, <2>1, LinksKept, DispKept, BatchKept, BusShrinks DEF LinkInv
<1>6. CASE /\ e.call = 0 \/ (e.call \in pending /\ CallLive(e.call))
           /\ batch' = [NoBatch EXCEPT !.at = "taken", !.msg = e.msg, !.call = e.call]
           /\ ran' = IF e.call = 0 THEN ran ELSE ran \cup {e.call}
  <2>1. batch'.call = e.call /\ batch'.msg = e.msg
    BY <1>6 DEF NoBatch
  <2>2. BatchSound'
    BY <1>1, <1>3, <2>1 DEF BatchSound, Under, Asked
  <2>3. ASSUME NEW c \in Callers PROVE CallSound(c, call[c], ctrl.run, ctrl.last, ran')
    <3>1. CallSound(c, call[c], ctrl.run, ctrl.last, ran)
      BY DEF LinkInv, CallsSound
    <3>2. CASE c = e.call /\ c # 0
      <4>1. call[c].live /\ call[c].at # "idle" /\ call[c].run = ctrl.run
        BY <1>3, <1>6, <3>2 DEF CallLive, Under, Asked
      <4> QED
        BY <3>1, <4>1 DEF CallSound
    <3>3. CASE ~(c = e.call /\ c # 0)
      <4>1. c \in ran' <=> c \in ran
        BY <1>6, <3>3
      <4> QED
        BY <3>1, <4>1 DEF CallSound
    <3> QED
      BY <3>2, <3>3
  <2>4. CallsSound'
    BY <1>1, <2>3 DEF LinkInv, CallsSound
  <2> QED
    BY <1>1, <1>4, <2>2, <2>4, LinksKept, DispKept, BusShrinks DEF LinkInv
<1> QED
  BY <1>2, <1>5, <1>6 DEF TakeIntent

(* The summary is of the message of the batch's caller.                    *)
LEMMA LinkFinishBatch == ASSUME LinkInv, FinishBatch PROVE LinkInv'
<1>1. ctrl' = ctrl /\ ran' = ran /\ links' = links /\ bus' = bus /\ batch' = NoBatch
  BY DEF FinishBatch
<1>2. PICK c : c = batch.call
  OBVIOUS
<1>3. BatchSound'
  BY <1>1 DEF BatchSound, NoBatch
<1>4. /\ CallsSound' /\ Kept
      /\ disp' = disp \/ disp'.at = "idle"
  <2>1. CASE disp' = disp /\ call' = call
    BY <1>1, <2>1, SameCalls DEF LinkInv
  <2>2. CASE /\ c # 0 /\ disp' = [at |-> "idle", call |-> 0]
             /\ Reply(c, IF batch.at = "failed" THEN NoMsg ELSE batch.msg)
    <3>1. PICK msg : msg = IF batch.at = "failed" THEN NoMsg ELSE batch.msg
      OBVIOUS
    <3>2. c \in Callers /\ msg \in {NoMsg, call[c].msg}
      BY <1>2, <2>2, <3>1 DEF LinkInv, BatchSound, Asked
    <3> QED
      BY <1>1, <2>2, <3>1, <3>2, Replied DEF LinkInv
  <2> QED
    BY <1>2, <2>1, <2>2 DEF FinishBatch
<1> QED
  BY <1>1, <1>3, <1>4, LinksKept, BusKept, DispKept DEF LinkInv

(* The bus is closed.                                                      *)
LEMMA LinkIntentsDrained == ASSUME LinkInv, IntentsDrained PROVE LinkInv'
<1>1. /\ call' = call /\ ctrl' = ctrl /\ ran' = ran /\ links' = links /\ disp' = disp /\ batch' = batch /\ bus' = <<>>
  BY DEF IntentsDrained, linkVars, batchVars
<1>2. CallsSound' /\ Kept
  BY <1>1, SameCalls DEF LinkInv
<1>3. BusSound'
  BY <1>1 DEF BusSound
<1> QED
  BY <1>1, <1>2, <1>3, LinksKept, DispKept, BatchKept DEF LinkInv

(* Telling a run to stop does not end it.                                  *)
LEMMA LinkStopWatch == ASSUME LinkInv, StopWatch PROVE LinkInv'
<1>1. /\ call' = call /\ ctrl' = [ctrl EXCEPT !.stop = TRUE] /\ ran' = ran /\ links' = links /\ disp' = disp
      /\ batch' = batch /\ bus' = bus
  BY DEF StopWatch, batchVars
<1>2. DOMAIN ctrl' = {"run", "last", "stop"} /\ ctrl'.run = ctrl.run /\ ctrl'.last = ctrl.last
  BY <1>1 DEF LinkInv, CallsSound
<1>3. CallsSound' /\ Kept
  BY <1>1, <1>2 DEF LinkInv, CallsSound, Kept
<1> QED
  BY <1>1, <1>3, CallStep

(* A run ends with its connection: no intent, no dispatched link is left.  *)
LEMMA LinkRunEnds == ASSUME LinkInv, ConnInv, RunEnds PROVE LinkInv'
<1>1. /\ call' = call /\ ctrl' = [ctrl EXCEPT !.run = 0, !.stop = FALSE] /\ ran' = ran /\ links' = <<>> /\ disp' = disp
      /\ batch' = batch /\ bus' = bus /\ bus = <<>> /\ disp.at = "idle"
  BY DEF RunEnds, ConnInv, batchVars
<1>2. /\ DOMAIN ctrl' = {"run", "last", "stop"} /\ ctrl'.run = 0 /\ ctrl'.last = ctrl.last /\ ctrl.last \in Nat
  BY <1>1 DEF LinkInv, CallsSound
<1>3. ASSUME NEW c \in Callers PROVE CallSound(c, call[c], 0, ctrl.last, ran)
  BY DEF LinkInv, CallsSound, CallSound
<1>4. CallsSound'
  BY <1>1, <1>2, <1>3 DEF LinkInv, CallsSound
<1>5. LinksSound' /\ BusSound' /\ DispSound'
  BY <1>1 DEF LinksSound, BusSound, DispSound
<1>6. BatchSound'
  BY <1>1 DEF LinkInv, BatchSound, Asked
<1> QED
  BY <1>4, <1>5, <1>6 DEF LinkInv

(* A new run is later than every call so far.                              *)
LEMMA LinkStartWatch == ASSUME LinkInv, StartWatch PROVE LinkInv'
<1> DEFINE n == ctrl.last + 1
<1>1. /\ call' = call /\ ctrl' = [ctrl EXCEPT !.run = n, !.last = n] /\ ran' = ran /\ links' = links /\ disp' = disp
      /\ batch' = batch /\ bus' = bus /\ ctrl.run = 0
  BY DEF StartWatch, batchVars
<1>2. ctrl.last \in Nat /\ n \in Nat /\ ctrl.last < n
  BY DEF LinkInv, CallsSound
<1> HIDE DEF n
<1>3. /\ DOMAIN ctrl' = {"run", "last", "stop"} /\ ctrl'.run = n /\ ctrl'.last = n
  BY <1>1 DEF LinkInv, CallsSound
<1>4. ASSUME NEW c \in Callers PROVE CallSound(c, call[c], n, n, ran)
  <2>1. CallSound(c, call[c], ctrl.run, ctrl.last, ran) /\ call[c].run \in Nat
    BY DEF LinkInv, CallsSound, CallRec
  <2>2. call[c].run <= n /\ call[c].run # n
    BY <1>2, <2>1 DEF CallSound
  <2> QED
    BY <1>1, <2>1, <2>2 DEF CallSound
<1>5. CallsSound'
  BY <1>1, <1>2, <1>3, <1>4 DEF LinkInv, CallsSound
<1>6. \A c : ~Under(c)
  BY <1>1 DEF Under
<1>7. LinksSound' /\ DispSound'
  BY <1>1, <1>6 DEF LinkInv, LinksSound, DispSound
<1>8. BusSound'
  BY <1>1, <1>6 DEF LinkInv, BusSound
<1>9. BatchSound'
  BY <1>1 DEF LinkInv, BatchSound, Asked
<1> QED
  BY <1>5, <1>7, <1>8, <1>9 DEF LinkInv

-----------------------------------------------------------------------------
(* The connection *)

ConnState == <<disp, conn, batch, fwd, bus, fbus, handler>>
(* A step that leaves the connection and its work alone.                   *)
LEMMA ConnFrame == ConnInv /\ UNCHANGED ConnState => ConnInv'
BY DEF ConnInv, ConnState

(* While the connection is up nothing has to be over.                      *)
LEMMA ConnUp == ASSUME ConnInv, conn' \in {"up", "closing"}, DOMAIN disp' = {"at", "call"}, disp'.at \in {"idle", "resolve", "await"}
                PROVE  ConnInv'
BY DEF ConnInv

(* What runs over the connection goes on: it is not being released.        *)
LEMMA ConnBatch ==
    ASSUME ConnInv, conn' = conn, batch.at # "idle", disp' = disp \/ (DOMAIN disp' = {"at", "call"} /\ disp'.at = "idle")
    PROVE  ConnInv'
BY DEF ConnInv

(* An update that is handled keeps the connection from being released.     *)
LEMMA ConnHandler ==
    ASSUME ConnInv, NEW m \in Messages, handler[m] # "idle", conn' = conn, disp' = disp, batch' = batch, fwd' = fwd,
           conn # "up" => bus' = bus /\ fbus' = fbus
    PROVE  ConnInv'
BY DEF ConnInv

(* So does a link that is dispatched.                                      *)
LEMMA ConnDispatcher ==
    ASSUME ConnInv, disp.at # "idle", conn' = conn, DOMAIN disp' = {"at", "call"}, disp'.at \in {"idle", "await"}
    PROVE  ConnInv'
BY DEF ConnInv

(* The parts end in their order.                                           *)
LEMMA ConnEnds == ASSUME ConnInv, DispatchDone \/ IntentsDrained \/ Release PROVE ConnInv'
<1>1. CASE DispatchDone
  BY <1>1 DEF DispatchDone, ConnInv, linkVars
<1>2. CASE IntentsDrained
  BY <1>2 DEF IntentsDrained, ConnInv, linkVars, batchVars
<1>3. CASE Release
  BY <1>3 DEF Release, ConnInv, linkVars, batchVars, reactionVars
<1> QED
  BY <1>1, <1>2, <1>3

-----------------------------------------------------------------------------
(* Every step keeps the invariant.                                         *)

(* React: part by part.                                                    *)
LEMMA StepReact == ASSUME IntakeInv, NEW m \in Messages, React(m) PROVE IntakeInv'
<1>1. ReactInv /\ BatchInv /\ ConnInv /\ LinkInv
  BY DEF IntakeInv
<1>2. ReactInv'
  BY <1>1, ReactReact
<1>3. BatchInv'
  BY <1>1, BatchFrame DEF React, ReactionState, ConnState, reactionVars, linkVars, batchVars
<1>4. ConnInv'
  BY <1>1, ConnFrame DEF React, ReactionState, ConnState, reactionVars, linkVars, batchVars
<1>5. LinkInv'
  BY <1>1, LinkFrame DEF React, ReactionState, ConnState, reactionVars, linkVars, batchVars
<1> QED
  BY <1>2, <1>3, <1>4, <1>5 DEF IntakeInv

(* TellAgain: part by part.                                                *)
LEMMA StepTellAgain == ASSUME IntakeInv, NEW m \in Messages, TellAgain(m) PROVE IntakeInv'
<1>1. ReactInv /\ BatchInv /\ ConnInv /\ LinkInv
  BY DEF IntakeInv
<1>2. ReactInv'
  BY <1>1, ReactTellAgain
<1>3. BatchInv'
  BY <1>1, BatchFrame DEF TellAgain, ReactionState, ConnState, reactionVars, linkVars, batchVars
<1>4. ConnInv'
  BY <1>1, ConnFrame DEF TellAgain, ReactionState, ConnState, reactionVars, linkVars, batchVars
<1>5. LinkInv'
  BY <1>1, LinkFrame DEF TellAgain, ReactionState, ConnState, reactionVars, linkVars, batchVars
<1> QED
  BY <1>2, <1>3, <1>4, <1>5 DEF IntakeInv

(* NewMessage: part by part.                                               *)
LEMMA StepNewMessage == ASSUME IntakeInv, NEW m \in Messages, NewMessage(m) PROVE IntakeInv'
<1>1. ReactInv /\ BatchInv /\ ConnInv /\ LinkInv
  BY DEF IntakeInv
<1>2. ReactInv'
  BY <1>1, ReactFrame DEF NewMessage, ReactionState, ConnState, reactionVars, linkVars, batchVars
<1>3. BatchInv'
  BY <1>1, BatchFrame DEF NewMessage, ReactionState, ConnState, reactionVars, linkVars, batchVars
<1>4. ConnInv'
  BY <1>1, ConnUp DEF NewMessage, ReactionState, ConnState, reactionVars, linkVars, batchVars, ConnInv
<1>5. LinkInv'
  BY <1>1, LinkFrame DEF NewMessage, ReactionState, ConnState, reactionVars, linkVars, batchVars
<1> QED
  BY <1>2, <1>3, <1>4, <1>5 DEF IntakeInv

(* Submit: part by part.                                                   *)
LEMMA StepSubmit == ASSUME IntakeInv, NEW m \in Messages, Submit(m) PROVE IntakeInv'
<1>1. ReactInv /\ BatchInv /\ ConnInv /\ LinkInv
  BY DEF IntakeInv
<1>2. ReactInv'
  BY <1>1, ReactFrame DEF Submit, ReactionState, ConnState, reactionVars, linkVars, batchVars
<1>3. BatchInv'
  BY <1>1, BatchFrame DEF Submit, ReactionState, ConnState, reactionVars, linkVars, batchVars
<1>4. ConnInv'
  BY <1>1, ConnFrame DEF Submit, ReactionState, ConnState, reactionVars, linkVars, batchVars
<1>5. LinkInv'
  BY <1>1, LinkSubmit
<1> QED
  BY <1>2, <1>3, <1>4, <1>5 DEF IntakeInv

(* Leave: part by part.                                                    *)
LEMMA StepLeave == ASSUME IntakeInv, NEW c \in Callers, Leave(c) PROVE IntakeInv'
<1>1. ReactInv /\ BatchInv /\ ConnInv /\ LinkInv
  BY DEF IntakeInv
<1>2. ReactInv'
  BY <1>1, ReactFrame DEF Leave, ReactionState, ConnState, reactionVars, linkVars, batchVars
<1>3. BatchInv'
  BY <1>1, BatchFrame DEF Leave, ReactionState, ConnState, reactionVars, linkVars, batchVars
<1>4. ConnInv'
  BY <1>1, ConnFrame DEF Leave, ReactionState, ConnState, reactionVars, linkVars, batchVars
<1>5. LinkInv'
  BY <1>1, LinkLeave
<1> QED
  BY <1>2, <1>3, <1>4, <1>5 DEF IntakeInv

(* StopTrigger: part by part.                                              *)
LEMMA StepStopTrigger == ASSUME IntakeInv, StopTrigger PROVE IntakeInv'
<1>1. ReactInv /\ BatchInv /\ ConnInv /\ LinkInv
  BY DEF IntakeInv
<1>2. ReactInv'
  BY <1>1, ReactStopTrigger
<1>3. BatchInv'
  BY <1>1, BatchFrame DEF StopTrigger, ReactionState, ConnState, reactionVars, linkVars, batchVars
<1>4. ConnInv'
  BY <1>1, ConnFrame DEF StopTrigger, ReactionState, ConnState, reactionVars, linkVars, batchVars
<1>5. LinkInv'
  BY <1>1, LinkFrame DEF StopTrigger, ReactionState, ConnState, reactionVars, linkVars, batchVars
<1> QED
  BY <1>2, <1>3, <1>4, <1>5 DEF IntakeInv

(* StopControl: part by part.                                              *)
LEMMA StepStopControl == ASSUME IntakeInv, StopControl PROVE IntakeInv'
<1>1. ReactInv /\ BatchInv /\ ConnInv /\ LinkInv
  BY DEF IntakeInv
<1>2. ReactInv'
  BY <1>1, ReactFrame DEF StopControl, ReactionState, ConnState, reactionVars, linkVars, batchVars
<1>3. BatchInv'
  BY <1>1, BatchFrame DEF StopControl, ReactionState, ConnState, reactionVars, linkVars, batchVars
<1>4. ConnInv'
  BY <1>1, ConnFrame DEF StopControl, ReactionState, ConnState, reactionVars, linkVars, batchVars
<1>5. LinkInv'
  BY <1>1, LinkFrame DEF StopControl, ReactionState, ConnState, reactionVars, linkVars, batchVars
<1> QED
  BY <1>2, <1>3, <1>4, <1>5 DEF IntakeInv

(* StartControl: part by part.                                             *)
LEMMA StepStartControl == ASSUME IntakeInv, StartControl PROVE IntakeInv'
<1>1. ReactInv /\ BatchInv /\ ConnInv /\ LinkInv
  BY DEF IntakeInv
<1>2. ReactInv'
  BY <1>1, ReactFrame DEF StartControl, ReactionState, ConnState, reactionVars, linkVars, batchVars
<1>3. BatchInv'
  BY <1>1, BatchFrame DEF StartControl, ReactionState, ConnState, reactionVars, linkVars, batchVars
<1>4. ConnInv'
  BY <1>1, ConnFrame DEF StartControl, ReactionState, ConnState, reactionVars, linkVars, batchVars
<1>5. LinkInv'
  BY <1>1, LinkFrame DEF StartControl, ReactionState, ConnState, reactionVars, linkVars, batchVars
<1> QED
  BY <1>2, <1>3, <1>4, <1>5 DEF IntakeInv

(* ControlStopped: part by part.                                           *)
LEMMA StepControlStopped == ASSUME IntakeInv, ControlStopped PROVE IntakeInv'
<1>1. ReactInv /\ BatchInv /\ ConnInv /\ LinkInv
  BY DEF IntakeInv
<1>2. ReactInv'
  BY <1>1, ReactFrame DEF ControlStopped, ReactionState, ConnState, reactionVars, linkVars, batchVars
<1>3. BatchInv'
  BY <1>1, BatchFrame DEF ControlStopped, ReactionState, ConnState, reactionVars, linkVars, batchVars
<1>4. ConnInv'
  BY <1>1, ConnFrame DEF ControlStopped, ReactionState, ConnState, reactionVars, linkVars, batchVars
<1>5. LinkInv'
  BY <1>1, LinkFrame DEF ControlStopped, ReactionState, ConnState, reactionVars, linkVars, batchVars
<1> QED
  BY <1>2, <1>3, <1>4, <1>5 DEF IntakeInv

(* Reroute: part by part.                                                  *)
LEMMA StepReroute == ASSUME IntakeInv, Reroute PROVE IntakeInv'
<1>1. ReactInv /\ BatchInv /\ ConnInv /\ LinkInv
  BY DEF IntakeInv
<1>2. ReactInv'
  BY <1>1, ReactFrame DEF Reroute, ReactionState, ConnState, reactionVars, linkVars, batchVars
<1>3. BatchInv'
  BY <1>1, BatchFrame DEF Reroute, ReactionState, ConnState, reactionVars, linkVars, batchVars
<1>4. ConnInv'
  BY <1>1, ConnFrame DEF Reroute, ReactionState, ConnState, reactionVars, linkVars, batchVars
<1>5. LinkInv'
  BY <1>1, LinkFrame DEF Reroute, ReactionState, ConnState, reactionVars, linkVars, batchVars
<1> QED
  BY <1>2, <1>3, <1>4, <1>5 DEF IntakeInv

(* Drop: part by part.                                                     *)
LEMMA StepDrop == ASSUME IntakeInv, Drop PROVE IntakeInv'
<1>1. ReactInv /\ BatchInv /\ ConnInv /\ LinkInv
  BY DEF IntakeInv
<1>2. ReactInv'
  BY <1>1, ReactFrame DEF Drop, ReactionState, ConnState, reactionVars, linkVars, batchVars
<1>3. BatchInv'
  BY <1>1, BatchFrame DEF Drop, ReactionState, ConnState, reactionVars, linkVars, batchVars
<1>4. ConnInv'
  BY <1>1, ConnUp DEF Drop, ReactionState, ConnState, reactionVars, linkVars, batchVars, ConnInv
<1>5. LinkInv'
  BY <1>1, LinkFrame DEF Drop, ReactionState, ConnState, reactionVars, linkVars, batchVars
<1> QED
  BY <1>2, <1>3, <1>4, <1>5 DEF IntakeInv

(* Connect: part by part.                                                  *)
LEMMA StepConnect == ASSUME IntakeInv, Connect PROVE IntakeInv'
<1>1. ReactInv /\ BatchInv /\ ConnInv /\ LinkInv
  BY DEF IntakeInv
<1>2. ReactInv'
  BY <1>1, ReactFrame DEF Connect, ReactionState, ConnState, reactionVars, linkVars, batchVars
<1>3. BatchInv'
  BY <1>1, BatchFrame DEF Connect, ReactionState, ConnState, reactionVars, linkVars, batchVars
<1>4. ConnInv'
  BY <1>1, ConnUp DEF Connect, ReactionState, ConnState, reactionVars, linkVars, batchVars, ConnInv
<1>5. LinkInv'
  BY <1>1, LinkFrame DEF Connect, ReactionState, ConnState, reactionVars, linkVars, batchVars
<1> QED
  BY <1>2, <1>3, <1>4, <1>5 DEF IntakeInv

(* StopWatch: part by part.                                                *)
LEMMA StepStopWatch == ASSUME IntakeInv, StopWatch PROVE IntakeInv'
<1>1. ReactInv /\ BatchInv /\ ConnInv /\ LinkInv
  BY DEF IntakeInv
<1>2. ReactInv'
  BY <1>1, ReactFrame DEF StopWatch, ReactionState, ConnState, reactionVars, linkVars, batchVars
<1>3. BatchInv'
  BY <1>1, BatchFrame DEF StopWatch, ReactionState, ConnState, reactionVars, linkVars, batchVars
<1>4. ConnInv'
  BY <1>1, ConnFrame, ConnUp DEF StopWatch, ReactionState, ConnState, reactionVars, linkVars, batchVars, ConnInv
<1>5. LinkInv'
  BY <1>1, LinkStopWatch
<1> QED
  BY <1>2, <1>3, <1>4, <1>5 DEF IntakeInv

(* StartWatch: part by part.                                               *)
LEMMA StepStartWatch == ASSUME IntakeInv, StartWatch PROVE IntakeInv'
<1>1. ReactInv /\ BatchInv /\ ConnInv /\ LinkInv
  BY DEF IntakeInv
<1>2. ReactInv'
  BY <1>1, ReactFrame DEF StartWatch, ReactionState, ConnState, reactionVars, linkVars, batchVars
<1>3. BatchInv'
  BY <1>1, BatchFrame DEF StartWatch, ReactionState, ConnState, reactionVars, linkVars, batchVars
<1>4. ConnInv'
  BY <1>1, ConnFrame DEF StartWatch, ReactionState, ConnState, reactionVars, linkVars, batchVars
<1>5. LinkInv'
  BY <1>1, LinkStartWatch
<1> QED
  BY <1>2, <1>3, <1>4, <1>5 DEF IntakeInv

(* RunEnds: part by part.                                                  *)
LEMMA StepRunEnds == ASSUME IntakeInv, RunEnds PROVE IntakeInv'
<1>1. ReactInv /\ BatchInv /\ ConnInv /\ LinkInv
  BY DEF IntakeInv
<1>2. ReactInv'
  BY <1>1, ReactFrame DEF RunEnds, ReactionState, ConnState, reactionVars, linkVars, batchVars
<1>3. BatchInv'
  BY <1>1, BatchFrame DEF RunEnds, ReactionState, ConnState, reactionVars, linkVars, batchVars
<1>4. ConnInv'
  BY <1>1, ConnFrame DEF RunEnds, ReactionState, ConnState, reactionVars, linkVars, batchVars
<1>5. LinkInv'
  BY <1>1, LinkRunEnds
<1> QED
  BY <1>2, <1>3, <1>4, <1>5 DEF IntakeInv

(* OnUpdate: part by part.                                                 *)
LEMMA StepOnUpdate == ASSUME IntakeInv, NEW m \in Messages, OnUpdate(m) PROVE IntakeInv'
<1>1. ReactInv /\ BatchInv /\ ConnInv /\ LinkInv
  BY DEF IntakeInv
<1>2. ReactInv'
  BY <1>1, ReactOnUpdate
<1>3. BatchInv'
  BY <1>1, BatchFrame DEF OnUpdate, ReactionState, ConnState, reactionVars, linkVars, batchVars
<1>4. ConnInv'
  BY <1>1, ConnUp DEF OnUpdate, ReactionState, ConnState, reactionVars, linkVars, batchVars, ConnInv
<1>5. LinkInv'
  BY <1>1, LinkFrame DEF OnUpdate, ReactionState, ConnState, reactionVars, linkVars, batchVars
<1> QED
  BY <1>2, <1>3, <1>4, <1>5 DEF IntakeInv

(* EnqueueDownload: part by part.                                          *)
LEMMA StepEnqueueDownload == ASSUME IntakeInv, NEW m \in Messages, EnqueueDownload(m) PROVE IntakeInv'
<1>1. ReactInv /\ BatchInv /\ ConnInv /\ LinkInv
  BY DEF IntakeInv
<1>2. ReactInv'
  BY <1>1, ReactEnqueueDownload
<1>3. BatchInv'
  BY <1>1, BatchFrame DEF EnqueueDownload, ReactionState, ConnState, reactionVars, linkVars, batchVars
<1>4. ConnInv'
  BY <1>1, ConnHandler DEF EnqueueDownload, ReactionState, ConnState, reactionVars, linkVars, batchVars, Forget
<1>5. LinkInv'
  BY <1>1, LinkEnqueueDownload
<1> QED
  BY <1>2, <1>3, <1>4, <1>5 DEF IntakeInv

(* PublishForward: part by part.                                           *)
LEMMA StepPublishForward == ASSUME IntakeInv, NEW m \in Messages, PublishForward(m) PROVE IntakeInv'
<1>1. ReactInv /\ BatchInv /\ ConnInv /\ LinkInv
  BY DEF IntakeInv
<1>2. ReactInv'
  BY <1>1, ReactPublishForward
<1>3. BatchInv'
  BY <1>1, BatchFrame DEF PublishForward, ReactionState, ConnState, reactionVars, linkVars, batchVars
<1>4. ConnInv'
  BY <1>1, ConnHandler DEF PublishForward, ReactionState, ConnState, reactionVars, linkVars, batchVars
<1>5. LinkInv'
  BY <1>1, LinkFrame DEF PublishForward, ReactionState, ConnState, reactionVars, linkVars, batchVars
<1> QED
  BY <1>2, <1>3, <1>4, <1>5 DEF IntakeInv

(* TakeForward: part by part.                                              *)
LEMMA StepTakeForward == ASSUME IntakeInv, TakeForward PROVE IntakeInv'
<1>1. ReactInv /\ BatchInv /\ ConnInv /\ LinkInv
  BY DEF IntakeInv
<1>2. ReactInv'
  BY <1>1, ReactFrame DEF TakeForward, ReactionState, ConnState, reactionVars, linkVars, batchVars
<1>3. BatchInv'
  BY <1>1, BatchFrame DEF TakeForward, ReactionState, ConnState, reactionVars, linkVars, batchVars
<1>4. ConnInv'
  BY <1>1, ConnUp DEF TakeForward, ReactionState, ConnState, reactionVars, linkVars, batchVars, ConnInv
<1>5. LinkInv'
  BY <1>1, LinkFrame DEF TakeForward, ReactionState, ConnState, reactionVars, linkVars, batchVars
<1> QED
  BY <1>2, <1>3, <1>4, <1>5 DEF IntakeInv

(* ForwardProcessed: part by part.                                         *)
LEMMA StepForwardProcessed == ASSUME IntakeInv, ForwardProcessed PROVE IntakeInv'
<1>1. ReactInv /\ BatchInv /\ ConnInv /\ LinkInv
  BY DEF IntakeInv
<1>2. ReactInv'
  BY <1>1, ReactFrame DEF ForwardProcessed, ReactionState, ConnState, reactionVars, linkVars, batchVars
<1>3. BatchInv'
  BY <1>1, BatchFrame DEF ForwardProcessed, ReactionState, ConnState, reactionVars, linkVars, batchVars
<1>4. ConnInv'
  BY <1>1 DEF ForwardProcessed, ReactionState, ConnState, reactionVars, linkVars, batchVars, ConnInv
<1>5. LinkInv'
  BY <1>1, LinkFrame DEF ForwardProcessed, ReactionState, ConnState, reactionVars, linkVars, batchVars
<1> QED
  BY <1>2, <1>3, <1>4, <1>5 DEF IntakeInv

(* Send: part by part.                                                     *)
LEMMA StepSend == ASSUME IntakeInv, NEW c \in Callers, Send(c) PROVE IntakeInv'
<1>1. ReactInv /\ BatchInv /\ ConnInv /\ LinkInv
  BY DEF IntakeInv
<1>2. ReactInv'
  BY <1>1, ReactFrame DEF Send, ReactionState, ConnState, reactionVars, linkVars, batchVars
<1>3. BatchInv'
  BY <1>1, BatchFrame DEF Send, ReactionState, ConnState, reactionVars, linkVars, batchVars
<1>4. ConnInv'
  BY <1>1, ConnFrame DEF Send, ReactionState, ConnState, reactionVars, linkVars, batchVars
<1>5. LinkInv'
  BY <1>1, LinkSend
<1> QED
  BY <1>2, <1>3, <1>4, <1>5 DEF IntakeInv

(* GiveUp: part by part.                                                   *)
LEMMA StepGiveUp == ASSUME IntakeInv, NEW c \in Callers, GiveUp(c) PROVE IntakeInv'
<1>1. ReactInv /\ BatchInv /\ ConnInv /\ LinkInv
  BY DEF IntakeInv
<1>2. ReactInv'
  BY <1>1, ReactFrame DEF GiveUp, ReactionState, ConnState, reactionVars, linkVars, batchVars
<1>3. BatchInv'
  BY <1>1, BatchFrame DEF GiveUp, ReactionState, ConnState, reactionVars, linkVars, batchVars
<1>4. ConnInv'
  BY <1>1, ConnFrame DEF GiveUp, ReactionState, ConnState, reactionVars, linkVars, batchVars
<1>5. LinkInv'
  BY <1>1, LinkGiveUp
<1> QED
  BY <1>2, <1>3, <1>4, <1>5 DEF IntakeInv

(* Answered: part by part.                                                 *)
LEMMA StepAnswered == ASSUME IntakeInv, NEW c \in Callers, Answered(c) PROVE IntakeInv'
<1>1. ReactInv /\ BatchInv /\ ConnInv /\ LinkInv
  BY DEF IntakeInv
<1>2. ReactInv'
  BY <1>1, ReactFrame DEF Answered, ReactionState, ConnState, reactionVars, linkVars, batchVars
<1>3. BatchInv'
  BY <1>1, BatchFrame DEF Answered, ReactionState, ConnState, reactionVars, linkVars, batchVars
<1>4. ConnInv'
  BY <1>1, ConnFrame DEF Answered, ReactionState, ConnState, reactionVars, linkVars, batchVars
<1>5. LinkInv'
  BY <1>1, LinkAnswered
<1> QED
  BY <1>2, <1>3, <1>4, <1>5 DEF IntakeInv

(* Dispatch: part by part.                                                 *)
LEMMA StepDispatch == ASSUME IntakeInv, Dispatch PROVE IntakeInv'
<1>1. ReactInv /\ BatchInv /\ ConnInv /\ LinkInv
  BY DEF IntakeInv
<1>2. ReactInv'
  BY <1>1, ReactFrame DEF Dispatch, ReactionState, ConnState, reactionVars, linkVars, batchVars
<1>3. BatchInv'
  BY <1>1, BatchFrame DEF Dispatch, ReactionState, ConnState, reactionVars, linkVars, batchVars
<1>4. ConnInv'
  BY <1>1, ConnUp DEF Dispatch, ReactionState, ConnState, reactionVars, linkVars, batchVars, ConnInv
<1>5. LinkInv'
  BY <1>1, LinkDispatch
<1> QED
  BY <1>2, <1>3, <1>4, <1>5 DEF IntakeInv

(* ResolveLink: part by part.                                              *)
LEMMA StepResolveLink == ASSUME IntakeInv, ResolveLink PROVE IntakeInv'
<1>1. ReactInv /\ BatchInv /\ ConnInv /\ LinkInv
  BY DEF IntakeInv
<1>2. ReactInv'
  BY <1>1, ReactFrame DEF ResolveLink, ReactionState, ConnState, reactionVars, linkVars, batchVars
<1>3. BatchInv'
  BY <1>1, BatchFrame DEF ResolveLink, ReactionState, ConnState, reactionVars, linkVars, batchVars
<1>4. ConnInv'
  BY <1>1, ConnDispatcher DEF ResolveLink, ReactionState, ConnState, reactionVars, linkVars, batchVars, ConnInv
<1>5. LinkInv'
  BY <1>1, LinkResolveLink DEF ConnInv
<1> QED
  BY <1>2, <1>3, <1>4, <1>5 DEF IntakeInv

(* AbandonIntent: part by part.                                            *)
LEMMA StepAbandonIntent == ASSUME IntakeInv, AbandonIntent PROVE IntakeInv'
<1>1. ReactInv /\ BatchInv /\ ConnInv /\ LinkInv
  BY DEF IntakeInv
<1>2. ReactInv'
  BY <1>1, ReactFrame DEF AbandonIntent, ReactionState, ConnState, reactionVars, linkVars, batchVars
<1>3. BatchInv'
  BY <1>1, BatchFrame DEF AbandonIntent, ReactionState, ConnState, reactionVars, linkVars, batchVars
<1>4. ConnInv'
  BY <1>1, ConnDispatcher DEF AbandonIntent, ReactionState, ConnState, reactionVars, linkVars, batchVars, ConnInv
<1>5. LinkInv'
  BY <1>1, LinkAbandonIntent
<1> QED
  BY <1>2, <1>3, <1>4, <1>5 DEF IntakeInv

(* TakeIntent: part by part.                                               *)
LEMMA StepTakeIntent == ASSUME IntakeInv, TakeIntent PROVE IntakeInv'
<1>1. ReactInv /\ BatchInv /\ ConnInv /\ LinkInv
  BY DEF IntakeInv
<1>2. ReactInv'
  BY <1>1, ReactFrame DEF TakeIntent, ReactionState, ConnState, reactionVars, linkVars, batchVars
<1>3. BatchInv'
  BY <1>1, BatchTakeIntent
<1>4. ConnInv'
  BY <1>1, ConnUp DEF TakeIntent, ReactionState, ConnState, reactionVars, linkVars, batchVars, ConnInv
<1>5. LinkInv'
  BY <1>1, LinkTakeIntent
<1> QED
  BY <1>2, <1>3, <1>4, <1>5 DEF IntakeInv

(* FinishBatch: part by part.                                              *)
LEMMA StepFinishBatch == ASSUME IntakeInv, FinishBatch PROVE IntakeInv'
<1>1. ReactInv /\ BatchInv /\ ConnInv /\ LinkInv
  BY DEF IntakeInv
<1>2. ReactInv'
  BY <1>1, ReactFrame DEF FinishBatch, ReactionState, ConnState, reactionVars, linkVars, batchVars
<1>3. BatchInv'
  BY <1>1, BatchFinish DEF FinishBatch
<1>4. ConnInv'
  BY <1>1, ConnBatch DEF FinishBatch, ReactionState, ConnState, reactionVars, linkVars, batchVars, Ended
<1>5. LinkInv'
  BY <1>1, LinkFinishBatch
<1> QED
  BY <1>2, <1>3, <1>4, <1>5 DEF IntakeInv

(* DispatchDone: part by part.                                             *)
LEMMA StepDispatchDone == ASSUME IntakeInv, DispatchDone PROVE IntakeInv'
<1>1. ReactInv /\ BatchInv /\ ConnInv /\ LinkInv
  BY DEF IntakeInv
<1>2. ReactInv'
  BY <1>1, ReactFrame DEF DispatchDone, ReactionState, ConnState, reactionVars, linkVars, batchVars
<1>3. BatchInv'
  BY <1>1, BatchFrame DEF DispatchDone, ReactionState, ConnState, reactionVars, linkVars, batchVars
<1>4. ConnInv'
  BY <1>1, ConnEnds DEF DispatchDone, ReactionState, ConnState, reactionVars, linkVars, batchVars
<1>5. LinkInv'
  BY <1>1, LinkFrame DEF DispatchDone, ReactionState, ConnState, reactionVars, linkVars, batchVars
<1> QED
  BY <1>2, <1>3, <1>4, <1>5 DEF IntakeInv

(* Release: part by part.                                                  *)
LEMMA StepRelease == ASSUME IntakeInv, Release PROVE IntakeInv'
<1>1. ReactInv /\ BatchInv /\ ConnInv /\ LinkInv
  BY DEF IntakeInv
<1>2. ReactInv'
  BY <1>1, ReactFrame DEF Release, ReactionState, ConnState, reactionVars, linkVars, batchVars
<1>3. BatchInv'
  BY <1>1, BatchFrame DEF Release, ReactionState, ConnState, reactionVars, linkVars, batchVars
<1>4. ConnInv'
  BY <1>1, ConnEnds DEF Release, ReactionState, ConnState, reactionVars, linkVars, batchVars
<1>5. LinkInv'
  BY <1>1, LinkFrame DEF Release, ReactionState, ConnState, reactionVars, linkVars, batchVars
<1> QED
  BY <1>2, <1>3, <1>4, <1>5 DEF IntakeInv

(* IntentsDrained: part by part.                                           *)
LEMMA StepIntentsDrained == ASSUME IntakeInv, IntentsDrained PROVE IntakeInv'
<1>1. ReactInv /\ BatchInv /\ ConnInv /\ LinkInv
  BY DEF IntakeInv
<1>2. ReactInv'
  BY <1>1, ReactFrame DEF IntentsDrained, ReactionState, ConnState, reactionVars, linkVars, batchVars
<1>3. BatchInv'
  BY <1>1, BatchFrame DEF IntentsDrained, ReactionState, ConnState, reactionVars, linkVars, batchVars
<1>4. ConnInv'
  BY <1>1, ConnEnds DEF IntentsDrained, ReactionState, ConnState, reactionVars, linkVars, batchVars
<1>5. LinkInv'
  BY <1>1, LinkIntentsDrained
<1> QED
  BY <1>2, <1>3, <1>4, <1>5 DEF IntakeInv

(* The steps that only concern the batch.                                  *)
BatchWork ==
    \/ BeginBatch \/ Collect \/ MakeUnique
    \/ \E i \in Items : Prepare(i) \/ Register(i) \/ Offer(i) \/ ExecutorReturns(i)

(* The batch goes on, and nothing else moves.                              *)
LEMMA StepBatchWork == ASSUME IntakeInv, BatchWork PROVE IntakeInv'
<1>1. ReactInv /\ BatchInv /\ ConnInv /\ LinkInv
  BY DEF IntakeInv
<1>2. BatchInv' /\ Onward
  BY <1>1, BatchBeginBatch, BatchCollect, BatchMakeUnique, BatchPrepare, BatchRegister, BatchOffer, BatchExecutorReturns
     DEF BatchWork
<1>3. UNCHANGED <<reactionVars, conn, bus, fwd, linkVars, ran>>
  BY DEF BatchWork, BeginBatch, Collect, MakeUnique, Prepare, Register, Offer, ExecutorReturns
<1>4. ReactInv'
  BY <1>1, <1>3, ReactFrame DEF ReactionState, reactionVars
<1>5. ConnInv'
  BY <1>1, <1>2, <1>3, ConnBatch DEF Onward, linkVars
<1>6. LinkInv'
  BY <1>1, <1>2, <1>3, LinkFrame DEF Onward, linkVars
<1> QED
  BY <1>2, <1>4, <1>5, <1>6 DEF IntakeInv

(* The invariant is inductive.                                             *)
LEMMA Inductive == IntakeInv /\ [Next]_vars => IntakeInv'
<1> SUFFICES ASSUME IntakeInv, [Next]_vars PROVE IntakeInv'
  OBVIOUS
<1>1. CASE UNCHANGED vars
  <2>1. ReactInv /\ BatchInv /\ ConnInv /\ LinkInv
    BY DEF IntakeInv
  <2>2. ReactInv' /\ BatchInv' /\ ConnInv'
    BY <1>1, <2>1, ReactFrame, BatchFrame, ConnFrame DEF vars, ReactionState, ConnState
  <2>3. LinkInv'
    BY <1>1, <2>1, LinkFrame DEF vars
  <2> QED
    BY <2>2, <2>3 DEF IntakeInv
<1>2. CASE Outside
  BY <1>2, StepReact, StepTellAgain, StepNewMessage, StepSubmit, StepLeave, StepStopTrigger, StepStopControl,
     StepStartControl, StepReroute, StepDrop, StepStopWatch, StepStartWatch DEF Outside
<1>3. CASE Internal
  <2>1. CASE \E m \in Messages : OnUpdate(m) \/ EnqueueDownload(m) \/ PublishForward(m)
    BY <2>1, StepOnUpdate, StepEnqueueDownload, StepPublishForward
  <2>2. CASE \E c \in Callers : Send(c) \/ GiveUp(c) \/ Answered(c)
    BY <2>2, StepSend, StepGiveUp, StepAnswered
  <2>3. CASE BatchWork
    BY <2>3, StepBatchWork
  <2>4. CASE TakeForward \/ ForwardProcessed \/ Dispatch \/ ResolveLink \/ AbandonIntent \/ TakeIntent \/ FinishBatch
    BY <2>4, StepTakeForward, StepForwardProcessed, StepDispatch, StepResolveLink, StepAbandonIntent, StepTakeIntent,
       StepFinishBatch
  <2>5. CASE ControlStopped \/ Connect \/ DispatchDone \/ IntentsDrained \/ Release \/ RunEnds
    BY <2>5, StepControlStopped, StepConnect, StepDispatchDone, StepIntentsDrained, StepRelease, StepRunEnds
  <2> QED
    BY <1>3, <2>1, <2>2, <2>3, <2>4, <2>5 DEF Internal, BatchWork
<1> QED
  BY <1>1, <1>2, <1>3 DEF Next

(* It holds at the start.                                                  *)
LEMMA Initial == Init => IntakeInv
<1> SUFFICES ASSUME Init PROVE IntakeInv
  OBVIOUS
<1>1. ReactInv
  <2>1. ReactTypes
    BY DEF Init, ReactTypes, Counts
  <2>2. ASSUME NEW m \in Messages PROVE MsgSound(m, inbox[m], handler[m], got[m], react[m], added[m], trigger, claims)
    <3>1. /\ inbox[m] = <<>> /\ handler[m] = "idle" /\ got[m].total = 0 /\ got[m].window = 0 /\ ~react[m] /\ added[m] = 0
          /\ claims = {} /\ Len(inbox[m]) = 0 /\ 1..Len(inbox[m]) = {}
      BY DEF Init
    <3> QED
      BY <3>1 DEF MsgSound, Told, Owed
  <2> QED
    BY <2>1, <2>2 DEF ReactInv
<1>2. BatchInv
  <2>1. DOMAIN batch = BatchFields /\ batch.at = "idle" /\ batch.item = <<>> /\ DOMAIN batch.item = {}
    BY DEF Init, NoBatch, BatchFields
  <2> QED
    BY <2>1 DEF BatchInv, Items
<1>3. ConnInv
  BY DEF Init, ConnInv, NoBatch
<1>4. LinkInv
  <2>1. /\ call \in [Callers -> CallRec] /\ \A c \in Callers : call[c] = NoCall
    BY DEF Init, NoCall, CallRec
  <2>2. \A c \in Callers : CallSound(c, call[c], 1, 1, {})
    BY <2>1 DEF NoCall, CallSound
  <2>3. CallsSound
    BY <2>1, <2>2 DEF Init, CallsSound
  <2>4. LinksSound /\ BusSound /\ DispSound /\ BatchSound
    BY DEF Init, LinksSound, BusSound, DispSound, BatchSound, NoBatch
  <2> QED
    BY <2>3, <2>4 DEF LinkInv
<1> QED
  BY <1>1, <1>2, <1>3, <1>4 DEF IntakeInv

-----------------------------------------------------------------------------
(* An item that only the executor of its turn took was taken once at most. *)
LEMMA Admitted == BatchInv => AdmittedOnce
<1> SUFFICES ASSUME BatchInv, NEW i \in Items
             PROVE  /\ Cardinality(batch.item[i].took) <= 1
                    /\ batch.item[i].at \in {"failed", "skipped"} => batch.item[i].took = {}
                    /\ batch.item[i].at = "queued" /\ "record" \notin batch.item[i].bad => batch.item[i].took = {Executor(i)}
  BY DEF AdmittedOnce
<1>1. ItemSound(batch.item[i], batch.route)
  BY DEF BatchInv
<1>2. batch.item[i].took \subseteq {Executor(i)}
  BY <1>1 DEF ItemSound, Executor
<1>3. batch.item[i].took = {} \/ batch.item[i].took = {Executor(i)}
  BY <1>2
<1>4. Cardinality(batch.item[i].took) <= 1
  <2>1. CASE batch.item[i].took = {}
    <3>1. Cardinality(batch.item[i].took) = 0
      BY <2>1, FS_EmptySet
    <3> QED
      BY <3>1
  <2>2. CASE batch.item[i].took = {Executor(i)}
    <3>1. Cardinality({Executor(i)}) = 1
      BY FS_Singleton
    <3> QED
      BY <2>2, <3>1
  <2> QED
    BY <1>3, <2>1, <2>2
<1> QED
  BY <1>1, <1>4 DEF ItemSound, Executor, Open, Fresh

(* A message that asks for its download gets it once (app/watch,           *)
(* trigger.reaction, download.control): one intent per reaction, however   *)
(* often it is told, at most one executor per item, whatever the executors *)
(* answer, and nothing over a connection that was released.                *)
THEOREM IntakeSubmittedOnce == Spec => []SubmittedOnce
<1>1. IntakeInv => SubmittedOnce
  <2> SUFFICES ASSUME IntakeInv PROVE SubmittedOnce
    OBVIOUS
  <2>1. AdmittedOnce
    BY Admitted DEF IntakeInv
  <2>2. ReactionOnce
    <3>1. \A m \in Messages : MsgSound(m, inbox[m], handler[m], got[m], react[m], added[m], trigger, claims)
      BY DEF IntakeInv, ReactInv
    <3>2. claims \subseteq Messages /\ (trigger = "stopped" => claims = {})
      BY DEF IntakeInv, ReactInv, ReactTypes
    <3> QED
      BY <3>1, <3>2 DEF ReactionOnce, MsgSound
  <2>3. NothingAfterRelease
    BY DEF IntakeInv, ConnInv, NothingAfterRelease
  <2> QED
    BY <2>1, <2>2, <2>3 DEF SubmittedOnce
<1> QED
  BY <1>1, Initial, Inductive, PTL DEF Spec

-----------------------------------------------------------------------------
(* Loops: what holds before the first step and survives every step holds   *)
(* after the last.                                                         *)

(* The order of the naturals is well founded.                              *)
Less == {ss \in Nat \X Nat : ss[1] < ss[2]}

(* So the theorems on well-founded relations can be used for sets.         *)
LEMMA LessWF == IsWellFoundedOn(Less, Nat)
BY NatLessThanWellFounded, Zenon DEF OpToRel, Less

(* A set of naturals that is not empty has a least one.                    *)
LEMMA LeastNat ==
  ASSUME NEW T, T \subseteq Nat, T # {}
  PROVE  \E x \in T : \A y \in T : x <= y
<1>2. \A a \in Nat, b \in Nat : <<a, b>> \in Less <=> a < b
  BY DEF Less
<1>3. PICK x \in T : \A y \in T : ~ (<<y, x>> \in Less)
  BY LessWF, WFMin
<1>4. ASSUME NEW y \in T PROVE x <= y
  <2>1. x \in Nat /\ y \in Nat
    OBVIOUS
  <2>2. ~(<<y, x>> \in Less)
    BY <1>3
  <2>3. ~(y < x)
    BY <1>2, <2>1, <2>2
  <2> QED
    BY <2>1, <2>3
<1> QED
  BY <1>4

(* Induction up to n: a set that has 0 and, with i - 1, also i.            *)
LEMMA UpTo ==
  ASSUME NEW n \in Nat, NEW G, 0 \in G, \A i \in 1..n : i - 1 \in G => i \in G
  PROVE  0..n \subseteq G
<1> SUFFICES ASSUME NEW bad \in 0..n, bad \notin G PROVE FALSE
  OBVIOUS
<1> DEFINE T == {i \in 0..n : i \notin G}
<1>1. PICK x \in T : \A y \in T : x <= y
  <2>1. T \subseteq Nat /\ bad \in T
    OBVIOUS
  <2> HIDE DEF T
  <2> QED
    BY <2>1, LeastNat
<1>2. x \in 1..n
  OBVIOUS
<1>3. x - 1 \notin T
  BY <1>1, <1>2
<1>4. x - 1 \in G
  BY <1>2, <1>3
<1> QED
  BY <1>1, <1>2, <1>4

(* A run of a loop of n steps on values of a set A has a value for every   *)
(* number of steps done.                                                   *)
IsRun(f, A, base, n, step) ==
    /\ f \in [0..n -> A] /\ f[0] = base
    /\ \A i \in 1..n : f[i] = step[i][f[i - 1]]

(* Every loop has a run.                                                   *)
LEMMA LoopRuns ==
  ASSUME NEW A, NEW base \in A, NEW n \in Nat, NEW step \in [1..n -> [A -> A]]
  PROVE  \E f : IsRun(f, A, base, n, step)
<1> DEFINE Run(f, m) == f[0] = base /\ \A i \in 1..m : f[i] = step[i][f[i - 1]]
           G == {m \in 0..n : \E f \in [0..m -> A] : Run(f, m)}
<1>1. 0 \in G
  <2>1. [i \in 0..0 |-> base] \in [0..0 -> A] /\ Run([i \in 0..0 |-> base], 0)
    OBVIOUS
  <2> HIDE DEF Run
  <2>2. \E f \in [0..0 -> A] : Run(f, 0)
    BY <2>1, Zenon
  <2> QED
    BY <2>2
<1>2. ASSUME NEW i \in 1..n, i - 1 \in G
      PROVE  i \in G
  <2>1. PICK f \in [0..(i - 1) -> A] : Run(f, i - 1)
    BY <1>2
  <2> DEFINE v == step[i][f[i - 1]]
             g == [j \in 0..i |-> IF j = i THEN v ELSE f[j]]
  <2>2. v \in A
    OBVIOUS
  <2>3. g \in [0..i -> A]
    BY <2>2
  <2>4. g[0] = base
    BY <2>1
  <2>5. ASSUME NEW j \in 1..i PROVE g[j] = step[j][g[j - 1]]
    <3>1. CASE j = i
      <4>1. i \in 0..i /\ i - 1 \in 0..i /\ i - 1 # i
        OBVIOUS
      <4>2. g[i] = v /\ g[i - 1] = f[i - 1]
        BY <4>1
      <4> QED
        BY <3>1, <4>2
    <3>2. CASE j # i
      <4>1. j \in 1..(i - 1) /\ j - 1 \in 0..(i - 1)
        BY <3>2
      <4>2. g[j] = f[j] /\ g[j - 1] = f[j - 1]
        BY <3>2, <4>1
      <4> QED
        BY <2>1, <4>1, <4>2
    <3> QED
      BY <3>1, <3>2
  <2>6. Run(g, i)
    BY <2>4, <2>5
  <2> HIDE DEF Run, g
  <2>7. \E h \in [0..i -> A] : Run(h, i)
    BY <2>3, <2>6, Zenon
  <2> QED
    BY <2>7
<1>3. 0..n \subseteq G
  <2> HIDE DEF G
  <2> QED
    BY <1>1, <1>2, UpTo
<1>4. PICK f \in [0..n -> A] : Run(f, n)
  BY <1>3
<1> QED
  BY <1>4 DEF IsRun

(* A bounded set of naturals that is not empty has a greatest one.         *)
LEMMA Greatest ==
  ASSUME NEW n \in Nat, NEW T, T \subseteq 0..n, T # {}
  PROVE  Max(T) \in T /\ \A y \in T : Max(T) >= y
<1> DEFINE D == {n - x : x \in T}
<1>1. D \subseteq Nat /\ D # {}
  <2>1. \A x \in T : x \in 0..n /\ n - x \in Nat
    OBVIOUS
  <2> QED
    BY <2>1
<1>2. PICK d \in D : \A y \in D : d <= y
  <2> HIDE DEF D
  <2> QED
    BY <1>1, LeastNat
<1>3. PICK x \in T : d = n - x
  OBVIOUS
<1>4. ASSUME NEW y \in T PROVE x >= y
  <2>1. n - y \in D
    OBVIOUS
  <2>2. n - x <= n - y
    BY <1>2, <1>3, <2>1
  <2> QED
    BY <2>2
<1> QED
  BY <1>4 DEF Max

(* Ascending has every element of its set once, in order.                  *)
LEMMA AscendingIs ==
  ASSUME NEW S, IsFiniteSet(S), S \subseteq Nat
  PROVE  /\ Cardinality(S) \in Nat
         /\ \A i \in 1..Cardinality(S) : Ascending(S)[i] \in S
         /\ \A x \in S : \E i \in 1..Cardinality(S) : Ascending(S)[i] = x
         /\ \A i, j \in 1..Cardinality(S) : i < j => Ascending(S)[i] < Ascending(S)[j]
<1> DEFINE n == Cardinality(S)
           Upto(x) == {y \in S : y <= x}
           rank == [x \in S |-> Cardinality(Upto(x))]
           s == Ascending(S)
<1>1. n \in Nat /\ \A z \in S : z \in Nat
  BY FS_CardinalityType
<1>2. ASSUME NEW x \in S PROVE rank[x] \in 1..n /\ IsFiniteSet(Upto(x)) /\ rank[x] = Cardinality(Upto(x))
  <2>1. Upto(x) \in SUBSET S /\ x \in Upto(x)
    OBVIOUS
  <2> HIDE DEF Upto
  <2>2. IsFiniteSet(Upto(x)) /\ Cardinality(Upto(x)) <= n
    BY <2>1, FS_Subset
  <2>3. Cardinality(Upto(x)) \in Nat
    BY <2>2, FS_CardinalityType
  <2>4. Cardinality(Upto(x)) # 0
    BY <2>1, <2>2, FS_EmptySet
  <2> HIDE DEF n
  <2> QED
    BY <1>1, <2>2, <2>3, <2>4
<1>3. ASSUME NEW x \in S, NEW y \in S, x < y PROVE rank[x] < rank[y]
  <2>1. Upto(x) \in SUBSET Upto(y) /\ y \in Upto(y) /\ y \notin Upto(x)
    <3>1. x \in Nat /\ y \in Nat /\ \A z \in S : z <= x => z <= y
      BY <1>1, <1>3
    <3>2. y \in Upto(y) /\ ~(y <= x)
      BY <1>3, <3>1
    <3>3. \A z \in Upto(x) : z \in Upto(y)
      BY <3>1
    <3>4. y \notin Upto(x)
      BY <3>2, Zenon
    <3> HIDE DEF Upto
    <3> QED
      BY <3>2, <3>3, <3>4
  <2>2. IsFiniteSet(Upto(y)) /\ IsFiniteSet(Upto(x))
    BY <1>2
  <2>3. rank[x] = Cardinality(Upto(x)) /\ rank[y] = Cardinality(Upto(y)) /\ rank[x] \in Nat /\ rank[y] \in Nat
    BY <1>2
  <2> HIDE DEF Upto, rank
  <2>4. Cardinality(Upto(x)) <= Cardinality(Upto(y)) /\ Cardinality(Upto(x)) # Cardinality(Upto(y))
    BY <2>1, <2>2, FS_Subset
  <2> QED
    BY <2>3, <2>4
<1>4. ASSUME NEW x \in S, NEW y \in S, rank[x] = rank[y] PROVE x = y
  <2>1. rank[x] \in Int /\ rank[y] \in Int
    BY <1>2
  <2> HIDE DEF rank
  <2>2. ~(x < y) /\ ~(y < x)
    BY <1>3, <1>4, <2>1
  <2> QED
    BY <2>2
<1>5. rank \in Surjection(S, 1..n)
  <2>1. IsFiniteSet(1..n) /\ Cardinality(1..n) = n
    <3> HIDE DEF n
    <3>1. 1 \in Int /\ n \in Int /\ (IF 1 > n THEN 0 ELSE n - 1 + 1) = n
      BY <1>1
    <3> QED
      BY <3>1, FS_Interval
  <2>2. rank \in [S -> 1..n]
    BY <1>2
  <2> HIDE DEF rank
  <2>3. rank \in Injection(S, 1..n)
    BY <1>4, <2>2 DEF Injection, IsInjective
  <2> QED
    BY <2>1, <2>3, FS_Injection
<1>6. ASSUME NEW i \in 1..n PROVE s[i] \in S /\ rank[s[i]] = i
  <2>1. \E x \in S : rank[x] = i
    BY <1>5 DEF Surjection
  <2>2. \E x \in S : Cardinality(Upto(x)) = i
    BY <1>2, <2>1
  <2>3. s[i] = CHOOSE x \in S : Cardinality(Upto(x)) = i
    BY DEF Ascending
  <2> HIDE DEF s, Upto
  <2>4. s[i] \in S /\ Cardinality(Upto(s[i])) = i
    BY <2>2, <2>3
  <2> QED
    BY <1>2, <2>4
<1> HIDE DEF rank, s
<1>7. ASSUME NEW x \in S PROVE \E i \in 1..n : s[i] = x
  <2> DEFINE i == rank[x]
  <2>1. i \in 1..n
    BY <1>2
  <2>2. s[i] \in S /\ rank[s[i]] = rank[x]
    BY <1>6, <2>1
  <2>3. s[i] = x
    BY <1>4, <2>2
  <2> QED
    BY <2>1, <2>3
<1>8. ASSUME NEW i \in 1..n, NEW j \in 1..n, i < j PROVE s[i] < s[j]
  <2>1. s[i] \in S /\ s[j] \in S /\ rank[s[i]] = i /\ rank[s[j]] = j
    BY <1>6
  <2>2. s[i] \in Nat /\ s[j] \in Nat
    BY <1>1, <2>1, Zenon
  <2>4. s[i] # s[j]
    BY <1>8, <2>1
  <2>3. ~(s[j] < s[i])
    <3> SUFFICES ASSUME s[j] < s[i] PROVE FALSE
      OBVIOUS
    <3>1. rank[s[j]] < rank[s[i]]
      BY <1>3, <2>1
    <3> QED
      BY <1>8, <2>1, <3>1
  <2> QED
    BY <2>2, <2>3, <2>4
<1> QED
  BY <1>1, <1>6, <1>7, <1>8 DEF s

(* What is kept of a sequence: elements at those places, the last with it. *)
LEMMA OnlyAtIs ==
  ASSUME NEW R, NEW s \in Seq(R), NEW S, S \subseteq 1..Len(s)
  PROVE  /\ OnlyAt(s, S) \in Seq(R) /\ Len(OnlyAt(s, S)) = Cardinality(S)
         /\ \A k \in 1..Len(OnlyAt(s, S)) : \E i \in S : OnlyAt(s, S)[k] = s[i]
         /\ Len(s) \in S => OnlyAt(s, S) # <<>> /\ Last(OnlyAt(s, S)) = s[Len(s)]
<1> DEFINE n == Cardinality(S)
           a == Ascending(S)
           o == OnlyAt(s, S)
<1>1. IsFiniteSet(S) /\ S \subseteq Nat
  <2>1. 1 \in Int /\ Len(s) \in Int
    OBVIOUS
  <2>2. IsFiniteSet(1..Len(s))
    BY <2>1, FS_Interval
  <2>3. S \in SUBSET (1..Len(s))
    OBVIOUS
  <2>4. IsFiniteSet(S)
    BY <2>2, <2>3, FS_Subset
  <2> QED
    BY <2>4
<1>2. /\ n \in Nat /\ \A i \in 1..n : a[i] \in S
      /\ \A x \in S : \E i \in 1..n : a[i] = x
      /\ \A i, j \in 1..n : i < j => a[i] < a[j]
  BY <1>1, AscendingIs
<1> HIDE DEF n, a
<1>3. o = [k \in 1..n |-> s[a[k]]]
  BY DEF OnlyAt, n, a
<1>4. \A i \in S : s[i] \in R /\ i \in 1..Len(s)
  OBVIOUS
<1>5. o \in Seq(R) /\ Len(o) = n /\ \A k \in 1..n : o[k] = s[a[k]]
  <2>1. \A k \in 1..n : s[a[k]] \in R
    BY <1>2, <1>4
  <2> QED
    BY <1>2, <1>3, <2>1
<1> HIDE DEF o
<1>6. ASSUME Len(s) \in S PROVE o # <<>> /\ Last(o) = s[Len(s)]
  <2>1. PICK i \in 1..n : a[i] = Len(s)
    BY <1>2, <1>6
  <2>2. i = n
    <3> SUFFICES ASSUME i < n PROVE FALSE
      BY <1>2
    <3>1. n \in 1..n /\ a[i] < a[n] /\ a[n] \in S
      BY <1>2
    <3>2. a[n] \in 1..Len(s)
      BY <1>4, <3>1, Zenon
    <3>3. Len(s) \in Nat
      OBVIOUS
    <3> QED
      BY <2>1, <3>1, <3>2, <3>3
  <2> QED
    BY <2>1, <2>2, <1>2, <1>5 DEF Last
<1> QED
  BY <1>2, <1>5, <1>6 DEF o, n

-----------------------------------------------------------------------------
(* Lengths and extensions *)

(* Where the wide runes are.                                               *)
WideAt(s) == {k \in DOMAIN s : s[k] \in Wide}

(* The bytes of a name: one for every rune and two more for a wide one.    *)
LEMMA BytesNat ==
  ASSUME NEW R, NEW s \in Seq(R)
  PROVE  IsFiniteSet(WideAt(s)) /\ Bytes(s) \in Nat /\ Bytes(s) = Len(s) + 2 * Cardinality(WideAt(s))
<1>1. Len(s) \in Nat /\ DOMAIN s = 1..Len(s) /\ 1 \in Int /\ Len(s) \in Int
  OBVIOUS
<1>2. IsFiniteSet(DOMAIN s)
  BY <1>1, FS_Interval
<1>3. WideAt(s) \in SUBSET DOMAIN s
  BY DEF WideAt
<1>4. IsFiniteSet(WideAt(s)) /\ Cardinality(WideAt(s)) \in Nat
  BY <1>2, <1>3, FS_Subset, FS_CardinalityType
<1>5. Bytes(s) = Len(s) + 2 * Cardinality(WideAt(s))
  BY DEF Bytes, WideAt
<1> QED
  BY <1>1, <1>4, <1>5

(* Nothing has no bytes.                                                   *)
LEMMA BytesEmpty == Bytes(<<>>) = 0
<1>1. {k \in DOMAIN <<>> : <<>>[k] \in Wide} = {} /\ Len(<<>>) = 0
  OBVIOUS
<1> QED
  BY <1>1, FS_EmptySet DEF Bytes

(* The lengths of two names put together add up.                           *)
LEMMA BytesJoin ==
  ASSUME NEW R, NEW s \in Seq(R), NEW t \in Seq(R)
  PROVE  Bytes(s \o t) = Bytes(s) + Bytes(t)
<1> DEFINE a == Len(s)
           b == Len(t)
           st == s \o t
           A == WideAt(s)
           B == WideAt(t)
           C == {a + k : k \in B}
           shift == [k \in B |-> a + k]
<1>1. /\ a \in Nat /\ b \in Nat /\ st \in Seq(R) /\ Len(st) = a + b /\ DOMAIN s = 1..a /\ DOMAIN t = 1..b
      /\ DOMAIN st = 1..(a + b) /\ \A k \in 1..a : st[k] = s[k]
  OBVIOUS
<1>2. \A k \in 1..b : st[a + k] = t[k]
  OBVIOUS
<1>3. IsFiniteSet(A) /\ IsFiniteSet(B) /\ Bytes(s) = a + 2 * Cardinality(A) /\ Bytes(t) = b + 2 * Cardinality(B)
  BY BytesNat
<1>4. Bytes(st) = a + b + 2 * Cardinality(WideAt(st))
  BY <1>1, BytesNat
<1>5. \A k \in A : k \in 1..a
  BY <1>1 DEF WideAt
<1>6. \A k \in B : k \in 1..b
  BY <1>1 DEF WideAt
<1> HIDE DEF a, b, st
<1>7. WideAt(st) = A \cup C
  <2>1. ASSUME NEW k \in WideAt(st) PROVE k \in A \cup C
    <3>1. k \in 1..(a + b) /\ st[k] \in Wide
      BY <1>1 DEF WideAt
    <3>2. CASE k \in 1..a
      BY <1>1, <3>1, <3>2 DEF WideAt
    <3>3. CASE k \notin 1..a
      <4> DEFINE j == k - a
      <4>1. j \in 1..b /\ a + j = k
        BY <1>1, <3>1, <3>3
      <4> HIDE DEF j
      <4>2. j \in B
        BY <1>1, <1>2, <3>1, <4>1 DEF WideAt
      <4>3. k \in C
        BY <4>1, <4>2
      <4> QED
        BY <4>3
    <3> QED
      BY <3>2, <3>3
  <2>2. ASSUME NEW k \in A PROVE k \in WideAt(st)
    BY <1>1, <1>5 DEF WideAt
  <2>3. ASSUME NEW k \in C PROVE k \in WideAt(st)
    <3>1. PICK j \in B : k = a + j
      OBVIOUS
    <3>2. j \in 1..b /\ t[j] \in Wide
      BY <1>1 DEF WideAt
    <3>3. k \in 1..(a + b) /\ st[k] \in Wide
      BY <1>1, <1>2, <3>1, <3>2
    <3> QED
      BY <1>1, <3>3 DEF WideAt
  <2> HIDE DEF A, C
  <2> QED
    BY <2>1, <2>2, <2>3
<1> HIDE DEF A, B
<1>8. shift \in Bijection(B, C)
  <2>1. shift \in [B -> C] /\ \A k \in B : shift[k] = a + k
    OBVIOUS
  <2>2. \A j, k \in B : shift[j] = shift[k] => j = k
    BY <1>1, <1>6, <2>1
  <2>3. \A c \in C : \E k \in B : shift[k] = c
    BY <2>1
  <2> HIDE DEF shift, C
  <2> QED
    BY <2>1, <2>2, <2>3 DEF Bijection, Injection, Surjection, IsInjective
<1>9. IsFiniteSet(C) /\ Cardinality(C) = Cardinality(B)
  <2> HIDE DEF shift, C
  <2>1. ExistsBijection(B, C)
    BY <1>8 DEF ExistsBijection
  <2> QED
    BY <1>3, <2>1, FS_Bijection
<1>10. A \cap C = {}
  <2>1. \A k \in B : a + k \notin A
    BY <1>1, <1>5, <1>6
  <2> QED
    BY <2>1
<1>11. Cardinality(A \cup C) = Cardinality(A) + Cardinality(C) - Cardinality(A \cap C)
  <2> HIDE DEF C
  <2> QED
    BY <1>3, <1>9, FS_Union
<1>12. Cardinality(A \cap C) = 0
  BY <1>10, FS_EmptySet
<1>13. Cardinality(A) \in Nat /\ Cardinality(B) \in Nat
  BY <1>3, FS_CardinalityType
<1> HIDE DEF C
<1>14. Cardinality(WideAt(st)) = Cardinality(A) + Cardinality(B)
  BY <1>7, <1>9, <1>11, <1>12, <1>13
<1> QED
  BY <1>1, <1>3, <1>4, <1>13, <1>14 DEF st

(* A truncated name is within its limit.                                   *)
LEMMA TruncateIs ==
  ASSUME NEW R, NEW s \in Seq(R), NEW max \in Nat
  PROVE  Truncate(s, max) \in Seq(R) /\ Bytes(Truncate(s, max)) <= max
<1> DEFINE T == {0} \cup {k \in 1..Len(s) : Bytes(SubSeq(s, 1, k)) <= max}
           m == Max(T)
<1>1. Len(s) \in Nat /\ T \subseteq 0..Len(s) /\ T # {}
  OBVIOUS
<1>2. m \in T
  <2> HIDE DEF T
  <2> QED
    BY <1>1, Greatest
<1>3. Truncate(s, max) = SubSeq(s, 1, m)
  BY DEF Truncate
<1> HIDE DEF m
<1>4. m \in 0..Len(s)
  BY <1>1, <1>2
<1>5. SubSeq(s, 1, m) \in Seq(R)
  BY <1>4
<1>6. CASE m = 0
  <2>1. SubSeq(s, 1, m) = <<>>
    BY <1>6
  <2> QED
    <3>1. Truncate(s, max) = <<>> /\ Truncate(s, max) \in Seq(R)
      BY <1>3, <1>5, <2>1
    <3>2. Bytes(Truncate(s, max)) = 0
      BY <3>1, BytesEmpty
    <3> QED
      BY <3>1, <3>2
<1>7. CASE m # 0
  <2>1. Bytes(SubSeq(s, 1, m)) <= max
    BY <1>2, <1>7
  <2> HIDE DEF T
  <2> QED
    BY <1>3, <1>5, <2>1
<1> QED
  BY <1>6, <1>7

(* A suffix is what a name ends with.                                      *)
LEMMA SuffixMeans ==
  ASSUME NEW R, NEW s \in Seq(R), NEW t \in Seq(R)
  PROVE  IsSuffix(s, t) <=> Len(s) <= Len(t) /\ \A i \in 1..Len(s) : t[Len(t) - Len(s) + i] = s[i]
<1> DEFINE a == Len(s)
           b == Len(t)
           u == Reverse(s)
           v == Reverse(t)
<1>1. a \in Nat /\ b \in Nat
  OBVIOUS
<1>2. /\ u \in Seq(R) /\ Len(u) = a /\ \A i \in 1..a : u[i] = s[a - i + 1]
      /\ v \in Seq(R) /\ Len(v) = b /\ \A i \in 1..b : v[i] = t[b - i + 1]
  BY DEF Reverse
<1>3. IsSuffix(s, t) <=> Len(u) <= Len(v) /\ SubSeq(u, 1, Len(u)) = SubSeq(v, 1, Len(u))
  BY DEF IsSuffix, IsPrefix
<1> HIDE DEF a, b, u, v
<1>4. ASSUME a <= b
      PROVE  SubSeq(u, 1, a) = SubSeq(v, 1, a) <=> \A i \in 1..a : t[b - a + i] = s[i]
  <2>1. /\ SubSeq(u, 1, a) \in Seq(R) /\ Len(SubSeq(u, 1, a)) = a /\ \A i \in 1..a : SubSeq(u, 1, a)[i] = u[i]
        /\ SubSeq(v, 1, a) \in Seq(R) /\ Len(SubSeq(v, 1, a)) = a /\ \A i \in 1..a : SubSeq(v, 1, a)[i] = v[i]
    BY <1>1, <1>2, <1>4
  <2>2. SubSeq(u, 1, a) = SubSeq(v, 1, a) <=> \A i \in 1..a : u[i] = v[i]
    BY <2>1
  <2>3. ASSUME \A i \in 1..a : u[i] = v[i], NEW i \in 1..a PROVE t[b - a + i] = s[i]
    <3> DEFINE j == a - i + 1
    <3>1. j \in 1..a /\ j \in 1..b /\ a - j + 1 = i /\ b - j + 1 = b - a + i
      BY <1>1, <1>4
    <3> HIDE DEF j
    <3>2. u[j] = v[j] /\ u[j] = s[a - j + 1] /\ v[j] = t[b - j + 1]
      BY <1>2, <2>3, <3>1
    <3> QED
      BY <3>1, <3>2
  <2>4. ASSUME \A i \in 1..a : t[b - a + i] = s[i], NEW i \in 1..a PROVE u[i] = v[i]
    <3> DEFINE j == a - i + 1
    <3>1. j \in 1..a /\ i \in 1..b /\ a - i + 1 = j /\ b - i + 1 = b - a + j
      BY <1>1, <1>4
    <3> HIDE DEF j
    <3>2. t[b - a + j] = s[j] /\ u[i] = s[a - i + 1] /\ v[i] = t[b - i + 1]
      BY <1>2, <2>4, <3>1
    <3> QED
      BY <3>1, <3>2
  <2> QED
    BY <2>2, <2>3, <2>4
<1> QED
  BY <1>1, <1>2, <1>3, <1>4 DEF a, b

(* What is appended is a suffix.                                           *)
LEMMA SuffixOfJoin ==
  ASSUME NEW R, NEW s \in Seq(R), NEW e \in Seq(R)
  PROVE  s \o e \in Seq(R) /\ IsSuffix(e, s \o e)
<1>1. s \o e \in Seq(R) /\ Len(s \o e) = Len(s) + Len(e) /\ Len(s) \in Nat /\ Len(e) \in Nat
  OBVIOUS
<1>2. \A i \in 1..Len(e) : (s \o e)[Len(s) + i] = e[i]
  OBVIOUS
<1>3. \A i \in 1..Len(e) : (s \o e)[Len(s \o e) - Len(e) + i] = e[i]
  <2>1. Len(s \o e) - Len(e) = Len(s)
    BY <1>1
  <2> QED
    BY <1>2, <2>1
<1>4. Len(e) <= Len(s \o e)
  BY <1>1
<1> DEFINE t == s \o e
<1> HIDE DEF t
<1>5. t \in Seq(R) /\ Len(e) <= Len(t) /\ \A i \in 1..Len(e) : t[Len(t) - Len(e) + i] = e[i]
  BY <1>1, <1>3, <1>4 DEF t
<1>6. IsSuffix(e, t)
  BY <1>5, SuffixMeans
<1> QED
  BY <1>1, <1>6 DEF t

(* A name falls into its stem and its extension.                           *)
LEMMA ExtIs ==
  ASSUME NEW R, NEW s \in Seq(R)
  PROVE  Ext(s) \in Seq(R) /\ Stem(s) \in Seq(R)
<1> DEFINE dots == {k \in DOMAIN s : s[k] = "."}
           m == Max(dots)
<1>1. Len(s) \in Nat /\ DOMAIN s = 1..Len(s)
  OBVIOUS
<1>2. CASE dots = {}
  <2>1. Ext(s) = <<>>
    BY <1>2 DEF Ext
  <2>2. Stem(s) = SubSeq(s, 1, Len(s) - 0)
    BY <2>1 DEF Stem
  <2> QED
    BY <1>1, <2>1, <2>2
<1>3. CASE dots # {}
  <2>1. m \in dots
    <3>1. dots \subseteq 0..Len(s)
      BY <1>1
    <3> HIDE DEF dots
    <3> QED
      BY <1>1, <1>3, <3>1, Greatest
  <2>2. Ext(s) = SubSeq(s, m, Len(s))
    BY <1>3 DEF Ext
  <2> HIDE DEF m
  <2>3. m \in 1..Len(s)
    BY <1>1, <2>1
  <2>4. Ext(s) \in Seq(R) /\ Len(Ext(s)) = Len(s) - m + 1
    BY <1>1, <2>2, <2>3
  <2> DEFINE x == Ext(s)
  <2> HIDE DEF x
  <2>5. Stem(s) = SubSeq(s, 1, Len(s) - Len(x)) /\ Len(s) - Len(x) \in 0..Len(s)
    BY <1>1, <2>3, <2>4 DEF Stem, x
  <2>6. Stem(s) \in Seq(R)
    BY <1>1, <2>5
  <2> QED
    BY <2>4, <2>6
<1> QED
  BY <1>2, <1>3

(* A name that ends with an extension has that extension.                  *)
LEMMA ExtOfSuffix ==
  ASSUME NEW s \in Seq(Runes), NEW e \in Extensions, e # <<>>, IsSuffix(e, s)
  PROVE  Ext(s) = e
<1> DEFINE a == Len(e)
           n == Len(s)
           dots == {k \in DOMAIN s : s[k] = "."}
           m == n - a + 1
<1>1. /\ e \in Seq(Runes) /\ a \in Nat /\ a > 0 /\ n \in Nat /\ DOMAIN s = 1..n
      /\ e[1] = "." /\ \A k \in 2..a : e[k] # "."
  BY DEF Extensions
<1>2. a <= n /\ \A i \in 1..a : s[n - a + i] = e[i]
  BY <1>1, SuffixMeans
<1> HIDE DEF a, n
<1>3. m \in dots /\ dots \subseteq 0..n
  <2>1. m \in 1..n /\ 1 \in 1..a /\ m = n - a + 1
    BY <1>1, <1>2
  <2>2. s[n - a + 1] = e[1]
    BY <1>2, <2>1
  <2> QED
    BY <1>1, <2>1, <2>2
<1>4. ASSUME NEW k \in dots PROVE k <= m
  <2> SUFFICES ASSUME k > m PROVE FALSE
    BY <1>1
  <2> DEFINE i == k - (n - a)
  <2>1. k \in 1..n /\ s[k] = "."
    BY <1>1
  <2>2. i \in 2..a /\ i \in 1..a /\ n - a + i = k
    BY <1>1, <1>2, <2>1
  <2> HIDE DEF i
  <2>3. s[k] = e[i]
    BY <1>2, <2>2
  <2> QED
    BY <1>1, <2>1, <2>2, <2>3
<1>5. Max(dots) = m
  <2>1. Max(dots) \in dots /\ \A y \in dots : Max(dots) >= y
    <3> HIDE DEF dots, m
    <3> QED
      BY <1>1, <1>3, Greatest
  <2>2. Max(dots) >= m /\ Max(dots) <= m /\ m \in Int /\ Max(dots) \in Int
    <3>1. m \in Int
      BY <1>1
    <3>2. Max(dots) \in 0..n
      BY <1>3, <2>1
    <3> QED
      BY <1>3, <1>4, <2>1, <3>1, <3>2
  <2> QED
    BY <2>2
<1>6. Ext(s) = SubSeq(s, m, n)
  <2>1. dots # {}
    BY <1>3
  <2>2. Ext(s) = SubSeq(s, Max(dots), Len(s))
    BY <2>1 DEF Ext
  <2> QED
    BY <1>5, <2>2 DEF n
<1> HIDE DEF dots
<1>7. /\ SubSeq(s, m, n) \in Seq(Runes) /\ Len(SubSeq(s, m, n)) = a
      /\ \A i \in 1..a : SubSeq(s, m, n)[i] = s[m + i - 1]
  <2>1. m \in 1..n /\ n - m + 1 = a
    BY <1>1, <1>2
  <2> HIDE DEF m
  <2>2. SubSeq(s, m, n) \in Seq(Runes) /\ Len(SubSeq(s, m, n)) = n - m + 1
        /\ \A i \in 1..(n - m + 1) : SubSeq(s, m, n)[i] = s[m + i - 1]
    BY <1>1, <2>1 DEF n
  <2> QED
    BY <2>1, <2>2
<1> DEFINE x == SubSeq(s, m, n)
<1>8. \A i \in 1..a : x[i] = e[i]
  <2> SUFFICES ASSUME NEW i \in 1..a PROVE x[i] = e[i]
    OBVIOUS
  <2>1. m + i - 1 = n - a + i
    BY <1>1
  <2>2. x[i] = s[m + i - 1]
    BY <1>7
  <2> HIDE DEF x, m
  <2> QED
    BY <1>2, <2>1, <2>2
<1> HIDE DEF x
<1>9. x = e
  BY <1>1, <1>7, <1>8 DEF x, a
<1> QED
  BY <1>6, <1>9 DEF x

(* A limited segment is within the limit and keeps its extension.          *)
LEMMA LimitIs ==
  ASSUME NEW s \in Seq(Runes), NEW max \in Nat
  PROVE  /\ LimitSegment(s, max) \in Seq(Runes) /\ Bytes(LimitSegment(s, max)) <= max
         /\ \A e \in Extensions : IsSuffix(e, s) /\ Bytes(e) < max => IsSuffix(e, LimitSegment(s, max))
<1> DEFINE x == Ext(s)
           cut == Truncate(Stem(s), max - Bytes(x))
           l == LimitSegment(s, max)
<1>1. x \in Seq(Runes) /\ Stem(s) \in Seq(Runes)
  BY ExtIs
<1>2. Bytes(s) \in Nat /\ Bytes(x) \in Nat
  BY <1>1, BytesNat
<1>3. \A t \in Seq(Runes) : IsSuffix(<<>>, t)
  <2> SUFFICES ASSUME NEW t \in Seq(Runes) PROVE IsSuffix(<<>>, t)
    OBVIOUS
  <2>1. <<>> \in Seq(Runes) /\ Len(<<>>) <= Len(t) /\ \A i \in 1..Len(<<>>) : t[Len(t) - Len(<<>>) + i] = <<>>[i]
    OBVIOUS
  <2> QED
    BY <2>1, SuffixMeans
<1>4. CASE Bytes(s) <= max
  <2>1. l = s
    BY <1>2, <1>4 DEF LimitSegment
  <2> QED
    BY <1>4, <2>1
<1>5. CASE Bytes(s) > max /\ x # <<>> /\ Bytes(x) < max
  <2>1. l = cut \o x
    BY <1>2, <1>5 DEF LimitSegment
  <2>2. max - Bytes(x) \in Nat
    BY <1>2, <1>5
  <2>3. cut \in Seq(Runes) /\ Bytes(cut) <= max - Bytes(x)
    BY <1>1, <2>2, TruncateIs
  <2> HIDE DEF cut, l
  <2>4. Bytes(cut) \in Nat /\ Bytes(cut \o x) = Bytes(cut) + Bytes(x)
    BY <1>1, <2>3, BytesNat, BytesJoin
  <2>5. Bytes(l) <= max
    BY <1>2, <2>1, <2>3, <2>4
  <2>6. l \in Seq(Runes) /\ IsSuffix(x, l)
    BY <1>1, <2>1, <2>3, SuffixOfJoin
  <2>7. \A e \in Extensions : IsSuffix(e, s) => IsSuffix(e, l)
    <3> SUFFICES ASSUME NEW e \in Extensions, IsSuffix(e, s) PROVE IsSuffix(e, l)
      OBVIOUS
    <3>1. CASE e = <<>>
      BY <1>3, <2>6, <3>1
    <3>2. CASE e # <<>>
      <4>1. x = e
        BY <3>2, ExtOfSuffix
      <4> QED
        BY <2>6, <4>1
    <3> QED
      BY <3>1, <3>2
  <2> QED
    BY <2>5, <2>6, <2>7 DEF l
<1>6. CASE Bytes(s) > max /\ ~(x # <<>> /\ Bytes(x) < max)
  <2>1. l = Truncate(s, max)
    BY <1>2, <1>6 DEF LimitSegment
  <2>2. l \in Seq(Runes) /\ Bytes(l) <= max
    BY <2>1, TruncateIs
  <2> HIDE DEF l
  <2>3. \A e \in Extensions : IsSuffix(e, s) /\ Bytes(e) < max => IsSuffix(e, l)
    <3> SUFFICES ASSUME NEW e \in Extensions, IsSuffix(e, s), Bytes(e) < max PROVE IsSuffix(e, l)
      OBVIOUS
    <3>1. CASE e = <<>>
      BY <1>3, <2>2, <3>1
    <3>2. CASE e # <<>>
      <4>1. x = e
        BY <3>2, ExtOfSuffix
      <4> QED
        BY <1>6, <3>2, <4>1
    <3> QED
      BY <3>1, <3>2
  <2> QED
    BY <2>2, <2>3 DEF l
<1> QED
  BY <1>2, <1>4, <1>5, <1>6

-----------------------------------------------------------------------------
(* Templates *)

(* What the constants are.                                                 *)
LEMMA NamingConstants ==
  /\ MaxBytes \in Nat /\ MaxBytes > 0 /\ TitleMax \in Nat /\ TitleTail \in Nat
  /\ Filename \in Seq(Seq(Runes)) /\ Filename # <<>> /\ Directory \in Seq(Seq(Runes))
  /\ Marker \in Seq(Runes) /\ Len(Marker) = 3 /\ Untitled \in Seq(Runes) /\ Untitled \notin Dots
  /\ "u" \notin Wide
<1>1. MaxBytes \in Nat /\ MaxBytes > 0 /\ TitleMax \in Nat /\ TitleTail \in Nat
  BY NamingAssumption, Zenon
<1>2. Filename \in Seq(Seq(Runes)) /\ Filename # <<>> /\ Directory \in Seq(Seq(Runes))
  BY NamingAssumption, Zenon
<1>3. "." \in Runes /\ "u" \in Runes /\ "u" \notin Wide
  BY NamingAssumption, Zenon
<1>4. Marker \in Seq(Runes) /\ Len(Marker) = 3
  BY <1>3 DEF Marker
<1>5. Untitled \in Seq(Runes) /\ Len(Untitled) = 1 /\ Untitled[1] = "u"
  BY <1>3 DEF Untitled
<1>6. Untitled \notin Dots
  <2>1. Untitled # <<>> /\ Untitled # <<".", ".">>
    BY <1>5
  <2>2. Untitled # <<".">>
    <3>1. <<".">>[1] = "." /\ "." # "u"
      OBVIOUS
    <3> QED
      BY <1>5, <3>1
  <2> QED
    BY <2>1, <2>2 DEF Dots
<1> QED
  BY <1>1, <1>2, <1>3, <1>4, <1>5, <1>6

(* A title is made of the runes of the text, the marker or "untitled".     *)
LEMMA TitleIs ==
  ASSUME NEW text \in Seq(Runes), NEW max \in Int
  PROVE  Title(text, max) \in Seq(Runes)
<1>1. ASSUME NEW s \in Seq(Runes), max > 0 PROVE LimitRunes(s, max) \in Seq(Runes)
  <2> DEFINE room == max - Len(Marker)
             half == room \div 2
             tail == Min({TitleTail, half})
             head == room - tail
  <2>1. Len(Marker) = 3 /\ Marker \in Seq(Runes) /\ TitleTail \in Nat /\ Len(s) \in Nat
    BY NamingConstants
  <2>2. CASE Len(s) <= max
    <3>1. LimitRunes(s, max) = s
      BY <2>1, <2>2 DEF LimitRunes
    <3> QED
      BY <3>1
  <2>3. CASE Len(s) > max /\ max <= Len(Marker) + 1
    <3>1. LimitRunes(s, max) = SubSeq(s, 1, max)
      BY <2>1, <2>3 DEF LimitRunes
    <3>2. max \in 0..Len(s)
      BY <1>1, <2>1, <2>3
    <3> QED
      BY <3>1, <3>2
  <2>4. CASE Len(s) > max /\ ~(max <= Len(Marker) + 1)
    <3>1. LimitRunes(s, max) = SubSeq(s, 1, head) \o Marker \o SubSeq(s, Len(s) - tail + 1, Len(s))
      <4>1. ~(Len(s) <= max) /\ ~(Len(s) > max /\ max <= Len(Marker) + 1)
        BY <2>1, <2>4
      <4> QED
        BY <4>1, Zenon DEF LimitRunes
    <3>2. room \in Nat /\ half \in Nat /\ half <= room /\ room <= Len(s)
      BY <2>1, <2>4
    <3>3. tail \in Nat /\ tail <= half
      <4> HIDE DEF half
      <4>1. CASE TitleTail <= half
        <5>1. tail = TitleTail
          BY <2>1, <3>2, <4>1 DEF Min
        <5> QED
          BY <2>1, <4>1, <5>1
      <4>2. CASE ~(TitleTail <= half)
        <5>1. tail = half
          BY <2>1, <3>2, <4>2 DEF Min
        <5> QED
          BY <3>2, <5>1
      <4> QED
        BY <4>1, <4>2
    <3> HIDE DEF half, tail, room
    <3>4. head \in 0..Len(s) /\ Len(s) - tail + 1 \in 1..(Len(s) + 1)
      BY <2>1, <3>2, <3>3
    <3> HIDE DEF head
    <3>5. SubSeq(s, 1, head) \in Seq(Runes)
      BY <3>4
    <3>6. SubSeq(s, Len(s) - tail + 1, Len(s)) \in Seq(Runes)
      BY <2>1, <3>4
    <3> DEFINE x == SubSeq(s, 1, head)
               y == SubSeq(s, Len(s) - tail + 1, Len(s))
    <3> HIDE DEF x, y
    <3>7. x \in Seq(Runes) /\ y \in Seq(Runes)
      BY <3>5, <3>6 DEF x, y
    <3>8. x \o Marker \o y \in Seq(Runes)
      BY <2>1, <3>7
    <3> QED
      BY <3>1, <3>8 DEF x, y
  <2> QED
    BY <2>1, <2>2, <2>3, <2>4
<1> DEFINE kept == OnlyAt(text, {k \in DOMAIN text : text[k] \in TitleRunes})
           whole == IF kept = <<>> THEN Untitled ELSE kept
<1>2. whole \in Seq(Runes)
  <2> DEFINE S == {k \in DOMAIN text : text[k] \in TitleRunes}
  <2>1. S \subseteq 1..Len(text)
    OBVIOUS
  <2> HIDE DEF S
  <2>2. OnlyAt(text, S) \in Seq(Runes)
    BY <2>1, OnlyAtIs
  <2> QED
    BY <2>2, NamingConstants DEF S
<1>3. Title(text, max) = IF max <= 0 THEN <<>> ELSE LimitRunes(whole, max)
  BY DEF Title
<1> HIDE DEF whole
<1>4. CASE max <= 0
  <2>1. Title(text, max) = <<>>
    BY <1>3, <1>4
  <2> QED
    BY <2>1
<1>5. CASE ~(max <= 0)
  <2>1. Title(text, max) = LimitRunes(whole, max) /\ max > 0
    BY <1>3, <1>5
  <2> QED
    BY <1>1, <1>2, <2>1
<1> QED
  BY <1>4, <1>5

(* A segment of a template expands to runes.                               *)
LEMMA ExpandIs ==
  ASSUME NEW segment \in Seq(Runes), NEW d \in Media, NEW max \in Int
  PROVE  Expand(segment, d, max) \in Seq(Runes)
<1> DEFINE n == Len(segment)
           A == Seq(Runes)
           b == <<>>
           Cat(a, i) == a \o Value(segment[i], d, max)
           Body(f) == [i \in 0..n |-> IF i = 0 THEN b ELSE Cat(f[i - 1], i)]
           u == CHOOSE f : f = Body(f)
           step == [i \in 1..n |-> [a \in A |-> Cat(a, i)]]
<1>1. n \in Nat /\ b \in A
  OBVIOUS
<1>2. ASSUME NEW i \in 1..n, NEW a \in A PROVE Cat(a, i) \in A
  <2>1. segment[i] \in Runes /\ d.stem \in Seq(Runes) /\ d.text \in Seq(Runes)
    BY DEF Media
  <2>2. Title(d.text, max) \in Seq(Runes) /\ <<segment[i]>> \in Seq(Runes)
    <3>1. PICK text \in Seq(Runes) : d.text = text
      BY <2>1
    <3>2. Title(text, max) \in Seq(Runes)
      BY TitleIs
    <3> QED
      BY <2>1, <3>1, <3>2
  <2>3. Value(segment[i], d, max) \in Seq(Runes)
    BY <2>1, <2>2 DEF Value
  <2> QED
    BY <2>3
<1>3. Expand(segment, d, max) = u[n]
  BY DEF Expand
<1>4. (\E f : f = Body(f)) => u = Body(u)
  BY Zenon
<1> HIDE DEF A, n, b, Cat, u
<1>5. step \in [1..n -> [A -> A]] /\ \A i \in 1..n, a \in A : step[i][a] = Cat(a, i)
  BY <1>2
<1> HIDE DEF step
<1>6. PICK f : IsRun(f, A, b, n, step)
  BY <1>1, <1>5, LoopRuns
<1>7. f = Body(f)
  <2>1. ASSUME NEW i \in 1..n PROVE f[i] = Cat(f[i - 1], i)
    <3>1. i - 1 \in 0..n
      BY <1>1
    <3>2. f[i - 1] \in A
      BY <1>6, <3>1 DEF IsRun
    <3> QED
      BY <1>5, <1>6, <3>2 DEF IsRun
  <2>2. \A i \in 0..n : f[i] = Body(f)[i]
    BY <1>1, <1>6, <2>1 DEF IsRun
  <2> QED
    BY <1>6, <2>2 DEF IsRun
<1>8. u = Body(u)
  BY <1>4, <1>7
<1>9. u[0] = b /\ \A i \in 1..n : u[i] = Cat(u[i - 1], i)
  <2>1. \A i \in 0..n : Body(u)[i] = IF i = 0 THEN b ELSE Cat(u[i - 1], i)
    OBVIOUS
  <2> HIDE DEF Body
  <2>2. \A i \in 0..n : u[i] = IF i = 0 THEN b ELSE Cat(u[i - 1], i)
    BY <1>8, <2>1
  <2> QED
    BY <1>1, <2>2
<1> DEFINE G == {i \in 0..n : u[i] \in A}
<1>10. 0..n \subseteq G
  <2>1. 0 \in G
    BY <1>1, <1>9
  <2>2. ASSUME NEW i \in 1..n, i - 1 \in G PROVE i \in G
    BY <1>1, <1>2, <1>9, <2>2
  <2> HIDE DEF G
  <2> QED
    BY <1>1, <2>1, <2>2, UpTo
<1>11. u[n] \in A
  <2>1. n \in G
    BY <1>1, <1>10
  <2> QED
    BY <2>1
<1> QED
  BY <1>3, <1>11 DEF A

(* A rendered name ends with the extension of its file.                    *)
LEMMA RenderedIs ==
  ASSUME NEW d \in Media, NEW max \in Int
  PROVE  /\ Rendered(d, max) \in Seq(Seq(Runes)) /\ Rendered(d, max) # <<>>
         /\ Last(Rendered(d, max)) \in Seq(Runes) /\ IsSuffix(d.ext, Last(Rendered(d, max)))
<1> DEFINE path == [k \in DOMAIN Filename |-> Expand(Filename[k], d, max)]
           leaf == Last(path)
           name == IF d.ext # <<>> /\ ~IsSuffix(d.ext, leaf) THEN leaf \o d.ext ELSE leaf
           r == Rendered(d, max)
<1>1. Filename \in Seq(Seq(Runes)) /\ Filename # <<>>
  BY NamingConstants
<1>2. Len(Filename) \in Nat /\ Len(Filename) > 0 /\ DOMAIN Filename = 1..Len(Filename)
  BY <1>1
<1>3. \A k \in 1..Len(Filename) : Expand(Filename[k], d, max) \in Seq(Runes)
  <2> SUFFICES ASSUME NEW k \in 1..Len(Filename) PROVE Expand(Filename[k], d, max) \in Seq(Runes)
    OBVIOUS
  <2>1. PICK segment \in Seq(Runes) : Filename[k] = segment
    BY <1>1
  <2>2. Expand(segment, d, max) \in Seq(Runes)
    BY ExpandIs
  <2> QED
    BY <2>1, <2>2
<1>4. path \in Seq(Seq(Runes)) /\ Len(path) = Len(Filename)
  BY <1>2, <1>3
<1>5. r = Front(path) \o <<name>>
  BY DEF Rendered
<1> HIDE DEF path, r
<1>6. leaf \in Seq(Runes) /\ Front(path) \in Seq(Seq(Runes))
  BY <1>2, <1>4 DEF Last, Front
<1>7. d.ext \in Seq(Runes)
  BY DEF Media, Extensions
<1> HIDE DEF leaf
<1>8. name \in Seq(Runes) /\ IsSuffix(d.ext, name)
  <2>1. leaf \o d.ext \in Seq(Runes) /\ IsSuffix(d.ext, leaf \o d.ext)
    BY <1>6, <1>7, SuffixOfJoin
  <2>2. ASSUME d.ext = <<>> PROVE IsSuffix(d.ext, leaf)
    <3>1. Len(d.ext) <= Len(leaf) /\ \A i \in 1..Len(d.ext) : leaf[Len(leaf) - Len(d.ext) + i] = d.ext[i]
      BY <1>6, <2>2
    <3> QED
      BY <1>6, <1>7, <3>1, SuffixMeans
  <2> QED
    BY <1>6, <2>1, <2>2
<1> HIDE DEF name
<1> DEFINE f == Front(path)
<1> HIDE DEF f
<1>9. f \in Seq(Seq(Runes)) /\ r = f \o <<name>> /\ <<name>> \in Seq(Seq(Runes))
  BY <1>5, <1>6, <1>8 DEF f
<1>10. r \in Seq(Seq(Runes)) /\ Len(r) = Len(f) + 1 /\ Len(f) \in Nat
  BY <1>9
<1>11. r[Len(f) + 1] = name
  BY <1>9
<1>12. Last(r) = name
  BY <1>10, <1>11 DEF Last
<1>13. r # <<>>
  BY <1>10
<1> QED
  BY <1>8, <1>10, <1>12, <1>13 DEF r

(* The search finds a title that fits, or none.                            *)
LEMMA SearchFinds ==
  ASSUME NEW d \in Media
  PROVE  LongestTitle(d) = -1 \/ (LongestTitle(d) \in Int /\ Fits(d, LongestTitle(d)))
<1> DEFINE n == TitleMax + 1
           B == {m \in Int : m = -1 \/ Fits(d, m)}
           A == [low : Int, high : Int, best : B]
           b == [low |-> 0, high |-> TitleMax, best |-> -1]
           Body(f) == [i \in 0..n |-> IF i = 0 THEN b ELSE Search(d, f[i - 1])]
           u == CHOOSE f : f = Body(f)
           step == [i \in 1..n |-> [a \in A |-> Search(d, a)]]
<1>1. n \in Nat /\ b \in A
  <2>1. TitleMax \in Nat
    BY NamingConstants
  <2>2. -1 \in B
    OBVIOUS
  <2> HIDE DEF B
  <2> QED
    BY <2>1, <2>2
<1>2. ASSUME NEW a \in A PROVE Search(d, a) \in A
  <2> DEFINE mid == (a.low + a.high) \div 2
  <2>1. a.low \in Int /\ a.high \in Int /\ mid \in Int
    OBVIOUS
  <2>2. CASE a.low > a.high
    <3>1. Search(d, a) = a
      BY <2>1, <2>2 DEF Search
    <3> QED
      BY <3>1
  <2>3. CASE a.low <= a.high /\ Fits(d, mid)
    <3>1. Search(d, a) = [a EXCEPT !.best = mid, !.low = mid + 1]
      BY <2>1, <2>3 DEF Search
    <3>2. mid \in B /\ mid + 1 \in Int
      BY <2>1, <2>3
    <3> HIDE DEF mid, B
    <3> QED
      BY <3>1, <3>2
  <2>4. CASE a.low <= a.high /\ ~Fits(d, mid)
    <3>1. Search(d, a) = [a EXCEPT !.high = mid - 1]
      BY <2>1, <2>4 DEF Search
    <3>2. mid - 1 \in Int
      BY <2>1
    <3> HIDE DEF mid, B
    <3> QED
      BY <3>1, <3>2
  <2> QED
    BY <2>1, <2>2, <2>3, <2>4
<1>3. LongestTitle(d) = u[n].best
  BY DEF LongestTitle
<1>4. (\E f : f = Body(f)) => u = Body(u)
  BY Zenon
<1> HIDE DEF A, n, b, u
<1>5. step \in [1..n -> [A -> A]] /\ \A i \in 1..n, a \in A : step[i][a] = Search(d, a)
  BY <1>2
<1> HIDE DEF step
<1>6. PICK f : IsRun(f, A, b, n, step)
  BY <1>1, <1>5, LoopRuns
<1>7. f = Body(f)
  <2>1. ASSUME NEW i \in 1..n PROVE f[i] = Search(d, f[i - 1])
    <3>1. i - 1 \in 0..n
      BY <1>1
    <3>2. f[i - 1] \in A
      BY <1>6, <3>1 DEF IsRun
    <3> QED
      BY <1>5, <1>6, <3>2 DEF IsRun
  <2>2. \A i \in 0..n : f[i] = Body(f)[i]
    BY <1>1, <1>6, <2>1 DEF IsRun
  <2> QED
    BY <1>6, <2>2 DEF IsRun
<1>8. u = Body(u)
  BY <1>4, <1>7
<1>9. u[0] = b /\ \A i \in 1..n : u[i] = Search(d, u[i - 1])
  <2>1. \A i \in 0..n : Body(u)[i] = IF i = 0 THEN b ELSE Search(d, u[i - 1])
    OBVIOUS
  <2> HIDE DEF Body
  <2>2. \A i \in 0..n : u[i] = IF i = 0 THEN b ELSE Search(d, u[i - 1])
    BY <1>8, <2>1
  <2> QED
    BY <1>1, <2>2
<1> DEFINE G == {i \in 0..n : u[i] \in A}
<1>10. 0..n \subseteq G
  <2>1. 0 \in G
    BY <1>1, <1>9
  <2>2. ASSUME NEW i \in 1..n, i - 1 \in G PROVE i \in G
    BY <1>1, <1>2, <1>9, <2>2
  <2> HIDE DEF G
  <2> QED
    BY <1>1, <2>1, <2>2, UpTo
<1>11. u[n] \in A
  <2>1. n \in G
    BY <1>1, <1>10
  <2> QED
    BY <2>1
<1>12. u[n].best \in B
  BY <1>11 DEF A
<1> QED
  BY <1>3, <1>12

(* What is rendered for the file is within the limit, with its extension.  *)
LEMMA RenderIs ==
  ASSUME NEW d \in Media
  PROVE  /\ RenderFileName(d) \in Seq(Seq(Runes)) /\ RenderFileName(d) # <<>>
         /\ Last(RenderFileName(d)) \in Seq(Runes) /\ Bytes(Last(RenderFileName(d))) <= MaxBytes
         /\ Bytes(d.ext) < MaxBytes => IsSuffix(d.ext, Last(RenderFileName(d)))
<1> DEFINE full == Rendered(d, TitleMax)
           best == LongestTitle(d)
           cut == LimitSegment(Last(full), MaxBytes)
           r == RenderFileName(d)
<1>1. TitleMax \in Int /\ MaxBytes \in Nat
  BY NamingConstants
<1>2. \/ r = full /\ Fits(d, TitleMax)
      \/ r = Rendered(d, best) /\ best # -1
      \/ r = Front(full) \o <<cut>>
  BY Zenon DEF RenderFileName
<1>3. ASSUME NEW max \in Int, r = Rendered(d, max), Fits(d, max)
      PROVE  /\ r \in Seq(Seq(Runes)) /\ r # <<>> /\ Last(r) \in Seq(Runes)
             /\ Bytes(Last(r)) <= MaxBytes /\ IsSuffix(d.ext, Last(r))
  BY <1>3, RenderedIs DEF Fits
<1>4. best # -1 => best \in Int /\ Fits(d, best)
  BY SearchFinds
<1>5. full \in Seq(Seq(Runes)) /\ full # <<>> /\ Last(full) \in Seq(Runes) /\ IsSuffix(d.ext, Last(full))
  BY <1>1, RenderedIs
<1>6. ASSUME r = Front(full) \o <<cut>>
      PROVE  /\ r \in Seq(Seq(Runes)) /\ r # <<>> /\ Last(r) \in Seq(Runes)
             /\ Bytes(Last(r)) <= MaxBytes /\ (Bytes(d.ext) < MaxBytes => IsSuffix(d.ext, Last(r)))
  <2>1. d.ext \in Extensions
    BY DEF Media
  <2> HIDE DEF full
  <2>2. cut \in Seq(Runes) /\ Bytes(cut) <= MaxBytes /\ (Bytes(d.ext) < MaxBytes => IsSuffix(d.ext, cut))
    <3>1. PICK e \in Extensions : d.ext = e
      BY <2>1
    <3>2. PICK s \in Seq(Runes) : s = Last(full) /\ IsSuffix(e, s)
      BY <1>5, <3>1
    <3>3. LimitSegment(s, MaxBytes) \in Seq(Runes) /\ Bytes(LimitSegment(s, MaxBytes)) <= MaxBytes
          /\ (Bytes(e) < MaxBytes => IsSuffix(e, LimitSegment(s, MaxBytes)))
      BY <1>1, <3>2, LimitIs
    <3> QED
      BY <3>1, <3>2, <3>3
  <2> HIDE DEF cut
  <2> DEFINE f == Front(full)
  <2>3. f \in Seq(Seq(Runes))
    BY <1>5 DEF Front
  <2> HIDE DEF f
  <2>4. r = f \o <<cut>> /\ <<cut>> \in Seq(Seq(Runes))
    BY <1>6, <2>2 DEF f
  <2> HIDE DEF r
  <2>5. r \in Seq(Seq(Runes)) /\ Len(r) = Len(f) + 1 /\ Len(f) \in Nat /\ r[Len(f) + 1] = cut
    BY <2>3, <2>4
  <2>6. Last(r) = cut /\ r # <<>>
    BY <2>5 DEF Last
  <2> QED
    BY <2>2, <2>5, <2>6
<1> HIDE DEF r, full, best
<1> QED
  BY <1>1, <1>2, <1>3, <1>4, <1>6 DEF r, full

Targets == [dir : Seq(Seq(Runes)), out : Seq(Runes)]

(* Parts leaves the names out that are none.                               *)
LEMMA PartsAre ==
  ASSUME NEW path \in Seq(Seq(Runes))
  PROVE  /\ Parts(path) \in Seq(Seq(Runes)) /\ \A k \in 1..Len(Parts(path)) : Parts(path)[k] \notin Dots
         /\ path # <<>> /\ Last(path) \notin Dots => Parts(path) # <<>> /\ Last(Parts(path)) = Last(path)
<1> DEFINE S == {k \in DOMAIN path : path[k] \notin Dots}
<1>1. S \subseteq 1..Len(path) /\ \A k \in S : path[k] \notin Dots
  OBVIOUS
<1>2. path # <<>> /\ Last(path) \notin Dots => Len(path) \in S /\ Last(path) = path[Len(path)]
  BY DEF Last
<1> HIDE DEF S
<1>3. Parts(path) = OnlyAt(path, S)
  BY DEF Parts, S
<1>4. /\ OnlyAt(path, S) \in Seq(Seq(Runes))
      /\ \A k \in 1..Len(OnlyAt(path, S)) : \E i \in S : OnlyAt(path, S)[k] = path[i]
      /\ Len(path) \in S => OnlyAt(path, S) # <<>> /\ Last(OnlyAt(path, S)) = path[Len(path)]
  <2>1. PICK R : R = Seq(Runes)
    OBVIOUS
  <2>2. path \in Seq(R)
    BY <2>1
  <2>3. /\ OnlyAt(path, S) \in Seq(R)
        /\ \A k \in 1..Len(OnlyAt(path, S)) : \E i \in S : OnlyAt(path, S)[k] = path[i]
        /\ Len(path) \in S => OnlyAt(path, S) # <<>> /\ Last(OnlyAt(path, S)) = path[Len(path)]
    <3>1. PICK T : T = S
      OBVIOUS
    <3>2. T \subseteq 1..Len(path)
      BY <1>1, <3>1
    <3>3. /\ OnlyAt(path, T) \in Seq(R) /\ Len(OnlyAt(path, T)) = Cardinality(T)
          /\ \A k \in 1..Len(OnlyAt(path, T)) : \E i \in T : OnlyAt(path, T)[k] = path[i]
          /\ Len(path) \in T => OnlyAt(path, T) # <<>> /\ Last(OnlyAt(path, T)) = path[Len(path)]
      BY <2>2, <3>2, OnlyAtIs, Zenon
    <3> QED
      BY <3>1, <3>3, Zenon
  <2> QED
    BY <2>1, <2>3
<1> QED
  BY <1>1, <1>2, <1>3, <1>4

(* A medium has a target that is as it must be.                            *)
LEMMA TargetIs ==
  ASSUME NEW d \in Media
  PROVE  Target(d) \in Targets /\ SoundTarget(d, Target(d))
<1> DEFINE path == [k \in DOMAIN Directory |-> Expand(Directory[k], d, TitleMax)]
           dir == Parts(path)
           r == RenderFileName(d)
           name == Parts(r)
           t == Target(d)
<1>1. path \in Seq(Seq(Runes))
  <2>1. Directory \in Seq(Seq(Runes)) /\ TitleMax \in Int
    BY NamingConstants
  <2>2. \A k \in 1..Len(Directory) : Expand(Directory[k], d, TitleMax) \in Seq(Runes)
    <3> SUFFICES ASSUME NEW k \in 1..Len(Directory) PROVE Expand(Directory[k], d, TitleMax) \in Seq(Runes)
      OBVIOUS
    <3>1. PICK segment \in Seq(Runes) : Directory[k] = segment
      BY <2>1
    <3>2. Expand(segment, d, TitleMax) \in Seq(Runes)
      BY <2>1, ExpandIs
    <3> QED
      BY <3>1, <3>2
  <2>3. DOMAIN Directory = 1..Len(Directory) /\ Len(Directory) \in Nat
    BY <2>1
  <2> QED
    BY <2>2, <2>3
<1>2. dir \in Seq(Seq(Runes)) /\ \A k \in 1..Len(dir) : dir[k] \notin Dots
  BY <1>1, PartsAre
<1>3. /\ r \in Seq(Seq(Runes)) /\ r # <<>> /\ Last(r) \in Seq(Runes) /\ Bytes(Last(r)) <= MaxBytes
      /\ Bytes(d.ext) < MaxBytes => IsSuffix(d.ext, Last(r))
  BY RenderIs
<1>4. /\ name \in Seq(Seq(Runes)) /\ \A k \in 1..Len(name) : name[k] \notin Dots
      /\ Last(r) \notin Dots => name # <<>> /\ Last(name) = Last(r)
  BY <1>3, PartsAre
<1>5. t = IF name = <<>> THEN [dir |-> dir, out |-> Untitled] ELSE [dir |-> dir \o Front(name), out |-> Last(name)]
  BY DEF Target
<1> HIDE DEF dir, r, name, t
<1>6. CASE name = <<>>
  <2>1. t.dir = dir /\ t.out = Untitled /\ t = [dir |-> dir, out |-> Untitled]
    BY <1>5, <1>6
  <2>2. Untitled \in Seq(Runes) /\ Untitled \notin Dots
    BY NamingConstants
  <2>3. t \in Targets
    BY <1>2, <2>1, <2>2 DEF Targets
  <2>4. Last(r) \in Dots
    BY <1>4, <1>6
  <2>5. t.out \notin Dots /\ \A k \in DOMAIN t.dir : t.dir[k] \notin Dots
    BY <1>2, <2>1, <2>2
  <2> QED
    BY <2>3, <2>4, <2>5 DEF SoundTarget, t, r
<1>7. CASE name # <<>>
  <2> DEFINE f == Front(name)
             whole == dir \o f
  <2>1. /\ f \in Seq(Seq(Runes)) /\ Last(name) \in Seq(Runes) /\ Last(name) \notin Dots
        /\ \A k \in 1..Len(f) : f[k] \notin Dots
    BY <1>4, <1>7 DEF Front, Last
  <2> HIDE DEF f
  <2>2. whole \in Seq(Seq(Runes)) /\ \A k \in DOMAIN whole : whole[k] \notin Dots
    <3>1. Len(dir) \in Nat /\ Len(f) \in Nat /\ whole \in Seq(Seq(Runes)) /\ DOMAIN whole = 1..(Len(dir) + Len(f))
      BY <1>2, <2>1
    <3>2. \A k \in 1..Len(dir) : whole[k] = dir[k]
      BY <1>2, <2>1
    <3>3. \A k \in (Len(dir) + 1)..(Len(dir) + Len(f)) : whole[k] = f[k - Len(dir)] /\ k - Len(dir) \in 1..Len(f)
      BY <1>2, <2>1
    <3> HIDE DEF whole
    <3>4. ASSUME NEW k \in DOMAIN whole PROVE whole[k] \notin Dots
      <4>1. k \in 1..Len(dir) \/ k \in (Len(dir) + 1)..(Len(dir) + Len(f))
        BY <3>1
      <4> QED
        BY <1>2, <2>1, <3>2, <3>3, <4>1
    <3> QED
      BY <3>1, <3>4
  <2>3. t.dir = whole /\ t.out = Last(name) /\ t = [dir |-> whole, out |-> Last(name)]
    BY <1>5, <1>7 DEF f
  <2> HIDE DEF whole
  <2>4. t \in Targets
    BY <2>1, <2>2, <2>3 DEF Targets
  <2>5. t.out \notin Dots /\ \A k \in DOMAIN t.dir : t.dir[k] \notin Dots
    BY <2>1, <2>2, <2>3
  <2>6. Last(r) \notin Dots => t.out = Last(r)
    BY <1>4, <2>3
  <2>7. Last(r) \notin Dots => Bytes(t.out) <= MaxBytes /\ (Bytes(d.ext) < MaxBytes => IsSuffix(d.ext, t.out))
    BY <1>3, <2>6, Zenon
  <2> QED
    BY <2>4, <2>5, <2>7 DEF SoundTarget, t, r
<1> QED
  BY <1>6, <1>7

-----------------------------------------------------------------------------
(* Numbers *)

(* Two sequences put together.                                             *)
LEMMA JoinIs ==
  ASSUME NEW R, NEW s \in Seq(R), NEW t \in Seq(R)
  PROVE  /\ s \o t \in Seq(R) /\ Len(s) \in Nat /\ Len(t) \in Nat /\ Len(s \o t) = Len(s) + Len(t)
         /\ \A i \in 1..Len(s) : (s \o t)[i] = s[i]
         /\ \A i \in 1..Len(t) : (s \o t)[Len(s) + i] = t[i]
OBVIOUS

(* The runes around a number.                                              *)
Blank == " "
LeftPar == "("
RightPar == ")"

(* What the number of a name is made of.                                   *)
LEMMA SuffixRunes ==
  /\ Blank \in Runes /\ LeftPar \in Runes /\ RightPar \in Runes /\ LeftPar \notin DOMAIN Lower
  /\ \A n : Suffix(n) = <<Blank, LeftPar>> \o Numeral[n] \o <<RightPar>>
  /\ \A n \in DOMAIN Numeral : Range(Numeral[n]) \cap (Wide \cup DOMAIN Lower \cup {LeftPar}) = {}
<1>1. " " \in Runes /\ "(" \in Runes /\ ")" \in Runes /\ "(" \notin DOMAIN Lower
  BY NamingAssumption, Zenon
<1>2. \A n \in DOMAIN Numeral : Range(Numeral[n]) \cap (Wide \cup DOMAIN Lower \cup {"("}) = {}
  BY NamingAssumption, Zenon
<1>3. \A n : Suffix(n) = <<" ", "(">> \o Numeral[n] \o <<")">>
  BY Zenon DEF Suffix
<1> QED
  BY <1>1, <1>2, <1>3, Zenon DEF Blank, LeftPar, RightPar

(* A blank, and the number in parentheses.                                 *)
LEMMA SuffixIs ==
  ASSUME NEW n \in 1..Len(Numeral)
  PROVE  /\ n \in DOMAIN Numeral /\ Numeral[n] \in Seq(Runes) /\ Len(Numeral[n]) \in Nat
         /\ Suffix(n) \in Seq(Runes) /\ Len(Suffix(n)) = Len(Numeral[n]) + 3
         /\ Suffix(n)[2] = LeftPar /\ \A i \in 1..Len(Numeral[n]) : Suffix(n)[i + 2] = Numeral[n][i]
         /\ \A i \in 1..Len(Numeral[n]) : Numeral[n][i] # LeftPar /\ Numeral[n][i] \notin DOMAIN Lower
<1>1. Numeral \in Seq(Seq(Runes))
  BY NamingAssumption, Zenon
<1>2. n \in DOMAIN Numeral /\ Numeral[n] \in Seq(Runes)
  BY <1>1
<1>3. PICK m \in Seq(Runes) : m = Numeral[n]
  BY <1>2
<1>4. PICK c \in Nat : c = Len(m)
  OBVIOUS
<1>5. PICK s \in Seq(Runes), p \in Seq(Runes) :
        s = <<Blank, LeftPar>> /\ p = <<RightPar>> /\ Len(s) = 2 /\ s[2] = LeftPar /\ Len(p) = 1
  <2>1. Blank \in Runes /\ LeftPar \in Runes /\ RightPar \in Runes
    BY SuffixRunes
  <2>2. <<Blank, LeftPar>> \in Seq(Runes) /\ <<RightPar>> \in Seq(Runes) /\ Len(<<Blank, LeftPar>>) = 2 /\ Len(<<RightPar>>) = 1
        /\ <<Blank, LeftPar>>[2] = LeftPar
    BY <2>1
  <2> QED
    BY <2>2
<1>6. PICK x \in Seq(Runes) : x = s \o m /\ Len(x) = c + 2 /\ x[2] = LeftPar /\ \A i \in 1..c : x[2 + i] = m[i]
  <2>1. s \o m \in Seq(Runes) /\ Len(s \o m) = 2 + c /\ (s \o m)[2] = LeftPar /\ \A i \in 1..c : (s \o m)[2 + i] = m[i]
    <3>1. 2 \in 1..Len(s)
      BY <1>5
    <3> QED
      BY <1>4, <1>5, <3>1, JoinIs
  <2>2. 2 + c = c + 2
    OBVIOUS
  <2>3. s \o m \in Seq(Runes) /\ s \o m = s \o m /\ Len(s \o m) = c + 2 /\ (s \o m)[2] = LeftPar
        /\ \A i \in 1..c : (s \o m)[2 + i] = m[i]
    BY <2>1, <2>2, Zenon
  <2> QED
    BY <2>3, Zenon
<1>7. PICK y \in Seq(Runes) : y = x \o p /\ Len(y) = c + 3 /\ y[2] = LeftPar /\ \A i \in 1..c : y[i + 2] = m[i]
  <2>1. x \o p \in Seq(Runes) /\ Len(x \o p) = c + 3 /\ \A i \in 1..(c + 2) : (x \o p)[i] = x[i]
    BY <1>5, <1>6, JoinIs
  <2>2. 2 \in 1..(c + 2) /\ \A i \in 1..c : i + 2 \in 1..(c + 2) /\ 2 + i = i + 2
    OBVIOUS
  <2>3. (x \o p)[2] = LeftPar /\ \A i \in 1..c : (x \o p)[i + 2] = m[i]
    BY <1>6, <2>1, <2>2
  <2> QED
    BY <2>1, <2>3, Zenon
<1>8. Suffix(n) = y
  BY <1>3, <1>5, <1>6, <1>7, SuffixRunes
<1>9. Range(m) \cap (Wide \cup DOMAIN Lower \cup {LeftPar}) = {}
  BY <1>2, <1>3, SuffixRunes
<1>10. \A i \in 1..c : m[i] \in Range(m)
  <2>1. PICK D : D = DOMAIN m
    OBVIOUS
  <2>2. D = 1..c
    BY <1>3, <1>4, <2>1
  <2>3. \A i \in D : m[i] \in Range(m)
    BY <2>1, Zenon DEF Range
  <2> QED
    BY <2>2, <2>3
<1>11. \A i \in 1..c : m[i] # LeftPar /\ m[i] \notin DOMAIN Lower
  BY <1>9, <1>10
<1> QED
  BY <1>2, <1>3, <1>4, <1>7, <1>8, <1>11

(* A numbered name ends with its number and the extension.                 *)
LEMMA NumberedIs ==
  ASSUME NEW t \in Targets, NEW n \in 1..Len(Numeral), FitsNumber(t, n)
  PROVE  \E x \in Seq(Runes) :
            /\ Numbered(t, n) = [t EXCEPT !.out = x \o Suffix(n) \o Ext(t.out)]
            /\ Bytes(x \o Suffix(n) \o Ext(t.out)) <= MaxBytes /\ Ext(t.out) \in Seq(Runes)
<1>1. PICK o \in Seq(Runes) : o = t.out
  BY DEF Targets
<1>2. Ext(o) \in Seq(Runes) /\ Stem(o) \in Seq(Runes) /\ Suffix(n) \in Seq(Runes)
  BY ExtIs, SuffixIs
<1>3. PICK e \in Seq(Runes), m \in Seq(Runes), s \in Seq(Runes) : e = Ext(o) /\ m = Stem(o) /\ s = Suffix(n)
  BY <1>2
<1>4. Bytes(e) \in Nat /\ Bytes(s) \in Nat /\ MaxBytes \in Nat
  BY BytesNat, NamingConstants
<1>5. Bytes(s) + Bytes(e) <= MaxBytes
  BY <1>1, <1>3 DEF FitsNumber
<1> DEFINE room == MaxBytes - Bytes(s) - Bytes(e)
           x == Truncate(m, room)
<1>6. room \in Nat
  BY <1>4, <1>5
<1>7. x \in Seq(Runes) /\ Bytes(x) <= room
  BY <1>6, TruncateIs
<1>8. Numbered(t, n) = [t EXCEPT !.out = x \o s \o e]
  BY <1>1, <1>3 DEF Numbered
<1> HIDE DEF x
<1>9. x \o s \in Seq(Runes) /\ Bytes(x \o s) = Bytes(x) + Bytes(s)
  BY <1>7, BytesJoin
<1>10. Bytes(x \o s \o e) = Bytes(x \o s) + Bytes(e)
  <2>1. PICK y \in Seq(Runes) : y = x \o s
    BY <1>9
  <2>2. Bytes(y \o e) = Bytes(y) + Bytes(e)
    BY BytesJoin
  <2> QED
    BY <2>1, <2>2
<1>11. Bytes(x) \in Nat
  BY <1>7, BytesNat
<1>12. Bytes(x \o s \o e) <= MaxBytes
  BY <1>4, <1>7, <1>9, <1>10, <1>11
<1> QED
  BY <1>1, <1>2, <1>3, <1>7, <1>8, <1>12

(* A numbered target is as it must be.                                     *)
LEMMA NumberedSound ==
  ASSUME NEW t \in Targets, NEW n \in 1..Len(Numeral), ~Fails(t, n)
  PROVE  /\ Candidate(t, n) \in Targets
         /\ \A d \in Media : SoundTarget(d, t) => SoundTarget(d, Candidate(t, n))
<1>1. CASE n = 1
  BY <1>1 DEF Candidate
<1>2. CASE n # 1
  <2>1. n > 1 /\ Candidate(t, n) = Numbered(t, n)
    BY <1>2 DEF Candidate
  <2>2. FitsNumber(t, n)
    BY <2>1 DEF Fails
  <2>3. PICK x \in Seq(Runes) :
            /\ Numbered(t, n) = [t EXCEPT !.out = x \o Suffix(n) \o Ext(t.out)]
            /\ Bytes(x \o Suffix(n) \o Ext(t.out)) <= MaxBytes /\ Ext(t.out) \in Seq(Runes)
    BY <2>2, NumberedIs
  <2>4. PICK s \in Seq(Runes) : s = Suffix(n) /\ Len(s) >= 3
    BY SuffixIs
  <2>5. PICK e \in Seq(Runes) : e = Ext(t.out)
    BY <2>3
  <2>6. PICK y \in Seq(Runes) : y = x \o s /\ Len(y) >= 3
    <3>1. x \o s \in Seq(Runes) /\ Len(x \o s) = Len(x) + Len(s) /\ Len(x) \in Nat /\ Len(s) \in Nat
      BY JoinIs
    <3>2. Len(x \o s) >= 3
      BY <2>4, <3>1
    <3> QED
      BY <3>1, <3>2
  <2>7. PICK o \in Seq(Runes) : o = y \o e /\ Len(o) >= 3 /\ IsSuffix(e, o)
    <3>1. y \o e \in Seq(Runes) /\ IsSuffix(e, y \o e)
      BY SuffixOfJoin
    <3>2. Len(y \o e) = Len(y) + Len(e) /\ Len(y) \in Nat /\ Len(e) \in Nat
      BY JoinIs
    <3>3. Len(y \o e) >= 3
      BY <2>6, <3>2
    <3> QED
      BY <3>1, <3>3
  <2>8. o = x \o Suffix(n) \o Ext(t.out)
    BY <2>4, <2>5, <2>6, <2>7
  <2>9. Candidate(t, n) = [t EXCEPT !.out = o] /\ Bytes(o) <= MaxBytes
    BY <2>1, <2>3, <2>8
  <2> DEFINE c == [t EXCEPT !.out = o]
  <2>10. c \in Targets /\ c.out = o /\ c.dir = t.dir
    BY DEF Targets
  <2> HIDE DEF c
  <2>11. o \notin Dots
    <3>1. \A z \in Dots : Len(z) <= 2
      <4>1. Len(<<>>) <= 2 /\ Len(<<".">>) <= 2 /\ Len(<<".", ".">>) <= 2
        OBVIOUS
      <4> QED
        BY <4>1, Zenon DEF Dots
    <3>2. ~(Len(o) <= 2)
      BY <2>7
    <3> QED
      BY <3>1, <3>2, Zenon
  <2>12. ASSUME NEW d \in Media, SoundTarget(d, t) PROVE SoundTarget(d, c)
    <3>1. \A k \in DOMAIN c.dir : c.dir[k] \notin Dots
      BY <2>10, <2>12 DEF SoundTarget
    <3>2. ASSUME Last(RenderFileName(d)) \notin Dots, Bytes(d.ext) < MaxBytes PROVE IsSuffix(d.ext, o)
      <4>1. IsSuffix(d.ext, t.out)
        BY <2>12, <3>2 DEF SoundTarget
      <4>2. PICK z \in Extensions : z = d.ext
        BY DEF Media
      <4>3. CASE z = <<>>
        <5>1. <<>> \in Seq(Runes) /\ Len(<<>>) <= Len(o) /\ \A i \in 1..Len(<<>>) : o[Len(o) - Len(<<>>) + i] = <<>>[i]
          OBVIOUS
        <5>2. IsSuffix(<<>>, o)
          BY <5>1, SuffixMeans
        <5> QED
          BY <4>2, <4>3, <5>2
      <4>4. CASE z # <<>>
        <5>1. PICK w \in Seq(Runes) : w = t.out
          BY DEF Targets
        <5>2. Ext(w) = z
          BY <4>1, <4>2, <4>4, <5>1, ExtOfSuffix
        <5> QED
          BY <2>5, <2>7, <4>2, <5>1, <5>2
      <4> QED
        BY <4>3, <4>4
    <3> QED
      BY <2>9, <2>10, <2>11, <3>1, <3>2 DEF SoundTarget, c
  <2> QED
    BY <2>9, <2>10, <2>12 DEF c
<1> QED
  BY <1>1, <1>2

(* Where the number stands in the name.                                    *)
LEMMA NumberAt ==
  ASSUME NEW t \in Targets, NEW n \in 1..Len(Numeral), FitsNumber(t, n)
  PROVE  \E o \in Seq(Runes), e \in Nat, c \in Nat :
            /\ Numbered(t, n).out = o /\ e = Len(Ext(t.out)) /\ c = Len(Numeral[n]) /\ Len(o) >= e + c + 3
            /\ o[Len(o) - e - 1 - c] = LeftPar
            /\ \A i \in 1..c : o[Len(o) - e - 1 - c + i] = Numeral[n][i]
<1>1. PICK x \in Seq(Runes) :
            /\ Numbered(t, n) = [t EXCEPT !.out = x \o Suffix(n) \o Ext(t.out)]
            /\ Ext(t.out) \in Seq(Runes)
  BY NumberedIs
<1>2. PICK y \in Seq(Runes) : y = Ext(t.out)
  BY <1>1
<1>3. PICK s \in Seq(Runes), c \in Nat, m \in Seq(Runes) :
          /\ s = Suffix(n) /\ m = Numeral[n] /\ c = Len(m) /\ Len(s) = c + 3 /\ s[2] = LeftPar
          /\ \A i \in 1..c : s[i + 2] = m[i]
  <2>1. PICK m \in Seq(Runes), c \in Nat : m = Numeral[n] /\ c = Len(m)
    BY SuffixIs
  <2>2. PICK s \in Seq(Runes) : s = Suffix(n) /\ Len(s) = c + 3 /\ s[2] = LeftPar /\ \A i \in 1..c : s[i + 2] = m[i]
    BY <2>1, SuffixIs
  <2> QED
    BY <2>1, <2>2
<1>4. PICK a \in Nat, e \in Nat : a = Len(x) /\ e = Len(y)
  OBVIOUS
<1>5. PICK w \in Seq(Runes) : w = x \o s /\ Len(w) = a + c + 3 /\ \A i \in 1..(c + 3) : w[a + i] = s[i]
  <2>1. x \o s \in Seq(Runes) /\ Len(x \o s) = a + (c + 3) /\ \A i \in 1..(c + 3) : (x \o s)[a + i] = s[i]
    <3>1. /\ x \o s \in Seq(Runes) /\ Len(x \o s) = Len(x) + Len(s)
          /\ \A i \in 1..Len(s) : (x \o s)[Len(x) + i] = s[i]
      BY JoinIs
    <3>2. Len(s) = c + 3 /\ Len(x) = a
      BY <1>3, <1>4
    <3> QED
      BY <3>1, <3>2
  <2>2. a + (c + 3) = a + c + 3
    OBVIOUS
  <2> QED
    BY <2>1, <2>2
<1>6. PICK o \in Seq(Runes) : o = w \o y /\ Len(o) = a + c + 3 + e /\ \A i \in 1..(a + c + 3) : o[i] = w[i]
  <2>1. w \o y \in Seq(Runes) /\ Len(w \o y) = a + c + 3 + e /\ \A i \in 1..(a + c + 3) : (w \o y)[i] = w[i]
    <3>1. /\ w \o y \in Seq(Runes) /\ Len(w \o y) = Len(w) + Len(y)
          /\ \A i \in 1..Len(w) : (w \o y)[i] = w[i]
      BY JoinIs
    <3>2. Len(w) = a + c + 3 /\ Len(y) = e
      BY <1>4, <1>5
    <3> QED
      BY <3>1, <3>2
  <2> QED
    BY <2>1, Zenon
<1>7. o = x \o Suffix(n) \o Ext(t.out)
  BY <1>2, <1>3, <1>5, <1>6
<1>8. Len(o) - e - 1 - c = a + 2 /\ Len(o) >= e + c + 3
  <2>1. PICK z : z = Len(o)
    OBVIOUS
  <2>2. z = a + c + 3 + e
    BY <1>6, <2>1
  <2>3. z - e - 1 - c = a + 2 /\ z >= e + c + 3
    BY <1>4, <2>2
  <2> QED
    BY <2>1, <2>3
<1>9. o[a + 2] = LeftPar
  <2>1. a + 2 \in 1..(a + c + 3) /\ 2 \in 1..(c + 3)
    BY <1>4
  <2> QED
    BY <1>3, <1>5, <1>6, <2>1
<1>10. ASSUME NEW i \in 1..c PROVE o[a + 2 + i] = m[i]
  <2>1. a + 2 + i \in 1..(a + c + 3) /\ i + 2 \in 1..(c + 3) /\ a + (i + 2) = a + 2 + i
    BY <1>4
  <2>2. w[a + (i + 2)] = s[i + 2] /\ s[i + 2] = m[i]
    BY <1>3, <1>5, <2>1
  <2> QED
    BY <1>6, <2>1, <2>2
<1>11. Numbered(t, n).out = o
  BY <1>1, <1>7 DEF Targets
<1>12. e = Len(Ext(t.out)) /\ c = Len(Numeral[n])
  BY <1>2, <1>3, <1>4
<1>13. \A i \in 1..c : o[Len(o) - e - 1 - c + i] = Numeral[n][i]
  BY <1>3, <1>8, <1>10
<1>14. o[Len(o) - e - 1 - c] = LeftPar
  BY <1>8, <1>9
<1> QED
  BY <1>4, <1>6, <1>8, <1>11, <1>12, <1>13, <1>14

(* Two numbers make two names, whatever was cut off to make room for them. *)
LEMMA NumbersDiffer ==
  ASSUME NEW t \in Targets, NEW n \in 1..Len(Numeral), NEW k \in 1..Len(Numeral),
         FitsNumber(t, n), FitsNumber(t, k), Key(Numbered(t, n)) = Key(Numbered(t, k))
  PROVE  n = k
<1>1. PICK o \in Seq(Runes), e \in Nat, c \in Nat :
            /\ Numbered(t, n).out = o /\ e = Len(Ext(t.out)) /\ c = Len(Numeral[n]) /\ Len(o) >= e + c + 3
            /\ o[Len(o) - e - 1 - c] = LeftPar
            /\ \A i \in 1..c : o[Len(o) - e - 1 - c + i] = Numeral[n][i]
  BY NumberAt
<1>2. PICK p \in Seq(Runes), f \in Nat, b \in Nat :
            /\ Numbered(t, k).out = p /\ f = Len(Ext(t.out)) /\ b = Len(Numeral[k]) /\ Len(p) >= f + b + 3
            /\ p[Len(p) - f - 1 - b] = LeftPar
            /\ \A i \in 1..b : p[Len(p) - f - 1 - b + i] = Numeral[k][i]
  BY NumberAt
<1>3. f = e
  BY <1>1, <1>2
<1>4. FoldCase(o) = FoldCase(p)
  <2>1. Key(Numbered(t, n))[2] = FoldCase(o) /\ Key(Numbered(t, k))[2] = FoldCase(p)
    BY <1>1, <1>2 DEF Key
  <2> QED
    BY <2>1
<1>5. /\ DOMAIN FoldCase(o) = 1..Len(o) /\ DOMAIN FoldCase(p) = 1..Len(p)
      /\ \A i \in 1..Len(o) : o[i] \notin DOMAIN Lower => FoldCase(o)[i] = o[i]
      /\ \A i \in 1..Len(p) : p[i] \notin DOMAIN Lower => FoldCase(p)[i] = p[i]
  BY DEF FoldCase
<1>6. PICK l \in Nat : l = Len(o)
  OBVIOUS
<1>7. Len(p) = l
  <2>1. 1..Len(o) = 1..Len(p) /\ Len(o) \in Nat /\ Len(p) \in Nat
    BY <1>4, <1>5
  <2>2. Len(o) = Len(p)
    <3>1. Len(o) \in 1..Len(o) /\ Len(p) \in 1..Len(p)
      <4>1. Len(o) >= 1 /\ Len(p) >= 1
        <5>1. Len(o) >= e + c + 3 /\ Len(p) >= f + b + 3
          BY <1>1, <1>2, Zenon
        <5> QED
          BY <2>1, <5>1
      <4> QED
        BY <2>1, <4>1
    <3>2. Len(o) \in 1..Len(p) /\ Len(p) \in 1..Len(o)
      BY <2>1, <3>1
    <3> QED
      BY <3>2
  <2> QED
    BY <1>6, <2>2
<1>8. \A i \in 1..l : o[i] \notin DOMAIN Lower /\ p[i] \notin DOMAIN Lower => o[i] = p[i]
  BY <1>4, <1>5, <1>6, <1>7
<1>9. LeftPar \notin DOMAIN Lower
  BY SuffixRunes
<1>10. /\ \A i \in 1..c : Numeral[n][i] # LeftPar /\ Numeral[n][i] \notin DOMAIN Lower
       /\ \A i \in 1..b : Numeral[k][i] # LeftPar /\ Numeral[k][i] \notin DOMAIN Lower
  BY <1>1, <1>2, SuffixIs
<1>11. /\ l >= e + c + 3 /\ o[l - e - 1 - c] = LeftPar /\ \A i \in 1..c : o[l - e - 1 - c + i] = Numeral[n][i]
       /\ l >= e + b + 3 /\ p[l - e - 1 - b] = LeftPar /\ \A i \in 1..b : p[l - e - 1 - b + i] = Numeral[k][i]
  BY <1>1, <1>2, <1>3, <1>6, <1>7
<1>12. ~(c < b)
  <2> SUFFICES ASSUME c < b PROVE FALSE
    OBVIOUS
  <2> DEFINE at == l - e - 1 - c
             i == b - c
  <2>1. at \in 1..l /\ i \in 1..b /\ l - e - 1 - b + i = at
    BY <1>11
  <2>2. o[at] = LeftPar /\ p[at] = Numeral[k][i]
    <3>1. p[l - e - 1 - b + i] = Numeral[k][i]
      BY <1>11, <2>1
    <3> QED
      BY <1>11, <2>1, <3>1
  <2> HIDE DEF at, i
  <2> QED
    BY <1>8, <1>9, <1>10, <2>1, <2>2
<1>13. ~(b < c)
  <2> SUFFICES ASSUME b < c PROVE FALSE
    OBVIOUS
  <2> DEFINE at == l - e - 1 - b
             i == c - b
  <2>1. at \in 1..l /\ i \in 1..c /\ l - e - 1 - c + i = at
    BY <1>11
  <2>2. p[at] = LeftPar /\ o[at] = Numeral[n][i]
    <3>1. o[l - e - 1 - c + i] = Numeral[n][i]
      BY <1>11, <2>1
    <3> QED
      BY <1>11, <2>1, <3>1
  <2> HIDE DEF at, i
  <2> QED
    BY <1>8, <1>9, <1>10, <2>1, <2>2
<1>14. b = c
  BY <1>12, <1>13
<1>15. \A i \in 1..c : Numeral[n][i] = Numeral[k][i]
  <2> SUFFICES ASSUME NEW i \in 1..c PROVE Numeral[n][i] = Numeral[k][i]
    OBVIOUS
  <2> DEFINE at == l - e - 1 - c + i
  <2>1. at \in 1..l /\ i \in 1..b
    BY <1>11, <1>14
  <2>2. o[at] = Numeral[n][i] /\ p[at] = Numeral[k][i]
    BY <1>11, <1>14, <2>1
  <2> HIDE DEF at
  <2> QED
    BY <1>8, <1>10, <2>1, <2>2
<1>16. Numeral[n] = Numeral[k]
  <2>1. Numeral[n] \in Seq(Runes) /\ Numeral[k] \in Seq(Runes)
    BY SuffixIs
  <2>2. Len(Numeral[n]) = Len(Numeral[k]) /\ \A i \in 1..Len(Numeral[n]) : Numeral[n][i] = Numeral[k][i]
    BY <1>1, <1>2, <1>14, <1>15
  <2>3. PICK u, v : u = Numeral[n] /\ v = Numeral[k]
    OBVIOUS
  <2>4. u \in Seq(Runes) /\ v \in Seq(Runes) /\ Len(u) = Len(v) /\ \A i \in 1..Len(u) : u[i] = v[i]
    BY <2>1, <2>2, <2>3
  <2>5. u = v
    BY <2>4, SeqEqual
  <2> QED
    BY <2>3, <2>5
<1>17. n \in DOMAIN Numeral /\ k \in DOMAIN Numeral
  BY SuffixIs
<1> QED
  BY <1>16, <1>17, NamingAssumption, Zenon

(* The search for a number ends: there are more numbers than names taken.  *)
LEMMA TryEnds ==
  ASSUME NEW t \in Targets, NEW used, IsFiniteSet(used), Cardinality(used) + 2 <= Len(Numeral)
  PROVE  LastTry(t, used) \in 1..(Cardinality(used) + 2) /\ Ends(t, used, LastTry(t, used))
<1>1. PICK c \in Nat : c = Cardinality(used)
  BY FS_CardinalityType
<1>2. PICK l \in Nat : l = Len(Numeral) /\ c + 2 <= l
  <2>1. Len(Numeral) \in Nat
    <3>1. Numeral \in Seq(Seq(Runes))
      BY NamingAssumption, Zenon
    <3> QED
      BY <3>1
  <2> QED
    BY <1>1, <2>1
<1>3. \E n \in 1..(c + 2) : Ends(t, used, n)
  <2> SUFFICES ASSUME \A n \in 1..(c + 2) : ~Ends(t, used, n) PROVE FALSE
    OBVIOUS
  <2> DEFINE S == 2..(c + 2)
             f == [n \in S |-> Key(Numbered(t, n))]
  <2>1. ASSUME NEW n \in S PROVE n \in 1..Len(Numeral) /\ FitsNumber(t, n) /\ Key(Numbered(t, n)) \in used
    <3>1. n \in 1..(c + 2) /\ n \in 1..l /\ n > 1 /\ n # 1
      BY <1>2
    <3>2. ~Fails(t, n) /\ Key(Candidate(t, n)) \in used
      BY <3>1 DEF Ends
    <3> QED
      BY <1>2, <3>1, <3>2 DEF Fails, Candidate
  <2>2. f \in [S -> used]
    BY <2>1
  <2>3. IsFiniteSet(S) /\ Cardinality(S) = c + 1
    <3>1. 2 \in Int /\ c + 2 \in Int /\ (IF 2 > c + 2 THEN 0 ELSE c + 2 - 2 + 1) = c + 1
      OBVIOUS
    <3> QED
      BY <3>1, FS_Interval
  <2>4. Cardinality(used) < Cardinality(S)
    BY <1>1, <2>3
  <2> HIDE DEF f, S
  <2>5. PICK n \in S, k \in S : n # k /\ f[n] = f[k]
    BY <2>2, <2>3, <2>4, FS_PigeonHole
  <2>6. Key(Numbered(t, n)) = Key(Numbered(t, k))
    BY <2>5 DEF f
  <2>7. n = k
    <3>1. n \in 1..Len(Numeral) /\ k \in 1..Len(Numeral) /\ FitsNumber(t, n) /\ FitsNumber(t, k)
      BY <2>1
    <3> QED
      BY <2>6, <3>1, NumbersDiffer
  <2> QED
    BY <2>5, <2>7
<1> DEFINE E == {n \in 1..(c + 2) : Ends(t, used, n)}
<1>4. PICK x \in E : \A y \in E : x <= y
  <2>1. E \subseteq Nat /\ E # {}
    BY <1>3
  <2> HIDE DEF E
  <2> QED
    BY <2>1, LeastNat
<1>5. x \in 1..(c + 2) /\ Ends(t, used, x) /\ \A k \in 1..(x - 1) : ~Ends(t, used, k)
  <2>1. x \in 1..(c + 2) /\ Ends(t, used, x)
    OBVIOUS
  <2>2. ASSUME NEW k \in 1..(x - 1), Ends(t, used, k) PROVE FALSE
    <3>1. k \in 1..(c + 2) /\ ~(x <= k)
      BY <2>1
    <3>2. k \in E
      BY <2>2, <3>1
    <3> QED
      BY <1>4, <3>1, <3>2
  <2> QED
    BY <2>1, <2>2
<1>6. LastTry(t, used) = CHOOSE n \in 1..(c + 2) : Ends(t, used, n) /\ \A k \in 1..(n - 1) : ~Ends(t, used, k)
  BY <1>1 DEF LastTry
<1>7. \E n \in 1..(c + 2) : Ends(t, used, n) /\ \A k \in 1..(n - 1) : ~Ends(t, used, k)
  BY <1>5
<1>8. LastTry(t, used) \in 1..(c + 2) /\ Ends(t, used, LastTry(t, used))
  BY <1>6, <1>7, Zenon
<1> QED
  BY <1>1, <1>8

(* What has been placed after i targets.                                   *)
Keys == {Key(t) : t \in Targets}
Accs == [ok : BOOLEAN, used : SUBSET Keys, out : Seq(Targets)]
Placed(i, a, media) ==
    /\ a \in Accs /\ IsFiniteSet(a.used) /\ Cardinality(a.used) <= i
    /\ a.ok => /\ Len(a.out) = i
               /\ \A k \in 1..i : Key(a.out[k]) \in a.used /\ SoundTarget(media[k], a.out[k])
               /\ \A j, k \in 1..i : j # k => Key(a.out[j]) # Key(a.out[k])

(* One more target is placed.                                              *)
LEMMA PlaceStep ==
  ASSUME NEW i \in Nat, i + 2 <= Len(Numeral), NEW t \in Targets, NEW media, media[i + 1] \in Media,
         SoundTarget(media[i + 1], t), NEW a, Placed(i, a, media)
  PROVE  Placed(i + 1, Place(a, t), media)
<1> DEFINE n == LastTry(t, a.used)
           c == Candidate(t, n)
           p == Place(a, t)
<1>1. a \in Accs /\ IsFiniteSet(a.used) /\ Cardinality(a.used) <= i /\ Cardinality(a.used) \in Nat
  BY FS_CardinalityType DEF Placed
<1>2. Len(Numeral) \in Nat
  <2>1. Numeral \in Seq(Seq(Runes))
    BY NamingAssumption, Zenon
  <2> QED
    BY <2>1
<1>3. n \in 1..(Cardinality(a.used) + 2) /\ Ends(t, a.used, n)
  <2>1. Cardinality(a.used) + 2 <= Len(Numeral)
    BY <1>1, <1>2
  <2>2. PICK used : used = a.used
    OBVIOUS
  <2> QED
    BY <1>1, <2>1, <2>2, TryEnds
<1>4. n \in 1..Len(Numeral)
  BY <1>1, <1>2, <1>3
<1>5. p = IF ~a.ok \/ Fails(t, n) THEN [a EXCEPT !.ok = FALSE]
          ELSE [a EXCEPT !.used = @ \cup {Key(c)}, !.out = Append(@, c)]
  BY DEF Place
<1> HIDE DEF n, p
<1>6. CASE ~a.ok \/ Fails(t, n)
  <2>1. p = [a EXCEPT !.ok = FALSE]
    BY <1>5, <1>6
  <2>2. p \in Accs /\ p.used = a.used /\ p.ok = FALSE
    BY <1>1, <2>1 DEF Accs
  <2>3. Cardinality(p.used) <= i + 1
    BY <1>1, <2>2
  <2> QED
    BY <1>1, <2>2, <2>3 DEF Placed, p
<1>7. CASE a.ok /\ ~Fails(t, n)
  <2>1. p = [a EXCEPT !.used = a.used \cup {Key(c)}, !.out = Append(a.out, c)]
    BY <1>5, <1>7
  <2>2. c \in Targets /\ SoundTarget(media[i + 1], c)
    BY <1>4, <1>7, NumberedSound
  <2>3. Key(c) \notin a.used
    BY <1>3, <1>7 DEF Ends
  <2> HIDE DEF c
  <2>4. PICK o \in Seq(Targets), u \in SUBSET Keys : o = a.out /\ u = a.used
    BY <1>1 DEF Accs
  <2>5. Key(c) \in Keys
    BY <2>2 DEF Keys
  <2>6. p.used = u \cup {Key(c)} /\ p.out = Append(o, c) /\ p \in Accs
    <3>1. u \cup {Key(c)} \in SUBSET Keys /\ Append(o, c) \in Seq(Targets)
      BY <2>2, <2>5
    <3> QED
      BY <1>1, <2>1, <2>4, <3>1 DEF Accs
  <2>7. IsFiniteSet(p.used) /\ Cardinality(p.used) <= i + 1
    <3>1. IsFiniteSet(u) /\ Cardinality(u) <= i /\ Cardinality(u) \in Nat
      BY <1>1, <2>4
    <3>2. IsFiniteSet(u \cup {Key(c)}) /\ Cardinality(u \cup {Key(c)}) = Cardinality(u) + 1
      BY <2>3, <2>4, <3>1, FS_AddElement
    <3>3. Cardinality(u \cup {Key(c)}) <= i + 1
      BY <3>1, <3>2
    <3> QED
      BY <2>6, <3>2, <3>3
  <2>8. /\ Len(o) = i /\ \A k \in 1..i : Key(o[k]) \in u /\ SoundTarget(media[k], o[k])
        /\ \A j, k \in 1..i : j # k => Key(o[j]) # Key(o[k])
    BY <1>7, <2>4 DEF Placed
  <2> DEFINE q == Append(o, c)
  <2>9. Len(q) = i + 1 /\ q[i + 1] = c /\ \A k \in 1..i : q[k] = o[k]
    BY <2>2, <2>8
  <2> HIDE DEF q
  <2>10. \A k \in 1..(i + 1) : k \in 1..i \/ k = i + 1
    OBVIOUS
  <2>11. \A k \in 1..(i + 1) : Key(q[k]) \in u \cup {Key(c)} /\ SoundTarget(media[k], q[k])
    BY <2>2, <2>8, <2>9, <2>10
  <2>12. Key(c) \notin u
    BY <2>3, <2>4
  <2>13. ASSUME NEW j \in 1..(i + 1), NEW k \in 1..(i + 1), j # k PROVE Key(q[j]) # Key(q[k])
    <3>1. CASE j \in 1..i /\ k \in 1..i
      BY <2>8, <2>9, <2>13, <3>1
    <3>2. CASE j = i + 1 /\ k \in 1..i
      BY <2>8, <2>9, <2>12, <3>2
    <3>3. CASE k = i + 1 /\ j \in 1..i
      BY <2>8, <2>9, <2>12, <3>3
    <3> QED
      BY <2>10, <2>13, <3>1, <3>2, <3>3
  <2>14. Len(p.out) = i + 1 /\ p.out = q
    BY <2>6, <2>9 DEF q
  <2> QED
    BY <2>6, <2>7, <2>11, <2>13, <2>14 DEF Placed, p
<1> QED
  BY <1>6, <1>7

(* Unique gives every target a name of its own that is as it must be.      *)
LEMMA UniqueIs ==
  ASSUME NEW targets \in Seq(Targets), Len(targets) < Len(Numeral), NEW media,
         \A k \in 1..Len(targets) : media[k] \in Media /\ SoundTarget(media[k], targets[k]),
         Unique(targets) # <<>>
  PROVE  /\ Len(Unique(targets)) = Len(targets)
         /\ \A k \in 1..Len(targets) : SoundTarget(media[k], Unique(targets)[k])
         /\ \A j, k \in 1..Len(targets) : j # k => Key(Unique(targets)[j]) # Key(Unique(targets)[k])
<1> DEFINE n == Len(targets)
           b == [ok |-> TRUE, used |-> {}, out |-> <<>>]
           Body(f) == [i \in 0..n |-> IF i = 0 THEN b ELSE Place(f[i - 1], targets[i])]
           u == CHOOSE f : f = Body(f)
           Turn(a, i) == IF Place(a, targets[i]) \in Accs THEN Place(a, targets[i]) ELSE b
           step == [i \in 1..n |-> [a \in Accs |-> Turn(a, i)]]
<1>1. n \in Nat /\ b \in Accs /\ Len(Numeral) \in Nat
  <2>1. Numeral \in Seq(Seq(Runes))
    BY NamingAssumption, Zenon
  <2>2. <<>> \in Seq(Targets) /\ {} \in SUBSET Keys
    OBVIOUS
  <2>3. b \in Accs
    BY <2>2 DEF Accs
  <2> QED
    BY <2>1, <2>3
<1>2. Placed(0, b, media)
  <2>1. IsFiniteSet(b.used) /\ Cardinality(b.used) <= 0
    BY FS_EmptySet
  <2>2. Len(b.out) = 0
    OBVIOUS
  <2> HIDE DEF b
  <2> QED
    BY <1>1, <2>1, <2>2 DEF Placed
<1>3. Unique(targets) = IF u[n].ok THEN u[n].out ELSE <<>>
  BY DEF Unique
<1>4. (\E f : f = Body(f)) => u = Body(u)
  BY Zenon
<1>5. ASSUME NEW i \in 1..n, NEW a, Placed(i - 1, a, media)
      PROVE  Placed(i, Place(a, targets[i]), media)
  <2>1. PICK j \in Nat : j = i - 1 /\ i = j + 1
    BY <1>1
  <2>2. PICK t \in Targets : t = targets[i]
    BY <1>1
  <2>3. j + 2 <= Len(Numeral) /\ media[j + 1] \in Media /\ SoundTarget(media[j + 1], t)
    BY <1>1, <2>1, <2>2
  <2>4. Placed(j, a, media)
    BY <1>5, <2>1
  <2>5. Placed(j + 1, Place(a, t), media)
    BY <2>3, <2>4, PlaceStep
  <2> QED
    BY <2>1, <2>2, <2>5
<1>6. step \in [1..n -> [Accs -> Accs]] /\ \A i \in 1..n, a \in Accs : step[i][a] = Turn(a, i)
  <2>1. \A i \in 1..n, a \in Accs : Turn(a, i) \in Accs
    BY <1>1
  <2> HIDE DEF Turn
  <2> QED
    BY <2>1
<1> HIDE DEF n, b, u, step
<1>7. PICK f : IsRun(f, Accs, b, n, step)
  BY <1>1, <1>6, LoopRuns
<1>8. /\ \A i \in 0..n : f[i] \in Accs
      /\ f \in [0..n -> Accs] /\ f[0] = b /\ \A i \in 1..n : f[i] = Turn(f[i - 1], i)
  <2>1. f \in [0..n -> Accs] /\ f[0] = b /\ \A i \in 1..n : f[i] = step[i][f[i - 1]]
    BY <1>7 DEF IsRun
  <2>2. \A i \in 1..n : i - 1 \in 0..n
    BY <1>1
  <2>3. \A i \in 1..n : step[i][f[i - 1]] = Turn(f[i - 1], i)
    <3> HIDE DEF Turn
    <3> QED
      BY <1>6, <2>1, <2>2
  <2> HIDE DEF Turn
  <2> QED
    BY <2>1, <2>3
<1> DEFINE G == {i \in 0..n : Placed(i, f[i], media)}
<1>9. 0..n \subseteq G
  <2>1. 0 \in G
    BY <1>1, <1>2, <1>8
  <2>2. ASSUME NEW i \in 1..n, i - 1 \in G PROVE i \in G
    <3>1. Placed(i - 1, f[i - 1], media)
      BY <2>2
    <3>2. Placed(i, Place(f[i - 1], targets[i]), media)
      BY <1>5, <3>1
    <3>3. Place(f[i - 1], targets[i]) \in Accs
      BY <3>2 DEF Placed
    <3>4. f[i] = Place(f[i - 1], targets[i])
      BY <1>8, <3>3
    <3>5. i \in 0..n
      BY <1>1
    <3> QED
      BY <3>2, <3>4, <3>5
  <2> HIDE DEF G
  <2> QED
    BY <1>1, <2>1, <2>2, UpTo
<1>10. ASSUME NEW i \in 1..n PROVE f[i] = Place(f[i - 1], targets[i])
  <2>1. i - 1 \in G
    BY <1>1, <1>9
  <2>2. Placed(i, Place(f[i - 1], targets[i]), media)
    BY <1>5, <2>1
  <2>3. Place(f[i - 1], targets[i]) \in Accs
    BY <2>2 DEF Placed
  <2> QED
    BY <1>8, <2>3
<1>11. f = Body(f)
  <2>1. \A i \in 0..n : f[i] = Body(f)[i]
    BY <1>1, <1>8, <1>10
  <2> QED
    BY <1>8, <2>1
<1>12. u = Body(u)
  BY <1>4, <1>11
<1>13. u[0] = b /\ \A i \in 1..n : u[i] = Place(u[i - 1], targets[i])
  <2>1. \A i \in 0..n : Body(u)[i] = IF i = 0 THEN b ELSE Place(u[i - 1], targets[i])
    OBVIOUS
  <2> HIDE DEF Body
  <2>2. \A i \in 0..n : u[i] = IF i = 0 THEN b ELSE Place(u[i - 1], targets[i])
    BY <1>12, <2>1
  <2> QED
    BY <1>1, <2>2
<1> DEFINE H == {i \in 0..n : Placed(i, u[i], media)}
<1>14. 0..n \subseteq H
  <2>1. 0 \in H
    BY <1>1, <1>2, <1>13
  <2>2. ASSUME NEW i \in 1..n, i - 1 \in H PROVE i \in H
    <3>1. Placed(i, Place(u[i - 1], targets[i]), media)
      BY <1>5, <2>2
    <3>2. i \in 0..n
      BY <1>1
    <3> QED
      BY <1>13, <3>1, <3>2
  <2> HIDE DEF H
  <2> QED
    BY <1>1, <2>1, <2>2, UpTo
<1>15. Placed(n, u[n], media)
  <2>1. n \in H
    BY <1>1, <1>14
  <2> QED
    BY <2>1
<1>16. u[n].ok /\ Unique(targets) = u[n].out
  BY <1>3
<1>17. /\ Len(u[n].out) = n /\ \A k \in 1..n : SoundTarget(media[k], u[n].out[k])
       /\ \A j, k \in 1..n : j # k => Key(u[n].out[j]) # Key(u[n].out[k])
  BY <1>15, <1>16 DEF Placed
<1> QED
  BY <1>16, <1>17 DEF n

-----------------------------------------------------------------------------
(* The names of a batch *)

(* The files of the albums, and what is known of their names: a new item   *)
(* has no target yet, a planned one the target of its file if the local    *)
(* downloader may be asked, any other none; and once they were made        *)
(* unique, the targets of the batch are sound and differ.                  *)
Files == UNION {Range(album) : album \in Collected}
ItemNamed(it, d, local) ==
    /\ it.data = d /\ (it.at = "new" => it.bad = {})
    /\ it.target = IF it.at = "plan" /\ local /\ "local" \notin it.bad THEN TargetOf(d) ELSE NoTarget
Planned ==
    \E album \in Collected : /\ Items = DOMAIN album
                             /\ \A i \in Items : ItemNamed(batch.item[i], album[i], Uses("local"))
Apart(item) ==
    /\ \A i \in DOMAIN item : item[i].target # NoTarget => SoundTarget(item[i].data, item[i].target)
    /\ \A i, j \in DOMAIN item : i # j /\ item[i].target # NoTarget /\ item[j].target # NoTarget =>
                                    Key(item[i].target) # Key(item[j].target)
NameInv ==
    /\ batch.at # "idle" => batch.msg \in Messages
    /\ batch.at = "prepare" => Planned
    /\ batch.at = "submit" /\ Uses("local") => Apart(batch.item)

(* The albums are of media, and numbers suffice for each.                  *)
LEMMA CollectedAre ==
    ASSUME NEW album \in Collected
    PROVE  /\ album \in Seq(Media) /\ Len(album) \in Nat /\ DOMAIN album = 1..Len(album) /\ Len(album) < Len(Numeral)
           /\ \A i \in DOMAIN album : album[i] \in Files /\ album[i] \in Media
<1>1. album \in Albums \cup {MediaOf[m] : m \in Messages}
  BY DEF Collected
<1>2. album \in Seq(Media) /\ Len(album) < Len(Numeral)
  BY <1>1, IntakeAssumption, Zenon
<1>3. PICK M : M = Media
  OBVIOUS
<1>4. album \in Seq(M)
  BY <1>2, <1>3
<1>5. Len(album) \in Nat /\ DOMAIN album = 1..Len(album) /\ \A i \in DOMAIN album : album[i] \in M
  BY <1>4
<1>6. \A i \in DOMAIN album : album[i] \in Files
  BY DEF Files, Range
<1> QED
  BY <1>2, <1>3, <1>5, <1>6

(* The table of the targets tells what Target gives.                       *)
LEMMA TargetOfIs ==
    ASSUME NEW d \in Files
    PROVE  TargetOf(d) = Target(d) /\ \E p \in Named : p[2] = Target(d)
<1>1. <<d, Target(d)>> \in Named
  BY Zenon DEF Named, Files
<1>2. \A p \in Named : p[1] = d => p[2] = Target(d)
  <2> SUFFICES ASSUME NEW p \in Named, p[1] = d PROVE p[2] = Target(d)
    OBVIOUS
  <2>1. PICK e \in Files : p = <<e, Target(e)>>
    BY Zenon DEF Named, Files
  <2>2. e = d
    BY <2>1
  <2> QED
    BY <2>1, <2>2
<1>3. PICK q : q = <<d, Target(d)>>
  OBVIOUS
<1>4. q \in Named /\ q[1] = d /\ q[2] = Target(d)
  BY <1>1, <1>3
<1> HIDE DEF Named
<1>5. (CHOOSE p \in Named : p[1] = d) \in Named /\ (CHOOSE p \in Named : p[1] = d)[1] = d
  BY <1>4, Zenon
<1> QED
  BY <1>2, <1>4, <1>5, Zenon DEF TargetOf

(* And the table of the batches what Unique gives.                         *)
LEMMA UniqueOfIs ==
    ASSUME NEW ts \in Batches
    PROVE  UniqueOf(ts) = Unique(ts)
<1>1. <<ts, Unique(ts)>> \in Numbers
  BY Zenon DEF Numbers
<1>2. \A p \in Numbers : p[1] = ts => p[2] = Unique(ts)
  <2> SUFFICES ASSUME NEW p \in Numbers, p[1] = ts PROVE p[2] = Unique(ts)
    OBVIOUS
  <2>1. PICK e \in Batches : p = <<e, Unique(e)>>
    BY Zenon DEF Numbers
  <2>2. e = ts
    BY <2>1
  <2> QED
    BY <2>1, <2>2
<1>3. PICK q : q = <<ts, Unique(ts)>>
  OBVIOUS
<1>4. q \in Numbers /\ q[1] = ts
  BY <1>1, <1>3
<1>5. (CHOOSE p \in Numbers : p[1] = ts) \in Numbers /\ (CHOOSE p \in Numbers : p[1] = ts)[1] = ts
  BY <1>4, Zenon
<1> QED
  BY <1>2, <1>5, Zenon DEF UniqueOf

(* The targets of any files of an album are a batch of the table.          *)
LEMMA BatchListed ==
    ASSUME NEW album \in Collected, NEW n \in Nat, n <= Len(album), NEW ts \in [1..n -> {Target(d) : d \in Files}]
    PROVE  ts \in Batches
<1> DEFINE T == {p[2] : p \in Named}
           L == UNION {0..Len(a) : a \in Collected}
<1>1. n \in L
  <2>1. n \in 0..Len(album)
    BY CollectedAre
  <2> QED
    BY <2>1
<1>2. {Target(d) : d \in Files} \subseteq T
  <2> SUFFICES ASSUME NEW d \in Files PROVE Target(d) \in T
    OBVIOUS
  <2>1. PICK p \in Named : p[2] = Target(d)
    BY TargetOfIs
  <2> QED
    BY <2>1
<1>3. Batches = UNION {[1..m -> T] : m \in L}
  BY DEF Batches
<1> HIDE DEF T, L
<1>4. ts \in [1..n -> T]
  BY <1>2
<1> QED
  BY <1>1, <1>3, <1>4

(* No items, no names.                                                     *)
LEMMA NamesNone ==
    ASSUME batch'.at \notin {"prepare", "submit"}, batch'.at # "idle" => batch'.msg \in Messages
    PROVE  NameInv'
BY DEF NameInv

(* The batch is left alone.                                                *)
LEMMA NamesFrame == NameInv /\ batch' = batch => NameInv'
BY DEF NameInv, Planned, Apart, Items, Uses

(* While items are submitted, their files and targets stay.                *)
NamesKept ==
    /\ batch'.at = batch.at /\ batch'.msg = batch.msg /\ batch'.route = batch.route /\ DOMAIN batch'.item = DOMAIN batch.item
    /\ \A i \in Items : batch'.item[i].data = batch.item[i].data /\ batch'.item[i].target = batch.item[i].target

(* So what is known of them stays known.                                   *)
LEMMA NamesStay == ASSUME NameInv, NamesKept, batch.at = "submit" PROVE NameInv'
<1>1. batch'.at = "submit" /\ batch'.msg \in Messages /\ (Uses("local")' <=> Uses("local"))
  BY DEF NamesKept, Uses, NameInv
<1>2. ASSUME Uses("local") PROVE Apart(batch'.item)
  <2>1. Apart(batch.item)
    BY <1>2 DEF NameInv
  <2> QED
    BY <2>1 DEF Apart, NamesKept, Items
<1> QED
  BY <1>1, <1>2 DEF NameInv

(* One item changes, but not its file nor its target.                      *)
LEMMA NamesItem ==
    ASSUME BatchInv, NEW i \in Items, NEW y, batch' = [batch EXCEPT !.item[i] = y],
           y.data = batch.item[i].data, y.target = batch.item[i].target
    PROVE  NamesKept
<1>1. /\ batch'.at = batch.at /\ batch'.msg = batch.msg /\ batch'.route = batch.route
      /\ batch'.item = [batch.item EXCEPT ![i] = y]
  BY DEF BatchInv, BatchFields
<1>2. /\ DOMAIN batch'.item = DOMAIN batch.item /\ batch'.item[i] = y
      /\ \A j \in DOMAIN batch.item : j # i => batch'.item[j] = batch.item[j]
  BY <1>1 DEF Items
<1> QED
  BY <1>1, <1>2 DEF NamesKept, Items

(* An item moves on the way of its submission.                             *)
LEMMA NamesAt ==
    ASSUME BatchInv, NEW i \in Items, NEW x, batch' = [batch EXCEPT !.item[i].at = x]
    PROVE  NamesKept
<1> DEFINE y == [batch.item[i] EXCEPT !.at = x]
<1>1. DOMAIN batch.item[i] = ItemFields
  BY DEF BatchInv, ItemSound
<1>2. y.data = batch.item[i].data /\ y.target = batch.item[i].target
  BY <1>1 DEF ItemFields
<1>3. batch' = [batch EXCEPT !.item[i] = y]
  OBVIOUS
<1> HIDE DEF y
<1> QED
  BY <1>2, <1>3, NamesItem

(* It is over, and somebody took it or may have.                           *)
LEMMA NamesTook ==
    ASSUME BatchInv, NEW i \in Items, NEW x, NEW t, batch' = [batch EXCEPT !.item[i].at = x, !.item[i].took = t]
    PROVE  NamesKept
<1> DEFINE y == [batch.item[i] EXCEPT !.at = x, !.took = t]
<1>1. DOMAIN batch.item[i] = ItemFields
  BY DEF BatchInv, ItemSound
<1>2. y.data = batch.item[i].data /\ y.target = batch.item[i].target
  BY <1>1 DEF ItemFields
<1>3. batch' = [batch EXCEPT !.item[i] = y]
  BY <1>1 DEF ItemFields
<1> HIDE DEF y
<1> QED
  BY <1>2, <1>3, NamesItem

(* It was taken, but the record of it is lost.                             *)
LEMMA NamesRecord ==
    ASSUME BatchInv, NEW i \in Items, NEW x, NEW t, NEW b,
           batch' = Thrice(batch, i, x, t, b)
    PROVE  NamesKept
<1> DEFINE y == [batch.item[i] EXCEPT !.at = x, !.took = t, !.bad = b]
<1>1. DOMAIN batch.item[i] = ItemFields
  BY DEF BatchInv, ItemSound
<1>2. y.data = batch.item[i].data /\ y.target = batch.item[i].target
  BY <1>1 DEF ItemFields
<1>3. batch' = [batch EXCEPT !.item[i] = y]
  <2>1. "item" \in DOMAIN batch /\ i \in DOMAIN batch.item
    BY DEF BatchInv, BatchFields, Items
  <2>2. y = Reset(batch.item[i], x, t, b)
    BY Zenon DEF Reset
  <2> HIDE DEF y
  <2>3. batch' = Put(batch, i, y)
    BY <2>1, <2>2, ItemThrice, Zenon
  <2> QED
    BY <2>3, Zenon DEF Put
<1> HIDE DEF y
<1> QED
  BY <1>2, <1>3, NamesItem

(* Its executor is asked.                                                  *)
LEMMA NamesEntered ==
    ASSUME BatchInv, NEW i \in Items, NEW x, NEW t, batch' = [batch EXCEPT !.item[i].at = x, !.item[i].entered = t]
    PROVE  NamesKept
<1> DEFINE y == [batch.item[i] EXCEPT !.at = x, !.entered = t]
<1>1. DOMAIN batch.item[i] = ItemFields
  BY DEF BatchInv, ItemSound
<1>2. y.data = batch.item[i].data /\ y.target = batch.item[i].target
  BY <1>1 DEF ItemFields
<1>3. batch' = [batch EXCEPT !.item[i] = y]
  BY <1>1 DEF ItemFields
<1> HIDE DEF y
<1> QED
  BY <1>2, <1>3, NamesItem

(* It was refused or given up.                                             *)
LEMMA NamesRejected ==
    ASSUME BatchInv, NEW i \in Items, batch' \in {Rejected(i), Stuck(i)}
    PROVE  NamesKept
<1> DEFINE it == batch.item[i]
<1>1. DOMAIN it = ItemFields
  BY DEF BatchInv, ItemSound
<1>2. CASE batch' = Rejected(i)
  <2> DEFINE y == IF it.k = Len(batch.route) THEN [it EXCEPT !.at = "failed", !.entered = FALSE]
                  ELSE [it EXCEPT !.at = "route", !.k = it.k + 1, !.entered = FALSE]
  <2>1. y.data = it.data /\ y.target = it.target
    BY <1>1 DEF ItemFields
  <2>2. batch' = [batch EXCEPT !.item[i] = y]
    BY <1>2 DEF Rejected
  <2> HIDE DEF y
  <2> QED
    BY <2>1, <2>2, NamesItem
<1>3. CASE batch' = Stuck(i)
  <2>1. PICK x : x = IF it.entered THEN "uncertain" ELSE "failed"
    OBVIOUS
  <2>2. batch' = [batch EXCEPT !.item[i].at = x]
    BY <1>3, <2>1 DEF Stuck
  <2> QED
    BY <2>2, NamesAt
<1> QED
  BY <1>2, <1>3

(* The steps of the workers.                                               *)
LEMMA NamesSubmit ==
    ASSUME BatchInv, NameInv, NEW i \in Items, Register(i) \/ Offer(i) \/ ExecutorReturns(i)
    PROVE  NameInv'
<1>1. batch.at = "submit"
  <2>1. batch.item[i].at \notin Fresh \/ batch.at = "submit"
    BY DEF Register, Offer, ExecutorReturns, Fresh
  <2>2. batch.at \in {"prepare", "submit"}
    <3>1. DOMAIN batch.item # DOMAIN <<>>
      BY DEF Items
    <3> QED
      BY <3>1 DEF BatchInv
  <2> QED
    BY <2>1, <2>2 DEF BatchInv
<1>2. CASE Register(i)
  BY <1>2, NamesAt, NamesStay, <1>1 DEF Register
<1>3. CASE Offer(i)
  <2>1. \/ batch' \in {Rejected(i), Stuck(i)}
        \/ batch' = [batch EXCEPT !.item[i].at = "skipped"]
        \/ batch' = [batch EXCEPT !.item[i].at = "queued", !.item[i].took = batch.item[i].took \cup {Executor(i)}]
        \/ batch' = [batch EXCEPT !.item[i].at = "inside", !.item[i].entered = TRUE]
    BY <1>3 DEF Offer
  <2>2. NamesKept
    BY <2>1, NamesRejected, NamesAt, NamesTook, NamesEntered
  <2> QED
    BY <1>1, <2>2, NamesStay
<1>4. CASE ExecutorReturns(i)
  <2>0. DOMAIN batch.item[i] = ItemFields
    BY DEF BatchInv, ItemSound
  <2>1. \/ batch' = Rejected(i)
        \/ batch' = [batch EXCEPT !.item[i].at = "queued", !.item[i].took = batch.item[i].took \cup {Executor(i)}]
        \/ \E did : batch' = [batch EXCEPT !.item[i].at = "uncertain", !.item[i].took = batch.item[i].took \cup did]
        \/ \E did : batch' = [batch EXCEPT !.item[i].at = "queued", !.item[i].took = batch.item[i].took \cup did,
                                           !.item[i].bad = batch.item[i].bad \cup {"record"}]
    BY <1>4, <2>0 DEF ExecutorReturns, Accepted, Unclear, Unrecorded, ItemFields
  <2>2. NamesKept
    <3>1. CASE batch' = Rejected(i)
      BY <3>1, NamesRejected
    <3>2. CASE \E did : batch' = [batch EXCEPT !.item[i].at = "uncertain", !.item[i].took = batch.item[i].took \cup did]
      <4>1. PICK did : batch' = [batch EXCEPT !.item[i].at = "uncertain", !.item[i].took = batch.item[i].took \cup did]
        BY <3>2
      <4>2. PICK t : t = batch.item[i].took \cup did
        OBVIOUS
      <4> QED
        BY <4>1, <4>2, NamesTook
    <3>3. CASE \E did : batch' = [batch EXCEPT !.item[i].at = "queued", !.item[i].took = batch.item[i].took \cup did,
                                              !.item[i].bad = batch.item[i].bad \cup {"record"}]
      <4>1. PICK did : batch' = [batch EXCEPT !.item[i].at = "queued", !.item[i].took = batch.item[i].took \cup did,
                                              !.item[i].bad = batch.item[i].bad \cup {"record"}]
        BY <3>3
      <4>2. PICK t, b : t = batch.item[i].took \cup did /\ b = batch.item[i].bad \cup {"record"}
        OBVIOUS
      <4>3. batch' = Thrice(batch, i, "queued", batch.item[i].took \cup did, batch.item[i].bad \cup {"record"})
        BY <4>1, Zenon DEF Thrice
      <4>4. batch' = Thrice(batch, i, "queued", t, b)
        BY <4>2, <4>3
      <4> QED
        BY <4>4, NamesRecord
    <3>4. CASE batch' = [batch EXCEPT !.item[i].at = "queued", !.item[i].took = batch.item[i].took \cup {Executor(i)}]
      BY <3>4, NamesTook
    <3> QED
      BY <2>1, <3>1, <3>2, <3>3, <3>4
  <2> QED
    BY <1>1, <2>2, NamesStay
<1> QED
  BY <1>2, <1>3, <1>4

(* An album is collected: its items are new.                               *)
LEMMA NamesCollect == ASSUME BatchInv, NameInv, Collect PROVE NameInv'
<1>0. batch.msg \in Messages
  BY DEF Collect, NameInv
<1>1. CASE batch' = [batch EXCEPT !.at = "failed"]
  <2>1. batch'.at = "failed" /\ batch'.msg = batch.msg
    BY <1>1 DEF BatchInv, BatchFields
  <2> QED
    BY <1>0, <2>1, NamesNone
<1>2. ASSUME NEW album \in Albums \cup {MediaOf[batch.msg]},
             batch' = [batch EXCEPT !.at = "prepare", !.item = [i \in DOMAIN album |-> NewItem(album[i])]]
      PROVE  NameInv'
  <2>1. /\ batch'.at = "prepare" /\ batch'.msg = batch.msg /\ batch'.item = [i \in DOMAIN album |-> NewItem(album[i])]
    BY <1>2 DEF BatchInv, BatchFields
  <2>2. album \in Collected
    BY <1>0, <1>2 DEF Collected
  <2>3. ASSUME NEW i \in DOMAIN album, NEW l PROVE ItemNamed(batch'.item[i], album[i], l)
    <3>1. PICK it : it = batch'.item[i]
      OBVIOUS
    <3>2. it = NewItem(album[i])
      BY <2>1, <3>1
    <3>3. it.at = "new" /\ it.data = album[i] /\ it.target = NoTarget /\ it.bad = {}
      BY <3>2 DEF NewItem
    <3> QED
      BY <3>1, <3>3 DEF ItemNamed
  <2>4. Items' = DOMAIN album
    BY <2>1 DEF Items
  <2>5. Planned'
    BY <2>2, <2>3, <2>4 DEF Planned
  <2> QED
    BY <1>0, <2>1, <2>5 DEF NameInv
<1> QED
  BY <1>1, <1>2 DEF Collect

(* The item being prepared gets the target of its file, or none.           *)
LEMMA NamesPrepare == ASSUME BatchInv, NameInv, NEW i \in Items, Prepare(i) PROVE NameInv'
<1> DEFINE it == batch.item[i]
<1>1. PICK album \in Collected : Items = DOMAIN album /\ \A j \in Items : ItemNamed(batch.item[j], album[j], Uses("local"))
  BY DEF NameInv, Planned, Prepare
<1>2. /\ batch.at = "prepare" /\ it.at = "new" /\ DOMAIN it = ItemFields /\ DOMAIN batch = BatchFields
      /\ batch.msg \in Messages
  BY DEF BatchInv, Prepare, ItemSound, NameInv
<1>3. it.data = album[i] /\ it.bad = {} /\ it.target = NoTarget
  BY <1>1, <1>2 DEF ItemNamed
<1>4. ASSUME NEW y, batch' = [batch EXCEPT !.item[i] = y], ItemNamed(y, album[i], Uses("local"))
      PROVE  NameInv'
  <2>1. /\ batch'.at = "prepare" /\ batch'.msg = batch.msg /\ batch'.route = batch.route
        /\ batch'.item = [batch.item EXCEPT ![i] = y]
    BY <1>2, <1>4 DEF BatchFields
  <2>2. /\ DOMAIN batch'.item = Items /\ batch'.item[i] = y
        /\ \A j \in Items : j # i => batch'.item[j] = batch.item[j]
    BY <2>1 DEF Items
  <2>3. \A j \in Items : ItemNamed(batch'.item[j], album[j], Uses("local"))
    BY <1>1, <1>4, <2>2
  <2>4. PICK l : l = Uses("local")
    OBVIOUS
  <2>5. Uses("local")' = l
    BY <2>1, <2>4 DEF Uses
  <2>6. Items' = DOMAIN album
    BY <1>1, <2>2 DEF Items
  <2>7. Planned'
    BY <1>1, <2>3, <2>4, <2>5, <2>6 DEF Planned
  <2> QED
    BY <1>2, <2>1, <2>7 DEF NameInv
<1>5. ASSUME NEW x \in {"failed", "skipped"}, batch' = [batch EXCEPT !.item[i].at = x]
      PROVE  NameInv'
  <2> DEFINE y == [it EXCEPT !.at = x]
  <2>1. y.at = x /\ y.data = it.data /\ y.bad = it.bad /\ y.target = it.target
    BY <1>2 DEF ItemFields
  <2>2. batch' = [batch EXCEPT !.item[i] = y]
    BY <1>5
  <2> HIDE DEF y
  <2>3. ItemNamed(y, album[i], Uses("local"))
    BY <1>3, <2>1 DEF ItemNamed
  <2> QED
    BY <1>4, <2>2, <2>3
<1>6. CASE batch' = Plan(i)
  <2>1. PICK x : x = IF Uses("local") THEN TargetOf(it.data) ELSE NoTarget
    OBVIOUS
  <2> DEFINE y == [it EXCEPT !.at = "plan", !.target = x]
  <2>2. y.at = "plan" /\ y.data = it.data /\ y.bad = it.bad /\ y.target = x
    BY <1>2 DEF ItemFields
  <2>3. batch' = [batch EXCEPT !.item[i].at = "plan", !.item[i].target = x]
    BY <1>6, <2>1 DEF Plan
  <2>4. batch' = [batch EXCEPT !.item[i] = y]
    BY <1>2, <2>3 DEF ItemFields
  <2> HIDE DEF y
  <2>5. ItemNamed(y, album[i], Uses("local"))
    BY <1>3, <2>1, <2>2 DEF ItemNamed
  <2> QED
    BY <1>4, <2>4, <2>5
<1>7. CASE batch' = [batch EXCEPT !.item[i].at = "plan", !.item[i].bad = {"local"}]
  <2> DEFINE y == [it EXCEPT !.at = "plan", !.bad = {"local"}]
  <2>1. y.at = "plan" /\ y.data = it.data /\ y.bad = {"local"} /\ y.target = it.target
    BY <1>2 DEF ItemFields
  <2>2. batch' = [batch EXCEPT !.item[i] = y]
    BY <1>2, <1>7 DEF ItemFields, BatchFields
  <2> HIDE DEF y
  <2>3. ItemNamed(y, album[i], Uses("local"))
    BY <1>3, <2>1 DEF ItemNamed
  <2> QED
    BY <1>4, <2>2, <2>3
<1> QED
  BY <1>5, <1>6, <1>7 DEF Prepare

(* There are l numbers up to l.                                            *)
LEMMA UptoSize == ASSUME NEW l \in Nat PROVE IsFiniteSet(1..l) /\ Cardinality(1..l) = l
<1>1. 1 \in Int /\ l \in Int
  OBVIOUS
<1>2. IsFiniteSet(1..l) /\ Cardinality(1..l) = IF 1 > l THEN 0 ELSE l - 1 + 1
  BY <1>1, FS_Interval, Zenon
<1> QED
  BY <1>2

(* A function of the first n numbers is a sequence of n values.            *)
LEMMA FunctionSeq ==
    ASSUME NEW n \in Nat, NEW T, NEW g \in [1..n -> T]
    PROVE  g \in Seq(T) /\ Len(g) = n
OBVIOUS

(* The targets of some files of an album, and what it means that paths for *)
(* them are sound and do not collide.                                      *)
TargetsAt(album, S) == [k \in 1..Cardinality(S) |-> Target(album[Ascending(S)[k]])]
Spread(album, S, u) ==
    /\ \A k \in 1..Cardinality(S) : SoundTarget(album[Ascending(S)[k]], u[k])
    /\ \A j, k \in 1..Cardinality(S) : j # k => Key(u[j]) # Key(u[k])

(* Made unique, the targets of an album are so.                            *)
LEMMA AlbumApart ==
    ASSUME NEW album \in Collected, NEW S, S \subseteq DOMAIN album, NEW u, u = UniqueOf(TargetsAt(album, S)), u # <<>>
    PROVE  Spread(album, S, u)
<1>0. PICK ts : ts = TargetsAt(album, S) /\ ts = [k \in 1..Cardinality(S) |-> Target(album[Ascending(S)[k]])]
  BY DEF TargetsAt
<1> DEFINE N == Cardinality(S)
           media == [k \in 1..N |-> album[Ascending(S)[k]]]
<1>1. PICK l \in Nat : l = Len(album)
  BY CollectedAre
<1>2. DOMAIN album = 1..l /\ l < Len(Numeral) /\ \A i \in DOMAIN album : album[i] \in Files /\ album[i] \in Media
  BY <1>1, CollectedAre
<1>3. IsFiniteSet(S) /\ S \subseteq Nat /\ N <= l
  <2>1. IsFiniteSet(1..l) /\ Cardinality(1..l) = l
    BY <1>1, UptoSize
  <2>2. S \in SUBSET (1..l)
    BY <1>2
  <2>3. IsFiniteSet(S) /\ Cardinality(S) <= Cardinality(1..l)
    BY <2>1, <2>2, FS_Subset
  <2> QED
    BY <2>1, <2>2, <2>3
<1>4. N \in Nat /\ \A k \in 1..N : Ascending(S)[k] \in S
  BY <1>3, AscendingIs
<1>5. PICK n \in Nat : n = N
  BY <1>4
<1>6. PICK m \in Nat : m = Len(Numeral)
  <2>1. Numeral \in Seq(Seq(Runes))
    BY NamingAssumption, Zenon
  <2> QED
    BY <2>1
<1>7. \A k \in 1..n : media[k] \in Files /\ media[k] \in Media /\ ts[k] = Target(media[k])
  BY <1>0, <1>2, <1>4, <1>5
<1> HIDE DEF media
<1>8. ts \in Seq(Targets) /\ Len(ts) = n
  <2>1. \A k \in 1..n : ts[k] \in Targets
    BY <1>7, TargetIs
  <2>2. ts = [k \in 1..n |-> Target(media[k])]
    BY <1>0, <1>5 DEF media
  <2>3. PICK g : g = [k \in 1..n |-> Target(media[k])]
    OBVIOUS
  <2>4. DOMAIN g = 1..n /\ g = ts /\ \A k \in 1..n : g[k] \in Targets
    BY <2>1, <2>2, <2>3
  <2>5. g \in [1..n -> Targets]
    BY <2>3, <2>4
  <2>6. g \in Seq(Targets) /\ Len(g) = n
    BY <1>5, <2>5, FunctionSeq
  <2> QED
    BY <2>4, <2>6
<1>9. UniqueOf(ts) = Unique(ts)
  <2>1. n <= Len(album)
    BY <1>1, <1>3, <1>5
  <2>2. ts \in Batches
    <3>1. PICK T : T = {Target(d) : d \in Files}
      OBVIOUS
    <3>2. \A k \in 1..n : Target(media[k]) \in T
      BY <1>7, <3>1
    <3>3. ts = [k \in 1..n |-> Target(media[k])]
      BY <1>0, <1>5 DEF media
    <3>4. ts \in [1..n -> T]
      BY <3>2, <3>3
    <3> QED
      BY <2>1, <3>1, <3>4, BatchListed
  <2> QED
    BY <2>2, UniqueOfIs
<1>10. \A k \in 1..Len(ts) : media[k] \in Media /\ SoundTarget(media[k], ts[k])
  BY <1>7, <1>8, TargetIs
<1>11. Len(ts) < Len(Numeral)
  BY <1>1, <1>2, <1>3, <1>5, <1>6, <1>8
<1>12. u = Unique(ts)
  BY <1>0, <1>9
<1>13. /\ \A k \in 1..Len(ts) : SoundTarget(media[k], Unique(ts)[k])
       /\ \A j, k \in 1..Len(ts) : j # k => Key(Unique(ts)[j]) # Key(Unique(ts)[k])
  BY <1>8, <1>10, <1>11, <1>12, UniqueIs
<1> QED
  BY <1>5, <1>8, <1>12, <1>13 DEF media, Spread

(* Making the targets unique.                                              *)
LEMMA NamesMakeUnique == ASSUME BatchInv, NameInv, MakeUnique PROVE NameInv'
<1>1. PICK album \in Collected : Items = DOMAIN album /\ \A j \in Items : ItemNamed(batch.item[j], album[j], Uses("local"))
  BY DEF NameInv, Planned, MakeUnique
<1>2. batch.at = "prepare" /\ DOMAIN batch = BatchFields /\ batch.msg \in Messages
  BY DEF BatchInv, MakeUnique, NameInv
<1> DEFINE S == {i \in At({"plan"}) : Uses("local") /\ "local" \notin batch.item[i].bad}
           named == Ascending(S)
           ts == [k \in DOMAIN named |-> batch.item[named[k]].target]
           place(i) == CHOOSE k \in DOMAIN named : named[k] = i
<1>3. PICK ok \in BOOLEAN, unique \in {UniqueOf(ts)} :
        batch' = [batch EXCEPT !.at = "submit", !.item = [i \in Items |->
                IF i \notin Range(named) THEN batch.item[i]
                ELSE IF ok /\ unique # <<>> THEN [batch.item[i] EXCEPT !.target = unique[place(i)]]
                ELSE [batch.item[i] EXCEPT !.bad = {"local"}, !.target = NoTarget]]]
  BY DEF MakeUnique
<1>4. /\ S \in SUBSET Items
      /\ \A i \in S : Uses("local") /\ batch.item[i].at = "plan" /\ "local" \notin batch.item[i].bad
      /\ Uses("local") => \A i \in Items : i \notin S => batch.item[i].at # "plan" \/ "local" \in batch.item[i].bad
  BY DEF At
<1>5. IsFiniteSet(S) /\ S \subseteq Nat
  <2>1. PICK l \in Nat : DOMAIN album = 1..l
    BY CollectedAre
  <2>2. IsFiniteSet(1..l)
    BY <2>1, FS_Interval
  <2>3. S \in SUBSET (1..l)
    BY <1>1, <1>4, <2>1
  <2> HIDE DEF S
  <2>4. IsFiniteSet(S)
    BY <2>2, <2>3, FS_Subset
  <2> QED
    BY <2>1, <2>3, <2>4
<1>6. /\ DOMAIN named = 1..Cardinality(S)
      /\ \A k \in 1..Cardinality(S) : named[k] \in S
      /\ \A i \in S : \E k \in 1..Cardinality(S) : named[k] = i
  <2> HIDE DEF S
  <2>1. DOMAIN named = 1..Cardinality(S)
    BY DEF Ascending
  <2> QED
    BY <1>5, <2>1, AscendingIs
<1> HIDE DEF S
<1>7. Range(named) = S
  BY <1>6 DEF Range
<1>8. ts = [k \in 1..Cardinality(S) |-> Target(album[Ascending(S)[k]])]
  <2>1. ASSUME NEW k \in 1..Cardinality(S) PROVE batch.item[named[k]].target = Target(album[named[k]])
    <3>1. PICK i \in S : i = named[k]
      BY <1>6
    <3>2. batch.item[i].target = TargetOf(album[i])
      BY <1>1, <1>4 DEF ItemNamed
    <3>3. album[i] \in Files
      BY <1>1, <1>4, CollectedAre
    <3> QED
      BY <3>1, <3>2, <3>3, TargetOfIs
  <2> QED
    BY <1>6, <2>1
<1> HIDE DEF ts
<1>9. /\ batch'.at = "submit" /\ batch'.msg = batch.msg /\ batch'.route = batch.route
      /\ DOMAIN batch'.item = Items
      /\ \A i \in Items :
            /\ i \notin S => batch'.item[i] = batch.item[i]
            /\ i \in S /\ ok /\ unique # <<>> => batch'.item[i] = [batch.item[i] EXCEPT !.target = unique[place(i)]]
            /\ i \in S /\ ~(ok /\ unique # <<>>) =>
                  batch'.item[i] = [batch.item[i] EXCEPT !.bad = {"local"}, !.target = NoTarget]
  <2> HIDE DEF place
  <2> QED
    BY <1>2, <1>3, <1>7 DEF BatchFields
<1>10. ASSUME NEW i \in S PROVE place(i) \in 1..Cardinality(S) /\ named[place(i)] = i
  BY <1>6, <1>10
<1> HIDE DEF place, named
<1>11. ASSUME Uses("local") PROVE Apart(batch'.item)
  <2>1. ASSUME NEW i \in Items
        PROVE  /\ batch'.item[i].data = album[i]
               /\ i \notin S => batch'.item[i].target = NoTarget
               /\ i \in S /\ ok /\ unique # <<>> => batch'.item[i].target = unique[place(i)]
               /\ i \in S /\ ~(ok /\ unique # <<>>) => batch'.item[i].target = NoTarget
    <3>1. DOMAIN batch.item[i] = ItemFields
      BY DEF BatchInv, ItemSound
    <3>2. batch.item[i].data = album[i] /\ (i \notin S => batch.item[i].target = NoTarget)
      BY <1>1, <1>4, <1>11 DEF ItemNamed
    <3>3. CASE i \notin S
      BY <1>9, <3>2, <3>3
    <3>4. CASE i \in S /\ ok /\ unique # <<>>
      BY <1>9, <3>1, <3>2, <3>4 DEF ItemFields
    <3>5. CASE i \in S /\ ~(ok /\ unique # <<>>)
      BY <1>9, <3>1, <3>2, <3>5 DEF ItemFields
    <3> QED
      BY <3>3, <3>4, <3>5
  <2>2. CASE ok /\ unique # <<>>
    <3>1. /\ \A k \in 1..Cardinality(S) : SoundTarget(album[Ascending(S)[k]], unique[k])
          /\ \A j, k \in 1..Cardinality(S) : j # k => Key(unique[j]) # Key(unique[k])
      <4>1. PICK u, P : u = unique /\ P = S
        OBVIOUS
      <4>2. ts = TargetsAt(album, P)
        BY <1>8, <4>1 DEF TargetsAt
      <4>3. u = UniqueOf(TargetsAt(album, P)) /\ u # <<>> /\ P \subseteq DOMAIN album
        BY <1>1, <1>4, <2>2, <4>1, <4>2
      <4>4. Spread(album, P, u)
        BY <4>3, AlbumApart
      <4> QED
        BY <4>1, <4>4 DEF Spread
    <3>2. ASSUME NEW i \in Items, batch'.item[i].target # NoTarget
          PROVE  SoundTarget(batch'.item[i].data, batch'.item[i].target)
      <4>1. i \in S /\ batch'.item[i].data = album[i] /\ batch'.item[i].target = unique[place(i)]
        BY <2>1, <2>2, <3>2
      <4>2. place(i) \in 1..Cardinality(S) /\ Ascending(S)[place(i)] = i
        BY <1>10, <4>1 DEF named
      <4> QED
        BY <3>1, <4>1, <4>2
    <3>3. ASSUME NEW i \in Items, NEW j \in Items, i # j, batch'.item[i].target # NoTarget, batch'.item[j].target # NoTarget
          PROVE  Key(batch'.item[i].target) # Key(batch'.item[j].target)
      <4>1. i \in S /\ batch'.item[i].target = unique[place(i)] /\ j \in S /\ batch'.item[j].target = unique[place(j)]
        BY <2>1, <2>2, <3>3
      <4>2. place(i) \in 1..Cardinality(S) /\ place(j) \in 1..Cardinality(S) /\ place(i) # place(j)
        BY <1>10, <3>3, <4>1
      <4> QED
        BY <3>1, <4>1, <4>2
    <3> QED
      BY <1>9, <3>2, <3>3 DEF Apart
  <2>3. CASE ~(ok /\ unique # <<>>)
    <3>1. \A i \in Items : batch'.item[i].target = NoTarget
      BY <2>1, <2>3
    <3> QED
      BY <1>9, <3>1 DEF Apart
  <2> QED
    BY <2>2, <2>3
<1>12. Uses("local")' <=> Uses("local")
  BY <1>9 DEF Uses
<1> QED
  BY <1>2, <1>9, <1>11, <1>12 DEF NameInv

(* A batch is of a message of the account.                                 *)
LEMMA NamesTakeIntent == ASSUME LinkInv, NameInv, TakeIntent PROVE NameInv'
<1>1. CASE batch' = batch
  BY <1>1, NamesFrame
<1>2. CASE batch' = [NoBatch EXCEPT !.at = "taken", !.msg = Head(bus).msg, !.call = Head(bus).call]
  <2>1. batch'.at = "taken" /\ batch'.msg = Head(bus).msg
    BY <1>2 DEF NoBatch
  <2>2. bus \in Seq(Intent) /\ bus # <<>>
    BY DEF LinkInv, BusSound, TakeIntent
  <2>3. Head(bus) \in Intent
    BY <2>2
  <2>4. Head(bus).msg \in Messages
    BY <2>3 DEF Intent
  <2> QED
    BY <2>1, <2>4, NamesNone
<1> QED
  BY <1>1, <1>2 DEF TakeIntent

(* It begins without items.                                                *)
LEMMA NamesBeginBatch == ASSUME BatchInv, NameInv, BeginBatch PROVE NameInv'
<1>1. batch'.at \in {"begun", "failed"} /\ batch'.msg = batch.msg /\ batch.at = "taken"
  BY DEF BatchInv, BeginBatch, BatchFields
<1> QED
  BY <1>1, NamesNone DEF NameInv

(* What is known of the names is kept by every step.                       *)
LEMMA NamesInductive == IntakeInv /\ NameInv /\ [Next]_vars => NameInv'
<1> SUFFICES ASSUME IntakeInv, NameInv, [Next]_vars PROVE NameInv'
  OBVIOUS
<1>1. BatchInv /\ LinkInv
  BY DEF IntakeInv
<1>2. CASE batch' = batch
  BY <1>2, NamesFrame
<1>3. CASE BatchWork
  BY <1>1, <1>3, NamesBeginBatch, NamesCollect, NamesMakeUnique, NamesPrepare, NamesSubmit DEF BatchWork
<1>4. CASE TakeIntent
  BY <1>1, <1>4, NamesTakeIntent
<1>5. CASE FinishBatch
  <2>1. batch'.at = "idle"
    BY <1>5 DEF FinishBatch, NoBatch
  <2> QED
    BY <2>1, NamesNone
<1>6. CASE UNCHANGED vars
  BY <1>2, <1>6 DEF vars
<1>7. CASE Outside
  <2>1. batch' = batch
    BY <1>7 DEF Outside, React, TellAgain, NewMessage, Submit, Leave, StopTrigger, StopControl, StartControl, Reroute, Drop,
                StopWatch, StartWatch, batchVars
  <2> QED
    BY <1>2, <2>1
<1>8. CASE Internal
  <2>1. CASE \E m \in Messages : OnUpdate(m) \/ EnqueueDownload(m) \/ PublishForward(m)
    BY <1>2, <2>1 DEF OnUpdate, EnqueueDownload, PublishForward, batchVars
  <2>2. CASE \E c \in Callers : Send(c) \/ GiveUp(c) \/ Answered(c)
    BY <1>2, <2>2 DEF Send, GiveUp, Answered, batchVars
  <2>3. CASE TakeForward \/ ForwardProcessed \/ Dispatch \/ ResolveLink \/ AbandonIntent
    BY <1>2, <2>3 DEF TakeForward, ForwardProcessed, Dispatch, ResolveLink, AbandonIntent, batchVars
  <2>4. CASE ControlStopped \/ Connect \/ DispatchDone \/ IntentsDrained \/ Release \/ RunEnds
    BY <1>2, <2>4 DEF ControlStopped, Connect, DispatchDone, IntentsDrained, Release, RunEnds, batchVars
  <2> QED
    BY <1>3, <1>4, <1>5, <1>8, <2>1, <2>2, <2>3, <2>4 DEF Internal, BatchWork
<1> QED
  BY <1>6, <1>7, <1>8 DEF Next

(* What a batch tells is right (rte/targetpath, naming.rules,              *)
(* download.control, watch.Controller): however the files of an album are  *)
(* named, the local targets of a batch are pairwise different, also where  *)
(* the file system ignores case, stay below the root and within the limit  *)
(* of bytes, and keep the extension where there is room; and a caller is   *)
(* told of his own link.                                                   *)
THEOREM IntakeAnswersRight == Spec => []AnswersRight
<1>1. NameInv => TargetsDistinct
  <2> SUFFICES ASSUME NameInv, batch.at = "submit", Uses("local") PROVE TargetsDistinct
    BY DEF TargetsDistinct
  <2>1. Apart(batch.item)
    BY DEF NameInv
  <2> QED
    BY <2>1 DEF Apart, TargetsDistinct, Items
<1>2. IntakeInv => CallsTrue
  BY DEF IntakeInv, LinkInv, CallsSound, CallSound, CallsTrue
<1>3. Init => NameInv
  <2>1. Init => batch.at = "idle"
    BY DEF Init, NoBatch
  <2> QED
    BY <2>1 DEF NameInv
<1>4. IntakeInv /\ NameInv => AnswersRight
  BY <1>1, <1>2 DEF AnswersRight
<1> QED
  BY <1>3, <1>4, Initial, Inductive, NamesInductive, PTL DEF Spec
=============================================================================
