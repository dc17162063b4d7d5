---------------------------- MODULE MCReconciler ----------------------------
(***************************************************************************)
(* Instances of Reconciler for TLC.                                        *)
(***************************************************************************)
EXTENDS Reconciler, TLC
CONSTANTS a, b, c

Unit(want, rev, req) == [want |-> want, rev |-> rev, req |-> req]

(* A chain like host.policies, host.account, bot.                          *)
Chain == a :> Unit("on", 1, {}) @@ b :> Unit("on", 1, {a}) @@ c :> Unit("on", 1, {b})
(* The provider in the middle changes, its consumer does not.              *)
NewMiddle == [Chain EXCEPT ![b] = Unit("on", 2, {a})]
(* The graph is turned round.                                              *)
Turned == a :> Unit("on", 1, {b}) @@ b :> Unit("on", 1, {}) @@ c :> Unit("on", 1, {b})
(* The middle is disabled while its consumer stays wanted.                 *)
MiddleOff == [Chain EXCEPT ![b] = Unit("off", 1, {a})]
(* Two units are dropped from the list.                                    *)
OnlyFirst == [Chain EXCEPT ![b] = Unit("none", 0, {}), ![c] = Unit("none", 0, {})]
(* Shutdown.                                                               *)
AllOff == [u \in Units |-> [Chain[u] EXCEPT !.want = "off"]]

FewPlans == {Chain, NewMiddle, Turned, MiddleOff, OnlyFirst, AllOff}
=============================================================================
