------------------------- MODULE ResourceOwnership -------------------------
(***************************************************************************)
(* What the lifecycle graph promises of the resources it manages           *)
(* (rte/reconciler.go): a resource is taken once, on providers that are    *)
(* held, and is given back only when nobody who was started on it still    *)
(* holds anything.                                                         *)
(***************************************************************************)
CONSTANT Units

VARIABLES
    held,   \* what a unit holds: nothing, a running resource, or the rest of one that ended
    bound   \* the providers a unit was started on

vars == <<held, bound>>

Holdings == {"none", "up", "exited"}
TypeOK == held \in [Units -> Holdings] /\ bound \in [Units -> SUBSET Units]

Init == held = [u \in Units |-> "none"] /\ bound = [u \in Units |-> {}]

Consumers(u) == {c \in Units : held[c] # "none" /\ u \in bound[c]}

(* A start, also one that failed halfway and could not be undone.          *)
Take(u) ==
    /\ held[u] = "none"
    /\ \E req \in SUBSET {p \in Units \ {u} : held[p] # "none"}, h \in {"up", "exited"} :
          /\ held' = [held EXCEPT ![u] = h]
          /\ bound' = [bound EXCEPT ![u] = req]

(* A stop that succeeded.                                                  *)
GiveBack(u) ==
    /\ held[u] # "none" /\ Consumers(u) = {}
    /\ held' = [held EXCEPT ![u] = "none"]
    /\ UNCHANGED bound

(* The resource ends by itself, or in a stop that did not finish.          *)
End(u) ==
    /\ held[u] = "up"
    /\ held' = [held EXCEPT ![u] = "exited"]
    /\ UNCHANGED bound

Next == \E u \in Units : Take(u) \/ GiveBack(u) \/ End(u)

Spec == Init /\ [][Next]_vars

-----------------------------------------------------------------------------
(* No unit holds anything after a provider it was started on was stopped.  *)
ProvidersOutlive ==
    \A c \in Units : held[c] # "none" => \A p \in bound[c] : held[p] # "none"
=============================================================================
