---------------------------- MODULE RuntimeHost ----------------------------
(***************************************************************************)
(* One component host and what it promises: ComponentRuntime under names   *)
(* of its own, so that a module can speak of a host next to the reconciler *)
(* and the process it belongs to (RteProofs does).                         *)
(***************************************************************************)
CONSTANTS Comps, Required, Optional, Work, Capacity, MaxOps, MaxFaults
VARIABLES order, instances, ports, flags, parentDone, tasks, stage, pending, request, objects,
          policy, ops, faults

Host == INSTANCE ComponentRuntime
        WITH inst <- instances, phase <- stage, todo <- pending, call <- request

ASSUME HostAssumption == Host!RuntimeAssumption

HostSpec == Host!Spec
HostFairSpec == Host!FairSpec

(* Ports are safe to use: nobody works on a stopped or replaced object,    *)
(* and there is one object per component, none in a stopped host           *)
(* (rte.go:487-520, reconcile_components.go:58-80).                        *)
PortsSound == Host!NoDanglingPort /\ Host!BoundToCurrent /\ Host!OneObject

(* A batch of configurations is live completely or not at all once the     *)
(* call has returned (ReconfigureBatch: "cannot leave half of a policy     *)
(* update applied"; "a failed save cannot change live policy").            *)
WholePolicy ==
    stage = "idle" => \A c \in order : instances[c].state = "Running" => instances[c].cfg = policy[c]

(* Every call returns (Runtime.mu is never held for ever), and a stop is   *)
(* completed although drains time out and hooks fail.                      *)
HostSettles == Host!StopCompletes /\ Host!CallsReturn
=============================================================================
