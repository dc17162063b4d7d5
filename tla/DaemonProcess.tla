---------------------------- MODULE DaemonProcess ---------------------------
(***************************************************************************)
(* The process and what it promises: Daemon under names of its own, so     *)
(* that a module can speak of it next to the reconciler that starts its    *)
(* units (RteProofs does).                                                 *)
(***************************************************************************)
CONSTANTS Calls, Edits, OldFiles, Releases, Latest, MaxRestarts, Scenarios, MaxOutside
VARIABLES disk, intended, blind, panelCall, patchMu, sysMu, instance, active, main, transitions, turn, proc,
          hung, ask, ending, owed, helper, exe, kinds, outside

Proc == INSTANCE Daemon
        WITH MaxEvents <- MaxOutside, call <- panelCall, events <- outside, flags <- ending, wanted <- intended,
             d <- main

ASSUME ProcessAssumption == Proc!DaemonAssumption

ProcessSpec == Proc!Spec

(* What the user asked for is what happens: every acknowledged change is   *)
(* in the file (rte/directory.go), and the process ends in the way asked   *)
(* for (app/runtime).                                                      *)
RequestsHonoured == Proc!SavesExact /\ Proc!RestartHonoured

(* Nothing is doubled, left running or lost on the way out: one invocation *)
(* per process (rte/process.go), none after a clean exit, and always a     *)
(* whole executable (update.self).                                         *)
ProcessSound == Proc!OneInvocation /\ Proc!CleanExit /\ Proc!ExecutableKept

(* Every call is answered, every transition and request comes to its end,  *)
(* and the process runs or is gone.                                        *)
AllSettles == <>[]Proc!Settled
=============================================================================
