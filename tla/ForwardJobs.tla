----------------------------- MODULE ForwardJobs ----------------------------
(***************************************************************************)
(* The forward queue and what it promises: ForwardQueue under names of its *)
(* own, so that a module can speak of it next to the router that fills it  *)
(* (ForwardProofs does).                                                   *)
(***************************************************************************)
CONSTANTS Ids, JobMessage, Routed, Policies, Events, MaxEvents, NoJob
VARIABLES status, attempts, later, created, finished, expired, wpc, cur, mine, runErr, activeID,
          jobDone, serveDone, wake, policy, events, failed, claimed, sent, ever, again, excuse, fails

Queue == INSTANCE ForwardQueue WITH MessageOf <- JobMessage, None <- NoJob

ASSUME JobsAssumption == Queue!QueueAssumption

QueueSpec == Queue!Spec
QueueFairSpec == Queue!FairSpec

(* The worker holds what is running and is awake for what is queued, so    *)
(* that no job is stranded or waits for the poll interval (queue.go        *)
(* Serve).                                                                 *)
WorkerTracksStore == Queue!RunningHasRunner /\ Queue!PromptPickup

(* What a record says of its attempts is true: they are its own, as many   *)
(* as the policy allows, and a job shown as done has posted its message    *)
(* (queue.go runJob).                                                      *)
RecordsTrue == Queue!NoForeignResult /\ Queue!RetryBudget

(* A message is delivered a second time only when the first delivery was   *)
(* not answered or could not be recorded, or the record was deleted or     *)
(* pruned in between.                                                      *)
DuplicatesExcused == \A j \in again : excuse[j] # {}

(* A paused job stays paused and every other one comes to its end.         *)
ControlsHold == Queue!PauseHolds /\ Queue!JobSettles
=============================================================================
