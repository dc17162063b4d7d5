--------------------------- MODULE Aria2Automation --------------------------
(***************************************************************************)
(* The governors with the bot's listener, and what they promise:           *)
(* Aria2Events under names of its own, so that a module can speak of it    *)
(* next to a single control (Aria2Proofs does).                            *)
(***************************************************************************)
EXTENDS Naturals

CONSTANTS Tasks, Foreign, Completed, Policies, Limits, Buffer, Threshold, Window, Cooldown, Stall,
          Episodes, MaxEvents, Slots, Loops, MaxInbox, Nobody
VARIABLES daemon, flowing, cap, records, mgr, conf, limiter, reg, mon, excused, quiet, episode,
          happened, lis, inbox, handlers, items, loops, notes

Evt == INSTANCE Aria2Events
       WITH Scenarios <- Episodes, rec <- records, remote <- daemon, kinds <- episode, events <- happened,
            None <- Nobody

ASSUME AutomationAssumption == Evt!GovernorsAssumption /\ Evt!EventsAssumption

AutomationSpec == Evt!Spec

(* Automation acts on the account's own tasks only, although tasks of      *)
(* other accounts look the same to the listing, and cycles a task only     *)
(* when every poll of the last Stall ticks saw it active without a byte    *)
(* (speed_monitor.go poll, automatic_control.go change).                   *)
Justified ==
    [][Evt!Governor => \A t \in Tasks : daemon'[t] # daemon[t] =>
            /\ Evt!Registered(t)
            /\ (mon'.cur = t /\ mon.cur # t) => quiet[t] >= Stall]_(Evt!vars)

(* Whoever stops, starts or dies in between, what automation did is taken  *)
(* back (manager.go Run) and what reports progress is owned by the one who *)
(* can end it (aria2_events.go).                                           *)
AutomationOwned == Evt!StartupResumes /\ Evt!ProgressOwned

(* In the end the daemon has the latest transfer limit, no governor keeps  *)
(* a task paused, and a stop completes: of the manager with its governors, *)
(* of the listener with its handlers and loops, of the notifications with  *)
(* the calls under way; and what was queued for delivery is delivered or   *)
(* refused.                                                                *)
AllSettles == <>[]Evt!Settled
=============================================================================
