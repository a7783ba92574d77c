------------------------- MODULE SchedulerProperties ------------------------
(***************************************************************************)
(* What the embedded scheduler promises.                                   *)
(***************************************************************************)
EXTENDS Scheduler

SchedulerTypeOK ==
    /\ DOMAIN schedules \subseteq ScheduleIds
    /\ schedules \in [DOMAIN schedules -> [next : Nat, enabled : BOOLEAN]]
    /\ paused \subseteq Organisations
    /\ \A p \in Schedulers :
          cycles[p].at \in {"idle", "pauses", "loop", "claim", "execute"}

(***************************************************************************)
(* A slot is claimed once: whatever schedulers work from the same old      *)
(* SELECT, a claim leaves next_run_at after every slot claimed so far.     *)
(* (automation.go:306-307: next comes from the row as it was read, the     *)
(* UPDATE only asks whether the row is due.)  time.Now and the database's  *)
(* clock are one instant here.                                             *)
(***************************************************************************)
SlotsMoveOn == \A s \in ScheduleIds, n \in 0 .. LastTick :
                  <<s, n>> \in slots => schedules[s].next > n

(***************************************************************************)
(* What the documents say of a pause: "It prevents new embedded-scheduler  *)
(* runs from being queued" (docs/api-reference.md:84), for "the scheduler  *)
(* rechecks the pause state before claiming work"                          *)
(* (docs/PRODUCT_IMPROVEMENT_PLAN.md:67).  The check, the claim and the    *)
(* run are statements of their own (automation.go:299, 307 and 315), and a *)
(* pause answered between them is not seen again.                          *)
(***************************************************************************)
PausedQueuesNothing == \A o \in Organisations, p \in Schedulers : o \in paused => late[o][p] = 0

(***************************************************************************)
(* What is left of that promise: a pause answered while a batch is under   *)
(* way stops it after at most the one run that had passed its check        *)
(* (automation.go:295-315), however many are due, and no cycle begun later *)
(* runs anything.                                                          *)
(***************************************************************************)
PauseHolds == \A o \in Organisations, p \in Schedulers : o \in paused => late[o][p] <= 1

\* The due schedules of paused organisations fill the batch (automation.go:271).
CrowdedOut == Cardinality({s \in ScheduleIds : IsDue(s) /\ OwnerOf[s] \in paused}) >= Batch

(***************************************************************************)
(* A due schedule is claimed in the end, over cycles that fail or stop     *)
(* anywhere, unless it is paused or crowded out by the paused ones.        *)
(***************************************************************************)
DueIsClaimed ==
    \A s \in ScheduleIds : IsDue(s) ~> (~IsDue(s) \/ OwnerOf[s] \in paused \/ CrowdedOut)

(***************************************************************************)
(* A process goes on with its cycle and the ticker starts the next one.    *)
(***************************************************************************)
SchedulerFairness == \A p \in Schedulers : WF_schedulerVars(Cycle(p))

SchedulerLiveSpec == SchedulerSpec /\ SchedulerFairness
=============================================================================
