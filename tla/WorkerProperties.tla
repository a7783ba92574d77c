-------------------------- MODULE WorkerProperties --------------------------
(***************************************************************************)
(* What workers and notifications promise together.                        *)
(***************************************************************************)
EXTENDS Worker

WorkerTypeOK ==
    /\ jobs \in [JobTargets -> [status : {"pending", "running", "succeeded", "dead"},
                                attempt : 0 .. MaxTries, lapsed : BOOLEAN]]
    /\ unpublished \subseteq JobTargets /\ known \subseteq JobTargets
    /\ stream \subseteq [target : JobTargets, deliveries : 0 .. MaxDeliver, out : BOOLEAN]
    /\ \A w \in Workers : workers[w] # Idle => workers[w].target \in JobTargets

(***************************************************************************)
(* "Duplicate delivery must never result in a second infrastructure        *)
(* change" (docs/security-and-operations.md:76): a command is started      *)
(* again only after a lease lapsed or a failure was recorded, however      *)
(* often a message is delivered, returned, or its acknowledgement lost,    *)
(* and whatever several workers poll at the same time.                     *)
(***************************************************************************)
DuplicatesRunNothing == \A t \in JobTargets : runs[t] <= 1 + excused[t]

(***************************************************************************)
(* Notifications are hints: with every message lost, never published or    *)
(* given up after MaxDeliver, with jobs dropped after a failed             *)
(* acknowledgement (main.go:141) and retries nobody is notified of, every  *)
(* target is still decided, since an idle worker polls.  The sweep is one  *)
(* step on the one row of a target here; what may come between its two     *)
(* statements, and strand a target, is JobQueue's (NothingIsStranded).     *)
(***************************************************************************)
EveryTargetIsDecided == \A t \in JobTargets : <>(jobs[t].status \in {"succeeded", "dead"})

(***************************************************************************)
(* The loop goes on (a stopped worker is started again), lapses and the    *)
(* sweep happen by the clock.                                              *)
(***************************************************************************)
WorkerFairness ==
    /\ \A w \in Workers : WF_workerVars(Loop(w))
    /\ \A t \in JobTargets : WF_workerVars(LeaseLapses(t)) /\ WF_workerVars(Reclaim(t))

WorkerLiveSpec == WorkerSpec /\ WorkerFairness
=============================================================================
