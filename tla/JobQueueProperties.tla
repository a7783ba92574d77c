-------------------------- MODULE JobQueueProperties --------------------------
(***************************************************************************)
(* What must hold of the execution queue.                                  *)
(***************************************************************************)
EXTENDS JobQueue

(* max_attempts bounds what reaches the server: no target is ever handed   *)
(* out more often, whatever the sweep, the claims and the results do, and  *)
(* the column attempt counts exactly the times it was.                     *)
DispatchesAreBounded ==
  \A t \in Targets : issued[t] = target[t].attempt /\ issued[t] <= MaxAttempts

(* A cancelled execution never reached a runner: handleCancelExecution     *)
(* only takes queued executions, and its two UPDATEs let no claim between. *)
CancelledWasNeverDispatched ==
  \A e \in Executions : execution[e].status = "cancelled" =>
     \A t \in TargetsOf(e) : issued[t] = 0

(* A running target belongs to a running execution and is held under the   *)
(* newest lease handed out for it: two runners never hold one target.      *)
LeaseIsNewest ==
  \A t \in Targets : target[t].status = "running" =>
     /\ execution[ExecutionOf[t]].status = "running"
     /\ target[t].runner \in Runners
     /\ target[t].lease = issued[t]
     /\ issued[t] > 0

(* A final status agrees with the targets for good, although the last      *)
(* result, the claims' reconciliation and the sweep all finalize, each     *)
(* from counts of its own.                                                 *)
VerdictMatchesTargets ==
  \A e \in Executions :
     /\ execution[e].status = "succeeded" =>
          \A t \in TargetsOf(e) : target[t].status = "succeeded"
     /\ execution[e].status = "failed" =>
          Open(target, e) = {} /\ DeadLettered(target, e) # {}

(* A success that was recorded is never undone: no lapse, sweep or retry   *)
(* runs the command again after its receipt was written.                   *)
RecordedSuccessIsKept ==
  \A x \in receipts : x.outcome = "ok" =>
     target[x.target].status = "succeeded" /\ target[x.target].lease = x.lease

(* A runner answered with 200 reads back what was recorded: one lease      *)
(* never has two accepted payloads, and an acknowledged one is not lost.   *)
AcknowledgedIsRecorded ==
  /\ acked \subseteq receipts
  /\ \A x, y \in receipts : x.target = y.target /\ x.lease = y.lease => x = y

(* Work is given up only when its attempts are used up, also by the sweep, *)
(* which decides on the attempt it read some statements earlier.           *)
DeadLetterIsExhausted ==
  \A t \in Targets : target[t].status = "dead_letter" => issued[t] = MaxAttempts

(* A status a requester may act on (succeeded, failed, cancelled) never    *)
(* changes again, and its targets are no longer handed out.                *)
TerminalIsFinal ==
  [][\A e \in Executions : execution[e].status \in Terminal =>
       /\ execution'[e] = execution[e]
       /\ \A t \in TargetsOf(e) : issued'[t] = issued[t]]_vars

(* A lease that has not lapsed is taken from its runner only by a result   *)
(* of its own or by a sweep that had read it as lapsed: never by a claim   *)
(* of another runner or by the reconciliation inside a claim.              *)
LiveLeaseIsRespected ==
  [][\A t \in Targets :
       target[t].status = "running" /\ ~ target[t].lapsed
       /\ target'[t].lease # target[t].lease =>
         \/ \E x \in receipts' \ receipts : x.target = t /\ x.lease = target[t].lease
         \/ \E row \in sweep.rows : row[1] = t]_vars

(* The queue implements the contract.  A cancelled target was open and     *)
(* stays undispatched.                                                     *)
WorkOfStatus(s) ==
  CASE s = "absent"      -> "none"
    [] s = "succeeded"   -> "ok"
    [] s = "dead_letter" -> "dead"
    [] OTHER             -> "open"

Contract == INSTANCE ExecutionContract WITH
  status     <- [e \in Executions |-> execution[e].status],
  work       <- [t \in Targets |-> WorkOfStatus(target[t].status)],
  dispatches <- issued

ImplementsContract == Contract!Spec

(* What the comment on reconcileExpiredLeases says of work that has        *)
(* exhausted its budget: it does not stay in the queue, where no claim can *)
(* take it and no sweep sees it.                                           *)
NothingIsStranded ==
  \A t \in Targets :
     target[t].status = "pending" => target[t].attempt < MaxAttempts

-----------------------------------------------------------------------------
(* Liveness.  Nothing is assumed of the runners' results or renewals: a    *)
(* runner may die with a lease, whose five minutes then pass.              *)
TimePasses ==
  \A t \in Targets : WF_vars(LeaseLapses(t)) /\ WF_vars(BackoffElapses(t))

TimedSpec == Spec /\ TimePasses

(* runEmbeddedScheduler runs a sweep every ten seconds for as long as the  *)
(* API is up.                                                              *)
SweepsRun == WF_vars(Sweep)

SweepSpec == TimedSpec /\ SweepsRun

(* Runners poll every few seconds, without a filter; at the latest after   *)
(* the throttle's fifteen seconds a claim begins by reconciling.  As long  *)
(* as a claim of theirs would change anything, one comes.                  *)
RunnersPoll == WF_vars(\E r \in Runners : ClaimJob(r, Targets, TRUE))

(* A runner that dies takes no lease with it: the sweep alone, with no     *)
(* runner polling and over restarts of the API, takes every lapsed lease   *)
(* back unless it is renewed or reported on first.                         *)
Abandoned(t, l) == target[t].status = "running" /\ target[t].lapsed /\ target[t].lease = l

AbandonedIsReclaimed ==
  SweepsRun =>
     \A t \in Targets : \A l \in 1 .. MaxAttempts : Abandoned(t, l) ~> ~ Abandoned(t, l)

(* Every queued execution is decided or cancelled while runners poll,      *)
(* though any number of them die and no sweep ever runs; the one way to    *)
(* hang is a target that NothingIsStranded describes.                      *)
Stranded(e) ==
  \E t \in TargetsOf(e) : target[t].status = "pending" /\ target[t].attempt >= MaxAttempts

QueuedIsDecided ==
  RunnersPoll =>
     \A e \in Executions : execution[e].status = "queued" ~>
        execution[e].status \in Terminal \/ Stranded(e)

(* What the same comment says of the execution: exhausted work does not    *)
(* leave it in running for ever, also when no runner is polling.           *)
Undecided(e) == execution[e].status = "running" /\ Open(target, e) = {}

SettledIsDecided ==
  \A e \in Executions : Undecided(e) ~> ~ Undecided(e)
=============================================================================
