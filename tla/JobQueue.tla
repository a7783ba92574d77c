------------------------------ MODULE JobQueue ------------------------------
(***************************************************************************)
(* The execution queue of the API on its default database: SQLite, whose   *)
(* write pool has exactly one connection (apps/api/database.go).  A        *)
(* transaction is therefore one step, and statements run outside a         *)
(* transaction are a step each: this is how handleCancelExecution writes,  *)
(* and how the background sweep (reconcileAllOrganisationLeases) reads and *)
(* writes, so claims, renewals and results come between its statements.    *)
(*                                                                         *)
(* The runners are the most general clients the API has: any runner may    *)
(* submit any outcome for any lease ever handed out, any number of times   *)
(* and at any time, or never.  That covers crashed runners, lost answers,  *)
(* retried, late and conflicting submissions.  Requests the API answers    *)
(* with a 4xx and no write are stuttering steps.                           *)
(***************************************************************************)
EXTENDS JobStore

CONSTANTS
  LastSecond,    \* bound: distinct values of requested_at
  MaxRenewals,   \* bound: renewals of one lease (a job runs under a timeout)
  MaxRestarts    \* bound: restarts of the API process

ASSUME BoundsAssumption ==
  LastSecond \in Nat \ {0} /\ MaxRenewals \in Nat /\ MaxRestarts \in Nat

VARIABLES
  execution,     \* the table executions
  target,        \* the table execution_targets
  receipts,      \* the table execution_result_receipts
  sweep,         \* the background sweep: its phase and the rows it has read
  cancelling,    \* cancellations between their two UPDATEs
  issued,        \* how many leases each target was given (history)
  acked,         \* the results answered with 200 (history)
  renewals,      \* how often the current lease was renewed (bound)
  restarts       \* restarts so far (bound)

tables == <<execution, target, receipts>>
vars == <<execution, target, receipts, sweep, cancelling, issued, acked,
          renewals, restarts>>

Outcomes == {"ok", "fail"}

(* A result as its payload hash identifies it. *)
Result == [target : Targets, lease : Nat, runner : Runners, outcome : Outcomes]

NoSweep == [phase |-> "idle", rows |-> {}]

TypeOK ==
  /\ execution \in [Executions -> ExecutionRow]
  /\ target \in [Targets -> TargetRow]
  /\ receipts \subseteq Result
  /\ sweep \in [phase : {"idle", "organisations", "rows"},
                rows  : SUBSET (Targets \X Nat)]
  /\ cancelling \subseteq Executions
  /\ issued \in [Targets -> Nat]
  /\ acked \subseteq Result
  /\ renewals \in [Targets -> Nat]
  /\ restarts \in Nat

AbsentTargetRow == [NewTargetRow EXCEPT !.status = "absent"]

Init ==
  /\ execution = [e \in Executions |-> [status |-> "absent", requestedAt |-> 0]]
  /\ target = [t \in Targets |-> AbsentTargetRow]
  /\ receipts = {}
  /\ sweep = NoSweep
  /\ cancelling = {}
  /\ issued = [t \in Targets |-> 0]
  /\ acked = {}
  /\ renewals = [t \in Targets |-> 0]
  /\ restarts = 0

-----------------------------------------------------------------------------
(* Requests of users. *)

(* handleCreateExecution: the execution and its targets, in a transaction. *)
CreateExecution(e) ==
  /\ execution[e].status = "absent"
  /\ \E now \in 1 .. LastSecond :
       /\ \A x \in Executions : execution[x].requestedAt <= now
       /\ execution' = [execution EXCEPT ![e] = [status |-> "queued", requestedAt |-> now]]
  /\ target' = InsertTargets(target, e)
  /\ UNCHANGED <<receipts, sweep, cancelling, issued, acked, renewals, restarts>>

(* Mutant: a cancellation that also takes running executions. *)
CancelActiveExecution(e) ==
  /\ execution[e].status \in Active
  /\ execution' = [execution EXCEPT ![e].status = "cancelled"]
  /\ cancelling' = cancelling \cup {e}
  /\ UNCHANGED <<target, receipts, sweep, issued, acked, renewals, restarts>>

(* handleCancelExecution, its first UPDATE ... *)
CancelExecution(e) ==
  /\ execution[e].status = "queued"
  /\ execution' = [execution EXCEPT ![e].status = "cancelled"]
  /\ cancelling' = cancelling \cup {e}
  /\ UNCHANGED <<target, receipts, sweep, issued, acked, renewals, restarts>>

(* ... and its second, which no transaction joins to the first. *)
CancelTargets(e) ==
  /\ e \in cancelling
  /\ target' = CancelRows(target, e)
  /\ cancelling' = cancelling \ {e}
  /\ UNCHANGED <<execution, receipts, sweep, issued, acked, renewals, restarts>>

-----------------------------------------------------------------------------
(* Requests of runners. *)

(* handleClaimJob: one transaction.  The per-organisation throttle decides *)
(* whether it begins with a reconciliation; a claim that finds no job      *)
(* commits that reconciliation and answers 404.                            *)
ClaimJob(r, wanted, reconcileDue) ==
  LET tg   == IF reconcileDue THEN ReclaimAll(execution, target) ELSE target
      ex   == IF reconcileDue THEN FinalizeReconciled(execution, tg) ELSE execution
      jobs == Oldest(ex, Claimable(ex, tg, r, wanted))
  IN  /\ \/ /\ jobs = {}
            /\ execution' = ex
            /\ target' = tg
            /\ UNCHANGED <<issued, renewals>>
         \/ \E t \in jobs :
              /\ execution' = [ex EXCEPT ![ExecutionOf[t]].status = "running"]
              /\ target' = [tg EXCEPT ![t] = LeasedRow(@, r, issued[t] + 1)]
              /\ issued' = [issued EXCEPT ![t] = @ + 1]
              /\ renewals' = [renewals EXCEPT ![t] = 0]
      /\ UNCHANGED <<receipts, sweep, cancelling, acked, restarts>>

(* The row a runner must hold to renew or to report. *)
Holds(r, t, l) ==
  /\ target[t].status = "running"
  /\ target[t].runner = r
  /\ target[t].lease = l

ReceiptsFor(t, l) == {x \in receipts : x.target = t /\ x.lease = l}

(* Mutant: the payload hash is not compared. *)
ReplayAnyReceipt(res) ==
  /\ ReceiptsFor(res.target, res.lease) # {}
  /\ acked' = acked \cup {res}
  /\ UNCHANGED <<execution, target, receipts>>

(* handleSubmitResult on a lease that has a receipt: an identical payload  *)
(* is answered from the receipt (any other with 409).                      *)
ReplayReceipt(res) ==
  /\ res \in ReceiptsFor(res.target, res.lease)
  /\ acked' = acked \cup {res}
  /\ UNCHANGED <<execution, target, receipts>>

RecordReceipt(res) ==
  /\ ReceiptsFor(res.target, res.lease) = {}
  /\ Holds(res.runner, res.target, res.lease)
  /\ receipts' = receipts \cup {res}
  /\ acked' = acked \cup {res}

(* ... a failure with attempts left is scheduled again ... *)
ScheduleRetry(res) ==
  /\ RecordReceipt(res)
  /\ res.outcome = "fail"
  /\ target[res.target].attempt < MaxAttempts
  /\ target' = [target EXCEPT ![res.target] = RetriedRow(@)]
  /\ UNCHANGED execution

(* ... any other result ends the target, and the last one the execution.   *)
(* When the execution is no longer running, the transaction rolls back.    *)
CompleteTarget(res) ==
  LET e  == ExecutionOf[res.target]
      tg == [target EXCEPT ![res.target] = FinishedRow(@, res.outcome)]
  IN  /\ RecordReceipt(res)
      /\ res.outcome = "ok" \/ target[res.target].attempt >= MaxAttempts
      /\ target' = tg
      /\ \/ Open(tg, e) # {} /\ UNCHANGED execution
         \/ /\ Open(tg, e) = {}
            /\ execution[e].status = "running"
            /\ execution' = [execution EXCEPT ![e].status = Verdict(tg, e)]

SubmitResult(res) ==
  /\ ReplayReceipt(res) \/ ScheduleRetry(res) \/ CompleteTarget(res)
  /\ UNCHANGED <<sweep, cancelling, issued, renewals, restarts>>

(* Every result a runner can name: it knows only leases it was handed. *)
PossibleResults ==
  UNION {[target : {t}, lease : 1 .. issued[t], runner : Runners, outcome : Outcomes]
           : t \in Targets}

(* handleRenewLease: it does not look at the expiry, so a lapsed lease     *)
(* that nobody has taken back is live again.                               *)
RenewLease(r, t) ==
  /\ Holds(r, t, target[t].lease)
  /\ renewals[t] < MaxRenewals
  /\ target' = [target EXCEPT ![t].lapsed = FALSE]
  /\ renewals' = [renewals EXCEPT ![t] = @ + 1]
  /\ UNCHANGED <<execution, receipts, sweep, cancelling, issued, acked, restarts>>

-----------------------------------------------------------------------------
(* The background sweep: every statement is a step of its own. *)

(* SELECT DISTINCT organisation_id ... WHERE status = 'running' *)
SweepOrganisations ==
  /\ sweep.phase = "idle"
  /\ \E t \in Targets : target[t].status = "running"
  /\ sweep' = [sweep EXCEPT !.phase = "organisations"]
  /\ UNCHANGED <<tables, cancelling, issued, acked, renewals, restarts>>

(* The SELECT of reconcileExpiredLeases: ids and attempts, into memory. *)
SweepSelect ==
  /\ sweep.phase = "organisations"
  /\ sweep' = [phase |-> "rows",
               rows  |-> {<<t, target[t].attempt>> : t \in ExpiredRows(execution, target)}]
  /\ UNCHANGED <<tables, cancelling, issued, acked, renewals, restarts>>

(* The UPDATE for one of the rows read before. *)
SweepRow(row) ==
  /\ sweep.phase = "rows"
  /\ row \in sweep.rows
  /\ target' = Reclaim(target, row[1], row[2])
  /\ sweep' = [sweep EXCEPT !.rows = @ \ {row}]
  /\ UNCHANGED <<execution, receipts, cancelling, issued, acked, renewals, restarts>>

(* finalizeReconciledExecutions, after the last row. *)
SweepFinalize ==
  /\ sweep.phase = "rows"
  /\ sweep.rows = {}
  /\ execution' = FinalizeReconciled(execution, target)
  /\ sweep' = NoSweep
  /\ UNCHANGED <<target, receipts, cancelling, issued, acked, renewals, restarts>>

-----------------------------------------------------------------------------
(* The process and the clock. *)

(* The API stops and starts again (or a statement fails and the handler    *)
(* returns): what it held in memory is gone, the tables stay.              *)
Restart ==
  /\ restarts < MaxRestarts
  /\ sweep # NoSweep \/ cancelling # {}
  /\ restarts' = restarts + 1
  /\ sweep' = NoSweep
  /\ cancelling' = {}
  /\ UNCHANGED <<tables, issued, acked, renewals>>

LeaseLapses(t) ==
  /\ target[t].status = "running"
  /\ ~ target[t].lapsed
  /\ target' = [target EXCEPT ![t].lapsed = TRUE]
  /\ UNCHANGED <<execution, receipts, sweep, cancelling, issued, acked, renewals, restarts>>

BackoffElapses(t) ==
  /\ target[t].status = "pending"
  /\ ~ target[t].due
  /\ target' = [target EXCEPT ![t].due = TRUE]
  /\ UNCHANGED <<execution, receipts, sweep, cancelling, issued, acked, renewals, restarts>>

-----------------------------------------------------------------------------

(* A poll names one target (after a notification) or none. *)
Filters == {Targets} \cup {{t} : t \in Targets}

Users    == \E e \in Executions : CreateExecution(e) \/ CancelExecution(e) \/ CancelTargets(e)
Polls    == \E r \in Runners, wanted \in Filters, due \in BOOLEAN : ClaimJob(r, wanted, due)
Results  == \E res \in PossibleResults : SubmitResult(res)
Renewals == \E r \in Runners, t \in Targets : RenewLease(r, t)
Sweep    == SweepOrganisations \/ SweepSelect \/ SweepFinalize
            \/ \E row \in sweep.rows : SweepRow(row)
Clock    == \E t \in Targets : LeaseLapses(t) \/ BackoffElapses(t)

Next == Users \/ Polls \/ Results \/ Renewals \/ Sweep \/ Restart \/ Clock

Spec == Init /\ [][Next]_vars
=============================================================================
