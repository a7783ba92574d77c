------------------------------ MODULE JobStore ------------------------------
(***************************************************************************)
(* The two tables the execution queue lives in, `executions' and           *)
(* `execution_targets', and the SQL statements its handlers run on them    *)
(* (apps/api/jobs.go, apps/api/queue.go).  A statement is an operator from *)
(* the tables to the tables, so that a handler which runs several of them  *)
(* in one transaction is their composition, and a caller that runs them    *)
(* one by one takes a step for each.                                       *)
(*                                                                         *)
(* Instants are abstracted to what the statements compare them with: a row *)
(* has "lapsed" when lease_expires_at <= now, and is "due" when            *)
(* next_attempt_at is NULL or <= now.                                      *)
(***************************************************************************)
EXTENDS Integers, FiniteSets

CONSTANTS
  Executions,    \* ids of executions
  Targets,       \* ids of execution_targets, one per execution and server
  Runners,       \* ids of runners
  NoRunner,      \* NULL in the column runner_id
  ExecutionOf,   \* the execution a target belongs to
  Scope,         \* the targets on servers a runner's runner_scopes cover
  MaxAttempts    \* the column max_attempts

ASSUME ConstantsAssumption ==
  /\ ExecutionOf \in [Targets -> Executions]
  /\ Scope \in [Runners -> SUBSET Targets]
  /\ NoRunner \notin Runners
  /\ MaxAttempts \in Nat \ {0}

(* An execution without targets is refused before it is inserted. *)
ASSUME EveryExecutionHasTargets ==
  \A e \in Executions : \E t \in Targets : ExecutionOf[t] = e

\* NULL in the column lease_id; leases are numbered per target from 1.
NoLease == 0

(* "absent": no such row yet. *)
ExecutionStatuses ==
  {"absent", "queued", "running", "succeeded", "failed", "cancelled"}
TargetStatuses ==
  {"absent", "pending", "running", "succeeded", "dead_letter", "cancelled"}

ExecutionRow == [status : ExecutionStatuses, requestedAt : Nat]

TargetRow ==
  [status  : TargetStatuses,
   attempt : Nat,
   runner  : Runners \cup {NoRunner},
   lease   : Nat,
   lapsed  : BOOLEAN,
   due     : BOOLEAN]

Active   == {"queued", "running"}
Terminal == {"succeeded", "failed", "cancelled"}

TargetsOf(e) == {t \in Targets : ExecutionOf[t] = e}

(* Mutant: the count of open targets overlooks the running ones. *)
OpenPendingOnly(tg, e) == {t \in TargetsOf(e) : tg[t].status = "pending"}

(* The two counts handleSubmitResult and finalizeReconciledExecutions take.*)
(* No committed row has the status "failed": the transaction that writes   *)
(* it goes on to write "pending".                                          *)
Open(tg, e)         == {t \in TargetsOf(e) : tg[t].status \in {"pending", "running"}}
DeadLettered(tg, e) == {t \in TargetsOf(e) : tg[t].status = "dead_letter"}

-----------------------------------------------------------------------------
(* Creating and cancelling. *)

NewTargetRow ==
  [status |-> "pending", attempt |-> 0, runner |-> NoRunner,
   lease |-> NoLease, lapsed |-> FALSE, due |-> TRUE]

InsertTargets(tg, e) ==
  [t \in Targets |-> IF t \in TargetsOf(e) THEN NewTargetRow ELSE tg[t]]

(* UPDATE execution_targets SET status = 'cancelled' WHERE execution_id = e *)
CancelRows(tg, e) ==
  [t \in Targets |->
     IF t \in TargetsOf(e) THEN [tg[t] EXCEPT !.status = "cancelled"] ELSE tg[t]]

-----------------------------------------------------------------------------
(* Claiming. *)

(* Mutants: the claim without its bound on attempts, and without its       *)
(* condition on the execution.                                             *)
ClaimableAtAnyAttempt(ex, tg, r, wanted) ==
  {t \in wanted \cap Scope[r] :
     /\ ex[ExecutionOf[t]].status \in Active
     /\ \/ tg[t].status = "pending" /\ tg[t].due
        \/ tg[t].status = "running" /\ tg[t].lapsed}

ClaimableOfAnyExecution(ex, tg, r, wanted) ==
  {t \in wanted \cap Scope[r] :
     /\ \/ tg[t].status = "pending" /\ tg[t].due
        \/ tg[t].status = "running" /\ tg[t].lapsed
     /\ tg[t].attempt < MaxAttempts}

(* The WHERE clause of the claim; `wanted' is the optional target filter.  *)
Claimable(ex, tg, r, wanted) ==
  {t \in wanted \cap Scope[r] :
     /\ ex[ExecutionOf[t]].status \in Active
     /\ \/ tg[t].status = "pending" /\ tg[t].due
        \/ tg[t].status = "running" /\ tg[t].lapsed
     /\ tg[t].attempt < MaxAttempts}

(* ORDER BY requested_at LIMIT 1: ties fall either way. *)
Oldest(ex, ts) ==
  {t \in ts : \A u \in ts :
     ex[ExecutionOf[t]].requestedAt <= ex[ExecutionOf[u]].requestedAt}

(* Mutant: the claim of a lapsed row leaves the old lease in place. *)
LeasedRowKeepingLease(row, r, l) ==
  [row EXCEPT !.status = "running", !.runner = r, !.lapsed = FALSE,
              !.attempt = row.attempt + 1]

(* The UPDATE of the claim. *)
LeasedRow(row, r, l) ==
  [row EXCEPT !.status  = "running",
              !.runner  = r,
              !.lease   = l,
              !.lapsed  = FALSE,
              !.attempt = row.attempt + 1]

-----------------------------------------------------------------------------
(* Reconciling expired leases. *)

(* Mutants: the SELECT without its expiry, and one that looks for rows to  *)
(* give another attempt.                                                   *)
RunningRows(ex, tg) ==
  {t \in Targets : ex[ExecutionOf[t]].status \in Active /\ tg[t].status = "running"}

ExpiredRowsWithAttempts(ex, tg) ==
  {t \in RunningRows(ex, tg) : tg[t].lapsed /\ tg[t].attempt < MaxAttempts}

(* The rows reconcileExpiredLeases selects. *)
ExpiredRows(ex, tg) ==
  {t \in Targets :
     /\ ex[ExecutionOf[t]].status \in Active
     /\ tg[t].status = "running"
     /\ tg[t].lapsed}

(* Mutant: attempts counted from zero. *)
ReclaimedRowEarly(row, seen) ==
  IF seen + 1 >= MaxAttempts
    THEN [row EXCEPT !.status = "dead_letter", !.runner = NoRunner,
                     !.lease = NoLease, !.lapsed = FALSE]
    ELSE [row EXCEPT !.status = "pending", !.runner = NoRunner,
                     !.lease = NoLease, !.lapsed = FALSE, !.due = FALSE]

(* What it makes of a row whose attempt the SELECT read as `seen'. *)
ReclaimedRow(row, seen) ==
  IF seen >= MaxAttempts
    THEN [row EXCEPT !.status = "dead_letter", !.runner = NoRunner,
                     !.lease = NoLease, !.lapsed = FALSE]
    ELSE [row EXCEPT !.status = "pending", !.runner = NoRunner,
                     !.lease = NoLease, !.lapsed = FALSE, !.due = FALSE]

(* Mutant: the UPDATE trusts the SELECT. *)
ReclaimUnguarded(tg, t, seen) == [tg EXCEPT ![t] = ReclaimedRow(@, seen)]

(* Its UPDATE: WHERE id = t AND status = 'running', and nothing else. *)
Reclaim(tg, t, seen) ==
  [tg EXCEPT ![t] = IF @.status = "running" THEN ReclaimedRow(@, seen) ELSE @]

(* The whole loop, run with nothing between the SELECT and the UPDATEs. *)
ReclaimAll(ex, tg) ==
  [t \in Targets |->
     IF t \in ExpiredRows(ex, tg) THEN ReclaimedRow(tg[t], tg[t].attempt) ELSE tg[t]]

(* Mutant: only queued executions are finalized. *)
FinalizeQueued(ex, tg) ==
  [e \in Executions |->
     IF ex[e].status = "queued" /\ Open(tg, e) = {} /\ DeadLettered(tg, e) # {}
       THEN [ex[e] EXCEPT !.status = "failed"]
       ELSE ex[e]]

(* The UPDATE of finalizeReconciledExecutions. *)
FinalizeReconciled(ex, tg) ==
  [e \in Executions |->
     IF ex[e].status \in Active /\ Open(tg, e) = {} /\ DeadLettered(tg, e) # {}
       THEN [ex[e] EXCEPT !.status = "failed"]
       ELSE ex[e]]

-----------------------------------------------------------------------------
(* Recording a result. *)

(* Mutant: the last failure stays "failed", no dead letter. *)
FailedRow(row, outcome) ==
  [row EXCEPT !.status = IF outcome = "ok" THEN "succeeded" ELSE "failed",
              !.lapsed = FALSE]

(* A result that ends the target: lease_expires_at becomes NULL, the       *)
(* runner and the lease stay in the row.                                   *)
FinishedRow(row, outcome) ==
  [row EXCEPT !.status = IF outcome = "ok" THEN "succeeded" ELSE "dead_letter",
              !.lapsed = FALSE]

(* A failure with attempts left: back to the queue, after a backoff. *)
RetriedRow(row) ==
  [row EXCEPT !.status = "pending", !.runner = NoRunner, !.lease = NoLease,
              !.lapsed = FALSE, !.due = FALSE]

(* Mutant: one success is enough. *)
LenientVerdict(tg, e) ==
  IF \E t \in TargetsOf(e) : tg[t].status = "succeeded" THEN "succeeded" ELSE "failed"

(* finalStatus, when no target of e is open. *)
Verdict(tg, e) == IF DeadLettered(tg, e) = {} THEN "succeeded" ELSE "failed"
=============================================================================
