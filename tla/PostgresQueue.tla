---------------------------- MODULE PostgresQueue ----------------------------
(***************************************************************************)
(* The same queue on PostgreSQL (DATABASE_DRIVER = postgres), where the    *)
(* API has many connections (apps/api/database.go) and begins its          *)
(* transactions at the default level, READ COMMITTED: beginAPITx passes no *)
(* options.  So                                                            *)
(*   - a statement sees what was committed when it starts, and what its    *)
(*     own transaction wrote;                                              *)
(*   - an UPDATE waits for a row another transaction has written and then  *)
(*     evaluates its WHERE clause on the row as it has become.             *)
(*                                                                         *)
(* Statements run outside a transaction are those of JobQueue, made to     *)
(* wait for the rows they write.  handleClaimJob and handleSubmitResult    *)
(* become a step per statement; statements are merged where the later ones *)
(* depend on nothing but rows the transaction has locked, as is the last   *)
(* one with the COMMIT.                                                    *)
(***************************************************************************)
EXTENDS JobQueueProperties

CONSTANT Connections  \* connections of the API that run a transaction

VARIABLE conn   \* what each of them is doing, and the rows it has written

pgvars == <<vars, conn>>

(* Rows written and not yet committed, by id: also the rows it has locked. *)
Idle == [at |-> "idle", rows |-> <<>>, execs |-> <<>>]

TargetsSeen(c) ==
  [t \in Targets |-> IF t \in DOMAIN conn[c].rows THEN conn[c].rows[t] ELSE target[t]]

ExecutionsSeen(c) ==
  [e \in Executions |-> IF e \in DOMAIN conn[c].execs THEN conn[c].execs[e] ELSE execution[e]]

TargetFree(c, t)    == \A d \in Connections \ {c} : t \notin DOMAIN conn[d].rows
ExecutionFree(c, e) == \A d \in Connections \ {c} : e \notin DOMAIN conn[d].execs

(* For statements outside a transaction. *)
TargetUnlocked(t)    == \A d \in Connections : t \notin DOMAIN conn[d].rows
ExecutionUnlocked(e) == \A d \in Connections : e \notin DOMAIN conn[d].execs

Write(f, x, row) == [y \in DOMAIN f \cup {x} |-> IF y = x THEN row ELSE f[y]]

Rollback(c) == conn' = [conn EXCEPT ![c] = Idle]

(* Nothing but the COMMIT is left; `done' is the result it acknowledges. *)
ReadyToCommit(c, done) ==
  conn' = [conn EXCEPT ![c] =
    [at |-> "commit", done |-> done, rows |-> conn[c].rows, execs |-> conn[c].execs]]

PgInit == Init /\ conn = [c \in Connections |-> Idle]

-----------------------------------------------------------------------------
(* handleClaimJob. *)

(* BEGIN and, when the throttle asks for it, the SELECT of                 *)
(* reconcileExpiredLeases.                                                 *)
BeginReconcile(c) ==
  /\ conn[c] = Idle
  /\ conn' = [conn EXCEPT ![c] =
       [at |-> "reconcile", rows |-> <<>>, execs |-> <<>>,
        expired |-> {<<t, target[t].attempt>> : t \in ExpiredRows(execution, target)}]]
  /\ UNCHANGED vars

ReconcileRow(c) ==
  /\ conn[c].at = "reconcile"
  /\ \E row \in conn[c].expired :
       LET t == row[1]
           old == TargetsSeen(c)
       IN  /\ TargetFree(c, t)
           /\ conn' = [conn EXCEPT
                ![c].expired = @ \ {row},
                ![c].rows = IF old[t].status = "running"
                              THEN Write(@, t, Reclaim(old, t, row[2])[t]) ELSE @]
  /\ UNCHANGED vars

ReconcileFinalize(c) ==
  /\ conn[c].at = "reconcile"
  /\ conn[c].expired = {}
  /\ LET old     == ExecutionsSeen(c)
         new     == FinalizeReconciled(old, TargetsSeen(c))
         changed == {e \in Executions : new[e] # old[e]}
     IN  /\ \A e \in changed : ExecutionFree(c, e)
         /\ conn' = [conn EXCEPT ![c] =
              [at |-> "select", rows |-> conn[c].rows, execs |-> [e \in changed |-> new[e]]]]
  /\ UNCHANGED vars

(* The SELECT of the claim, the first statement when nothing was to be     *)
(* reconciled.  Finding nothing, it goes on to commit.                     *)
SelectJob(c, r, wanted) ==
  /\ conn[c].at \in {"idle", "select"}
  /\ LET jobs == Oldest(ExecutionsSeen(c),
                   Claimable(ExecutionsSeen(c), TargetsSeen(c), r, wanted))
     IN  \/ jobs = {} /\ conn[c] # Idle /\ ReadyToCommit(c, {})
         \/ \E t \in jobs :
              conn' = [conn EXCEPT ![c] =
                [at |-> "take", runner |-> r, job |-> t,
                 source |-> TargetsSeen(c)[t].status,
                 rows |-> conn[c].rows, execs |-> conn[c].execs]]
  /\ UNCHANGED vars

(* Mutant: the UPDATE of the claim trusts its SELECT. *)
TrustedRow(row, source) == row.status = source

(* The WHERE clause of the claim's UPDATE, on the row as it now is. *)
StillClaimable(row, source) ==
  /\ row.status = source
  /\ row.attempt < MaxAttempts
  /\ \/ row.status = "pending" /\ row.due
     \/ row.status = "running" /\ row.lapsed

TakeJob(c) ==
  /\ conn[c].at = "take"
  /\ LET t   == conn[c].job
         row == TargetsSeen(c)[t]
     IN  /\ TargetFree(c, t)
         /\ \/ /\ StillClaimable(row, conn[c].source)
               /\ conn' = [conn EXCEPT ![c].at = "start",
                    ![c].rows = Write(@, t, LeasedRow(row, conn[c].runner, issued[t] + 1))]
            \/ ~ StillClaimable(row, conn[c].source) /\ Rollback(c)
  /\ UNCHANGED vars

(* Mutant: the execution is started whatever its status. *)
StartedAnyway(row) == [row EXCEPT !.status = "running"]

(* UPDATE executions ... WHERE status IN ('queued','running'); the rows it *)
(* changed are not counted. *)
StartedRow(row) ==
  IF row.status \in Active THEN [row EXCEPT !.status = "running"] ELSE row

StartExecution(c) ==
  /\ conn[c].at = "start"
  /\ LET t == conn[c].job
         e == ExecutionOf[t]
     IN  /\ ExecutionFree(c, e)
         /\ execution' = [ExecutionsSeen(c) EXCEPT ![e] = StartedRow(@)]
         /\ target' = TargetsSeen(c)
         /\ issued' = [issued EXCEPT ![t] = @ + 1]
  /\ Rollback(c)
  /\ UNCHANGED <<receipts, sweep, cancelling, acked, renewals, restarts>>

-----------------------------------------------------------------------------
(* handleSubmitResult. *)

(* BEGIN, no receipt, and the SELECT of the row the runner must hold.  (A  *)
(* result with a receipt is JobQueue's ReplayReceipt.)  Both SELECTs are   *)
(* one step: while the second finds the row, the first finds no receipt.   *)
BeginResult(c, res) ==
  /\ conn[c] = Idle
  /\ ReceiptsFor(res.target, res.lease) = {}
  /\ Holds(res.runner, res.target, res.lease)
  /\ conn' = [conn EXCEPT ![c] =
       [at |-> "record", result |-> res, rows |-> <<>>, execs |-> <<>>]]
  /\ UNCHANGED vars

(* The INSERT of the receipt.  Its primary key (target_id, lease_id) is a  *)
(* second guard that never comes into play: RecordResult has locked a row  *)
(* which left this lease with the first receipt.                           *)
Acknowledge(res) ==
  /\ receipts' = receipts \cup {res}
  /\ acked' = acked \cup {res}

(* The UPDATE of the target, its WHERE clause on the row as it now is.     *)
(* With attempts left, a failure goes on to write the retry, the receipt   *)
(* and the COMMIT.                                                         *)
RecordResult(c) ==
  /\ conn[c].at = "record"
  /\ LET res == conn[c].result
         row == target[res.target]
         stillHeld == Holds(res.runner, res.target, res.lease)
     IN  /\ TargetFree(c, res.target)
         /\ \/ /\ ~ stillHeld
               /\ Rollback(c)
               /\ UNCHANGED <<target, receipts, acked>>
            \/ /\ stillHeld
               /\ res.outcome = "fail" /\ row.attempt < MaxAttempts
               /\ target' = [target EXCEPT ![res.target] = RetriedRow(row)]
               /\ Acknowledge(res)
               /\ Rollback(c)
            \/ /\ stillHeld
               /\ res.outcome = "ok" \/ row.attempt >= MaxAttempts
               /\ conn' = [conn EXCEPT ![c].at = "count",
                    ![c].rows = Write(@, res.target, FinishedRow(row, res.outcome))]
               /\ UNCHANGED <<target, receipts, acked>>
  /\ UNCHANGED <<execution, sweep, cancelling, issued, renewals, restarts>>

(* The count of the targets still pending or running: what others have     *)
(* not committed still counts as it was.                                   *)
CountOpen(c) ==
  /\ conn[c].at = "count"
  /\ IF Open(TargetsSeen(c), ExecutionOf[conn[c].result.target]) = {}
       THEN conn' = [conn EXCEPT ![c].at = "decide"]
       ELSE ReadyToCommit(c, {conn[c].result})
  /\ UNCHANGED vars

(* The count of the failures and the UPDATE of the execution, which rolls  *)
(* everything back when the execution is not running any more.             *)
DecideExecution(c) ==
  /\ conn[c].at = "decide"
  /\ LET res == conn[c].result
         e   == ExecutionOf[res.target]
     IN  /\ ExecutionFree(c, e)
         /\ \/ /\ execution[e].status = "running"
               /\ execution' = [execution EXCEPT ![e].status = Verdict(TargetsSeen(c), e)]
               /\ target' = TargetsSeen(c)
               /\ Acknowledge(res)
            \/ /\ execution[e].status # "running"
               /\ UNCHANGED <<execution, target, receipts, acked>>
  /\ Rollback(c)
  /\ UNCHANGED <<sweep, cancelling, issued, renewals, restarts>>

Commit(c) ==
  /\ conn[c].at = "commit"
  /\ execution' = ExecutionsSeen(c)
  /\ target' = TargetsSeen(c)
  /\ receipts' = receipts \cup conn[c].done
  /\ acked' = acked \cup conn[c].done
  /\ Rollback(c)
  /\ UNCHANGED <<sweep, cancelling, issued, renewals, restarts>>

(* A statement fails, the client goes away, or the server ends a deadlock. *)
Abort(c) == conn[c] # Idle /\ Rollback(c) /\ UNCHANGED vars

-----------------------------------------------------------------------------
(* Statements outside a transaction wait for the rows they write. *)

PgCancelExecution(e) == CancelExecution(e) /\ ExecutionUnlocked(e) /\ UNCHANGED conn

PgCancelTargets(e) ==
  /\ CancelTargets(e)
  /\ \A t \in TargetsOf(e) : TargetUnlocked(t)
  /\ UNCHANGED conn

(* handleRenewLease, here without the bound that liveness needs. *)
PgRenewLease(r, t) ==
  /\ Holds(r, t, target[t].lease)
  /\ TargetUnlocked(t)
  /\ target' = [target EXCEPT ![t].lapsed = FALSE]
  /\ UNCHANGED <<execution, receipts, sweep, cancelling, issued, acked, renewals, restarts, conn>>

PgSweepRow(row) == SweepRow(row) /\ TargetUnlocked(row[1]) /\ UNCHANGED conn

PgSweepFinalize ==
  /\ SweepFinalize
  /\ \A e \in Executions : execution'[e] # execution[e] => ExecutionUnlocked(e)
  /\ UNCHANGED conn

(* The API stops: the server rolls its transactions back.  Nothing here    *)
(* needs a bound on how often.                                             *)
PgRestart ==
  /\ sweep' = NoSweep
  /\ cancelling' = {}
  /\ conn' = [c \in Connections |-> Idle]
  /\ UNCHANGED <<tables, issued, acked, renewals, restarts>>

-----------------------------------------------------------------------------

PgUsers ==
  \E e \in Executions :
    \/ CreateExecution(e) /\ UNCHANGED conn
    \/ PgCancelExecution(e)
    \/ PgCancelTargets(e)

PgClaims ==
  \E c \in Connections :
    \/ BeginReconcile(c) \/ ReconcileRow(c) \/ ReconcileFinalize(c)
    \/ \E r \in Runners, wanted \in Filters : SelectJob(c, r, wanted)
    \/ TakeJob(c) \/ StartExecution(c)

PgResults ==
  \/ /\ \E res \in PossibleResults : ReplayReceipt(res)
     /\ UNCHANGED <<sweep, cancelling, issued, renewals, restarts, conn>>
  \/ \E c \in Connections :
       \/ \E res \in PossibleResults : BeginResult(c, res)
       \/ RecordResult(c) \/ CountOpen(c) \/ DecideExecution(c)

PgSweep ==
  \/ (SweepOrganisations \/ SweepSelect) /\ UNCHANGED conn
  \/ PgSweepFinalize
  \/ \E row \in sweep.rows : PgSweepRow(row)

PgNext ==
  \/ PgUsers
  \/ PgClaims
  \/ PgResults
  \/ \E r \in Runners, t \in Targets : PgRenewLease(r, t)
  \/ PgSweep
  \/ \E c \in Connections : Commit(c) \/ Abort(c)
  \/ PgRestart
  \/ Clock /\ UNCHANGED conn

PgSpec == PgInit /\ [][PgNext]_pgvars
=============================================================================
