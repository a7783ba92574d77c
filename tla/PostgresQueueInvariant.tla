----------------------- MODULE PostgresQueueInvariant ------------------------
(***************************************************************************)
(* The inductive invariant of the queue on PostgreSQL: what the committed  *)
(* tables keep, and how the uncommitted rows of a transaction may differ   *)
(* from them while other transactions commit.                              *)
(***************************************************************************)
EXTENDS PostgresQueueProperties

(* Rows by id, as a transaction has written them. *)
SomeTargets    == UNION {[S -> TargetRow] : S \in SUBSET Targets}
SomeExecutions == UNION {[S -> ExecutionRow] : S \in SUBSET Executions}

Transaction ==
       [at : {"idle", "select"}, rows : SomeTargets, execs : SomeExecutions]
  \cup [at : {"reconcile"}, expired : SUBSET (Targets \X Nat),
        rows : SomeTargets, execs : SomeExecutions]
  \cup [at : {"take", "start"}, runner : Runners, job : Targets, source : TargetStatuses,
        rows : SomeTargets, execs : SomeExecutions]
  \cup [at : {"record", "count", "decide"}, result : Result,
        rows : SomeTargets, execs : SomeExecutions]
  \cup [at : {"commit"}, done : SUBSET Result, rows : SomeTargets, execs : SomeExecutions]

PgTyped == TypeOK /\ conn \in [Connections -> Transaction]

Settled == {"succeeded", "dead_letter"}

(* A committed target row whose execution has the status es, after n       *)
(* leases.  Unlike on SQLite, a cancelled execution may have any of them.  *)
PgRowInv(es, row, n) ==
  /\ n = row.attempt
  /\ n <= MaxAttempts
  /\ es = "absent" <=> row.status = "absent"
  /\ es = "absent"    => n = 0
  /\ es = "queued"    => row.status = "pending"
  /\ es = "running"   => row.status \in {"pending", "running"} \cup Settled
  /\ es = "succeeded" => row.status = "succeeded"
  /\ es = "failed"    => row.status \in Settled
  /\ row.status = "running" => row.lease = n /\ n > 0 /\ row.runner \in Runners
  /\ row.status = "dead_letter" => n = MaxAttempts

PgTablesOK ==
  /\ \A t \in Targets : PgRowInv(execution[ExecutionOf[t]].status, target[t], issued[t])
  /\ \A e \in Executions : execution[e].status = "failed" => DeadLettered(target, e) # {}

(* A lease with a receipt is not held any more. *)
PgReceiptsOK ==
  \A x \in receipts :
    /\ x.lease \in 1 .. issued[x.target]
    /\ target[x.target].status = "running" => target[x.target].lease # x.lease
    /\ x.outcome = "ok" /\ execution[ExecutionOf[x.target]].status # "cancelled" =>
         target[x.target].status = "succeeded" /\ target[x.target].lease = x.lease
    /\ \A y \in receipts : x.target = y.target /\ x.lease = y.lease => x = y

(* No row is written by two transactions. *)
LocksOK ==
  \A c, d \in Connections : c # d =>
    /\ DOMAIN conn[c].rows \cap DOMAIN conn[d].rows = {}
    /\ DOMAIN conn[c].execs \cap DOMAIN conn[d].execs = {}

Seen(rows, t) == IF t \in DOMAIN rows THEN rows[t] ELSE target[t]

(* What a transaction k has written, against the committed row: a job      *)
(* taken over, or a lease ended.                                           *)
Taken(k, t) ==
  /\ k.at = "start" /\ t = k.job
  /\ target[t].status \in {"pending", "running"}
  /\ target[t].status = "running" => target[t].lapsed
  /\ k.rows[t].status = "running"
  /\ k.rows[t].runner \in Runners
  /\ k.rows[t].attempt = issued[t] + 1 /\ issued[t] < MaxAttempts
  /\ k.rows[t].lease = issued[t] + 1

Ended(k, t) ==
  /\ target[t].status = "running"
  /\ k.rows[t].status \in {"pending"} \cup Settled
  /\ k.rows[t].attempt = target[t].attempt
  /\ k.rows[t].status = "pending" => ~ k.rows[t].due
  /\ k.rows[t].status = "dead_letter" => target[t].attempt = MaxAttempts

RowsOK(k) == \A t \in DOMAIN k.rows : Taken(k, t) \/ Ended(k, t)

(* An execution it has decided is locked, and all of its targets have      *)
(* ended for good.                                                         *)
ExecsOK(k) ==
  \A e \in DOMAIN k.execs :
    /\ k.execs[e].status = "failed"
    /\ execution[e].status \in Active
    /\ \A t \in TargetsOf(e) : Seen(k.rows, t).status \in Settled
    /\ \E t \in TargetsOf(e) : Seen(k.rows, t).status = "dead_letter"

JobOK(k) ==
  /\ k.at \in {"take", "start"} => ExecutionOf[k.job] \notin DOMAIN k.execs
  /\ k.at = "start" => k.job \in DOMAIN k.rows /\ Taken(k, k.job)

(* A result that is written and not committed: its lease is still held in  *)
(* the committed row.                                                      *)
Written(k, x) ==
  /\ x.target \in DOMAIN k.rows
  /\ target[x.target].status = "running"
  /\ target[x.target].lease = x.lease
  /\ k.rows[x.target].lease = x.lease
  /\ k.rows[x.target].status = IF x.outcome = "ok" THEN "succeeded" ELSE "dead_letter"

ResultOK(k) ==
  /\ k.at = "record" => DOMAIN k.rows = {}
  /\ k.at \in {"count", "decide"} => Written(k, k.result)
  /\ k.at = "decide" =>
       \A t \in TargetsOf(ExecutionOf[k.result.target]) :
         Seen(k.rows, t).status \notin {"pending", "running"}
  /\ k.at = "commit" =>
       /\ \A x \in k.done : Written(k, x)
       /\ \A x, y \in k.done : x = y

ExpiredOK(k) == k.at = "reconcile" => \A row \in k.expired : row[2] <= target[row[1]].attempt

Consistent(k) == RowsOK(k) /\ ExecsOK(k) /\ JobOK(k) /\ ResultOK(k) /\ ExpiredOK(k)

PgInv ==
  /\ PgTyped
  /\ PgTablesOK
  /\ PgReceiptsOK
  /\ acked \subseteq receipts
  /\ \A row \in sweep.rows : row[2] <= target[row[1]].attempt
  /\ \A e \in cancelling : execution[e].status = "cancelled"
  /\ LocksOK
  /\ \A c \in Connections : Consistent(conn[c])
=============================================================================
