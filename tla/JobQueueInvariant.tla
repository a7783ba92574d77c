-------------------------- MODULE JobQueueInvariant --------------------------
(***************************************************************************)
(* The inductive invariant behind the safety properties of the execution   *)
(* queue.  It is stated of any tables, not of the variables, because a     *)
(* claim passes through tables that are never committed: the ones its      *)
(* reconciliation leaves.                                                  *)
(***************************************************************************)
EXTENDS JobQueueProperties

(* A target row whose execution has the status es, after n leases. *)
RowInv(es, row, n) ==
  /\ n = row.attempt
  /\ n <= MaxAttempts
  /\ es \in {"absent", "queued", "cancelled"} => n = 0
  /\ es = "absent"    => row.status = "absent"
  /\ es = "queued"    => row.status = "pending"
  /\ es = "cancelled" => row.status \in {"pending", "cancelled"}
  /\ es = "running"   => row.status \in {"pending", "running", "succeeded", "dead_letter"}
  /\ es = "succeeded" => row.status = "succeeded"
  /\ es = "failed"    => row.status \in {"succeeded", "dead_letter"}
  /\ row.status = "running" => row.lease = n /\ n > 0 /\ row.runner \in Runners
  /\ row.status = "succeeded" => n > 0
  /\ row.status = "dead_letter" => n = MaxAttempts

TablesOK(ex, tg, is) ==
  /\ ex \in [Executions -> ExecutionRow]
  /\ tg \in [Targets -> TargetRow]
  /\ is \in [Targets -> Nat]
  /\ \A t \in Targets : RowInv(ex[ExecutionOf[t]].status, tg[t], is[t])
  /\ \A e \in Executions : ex[e].status = "failed" => DeadLettered(tg, e) # {}

(* Receipts name leases that were handed out, one result per lease, and a  *)
(* success only under the lease the target ended with.                     *)
ReceiptsOK ==
  \A x \in receipts :
    /\ x.lease \in 1 .. issued[x.target]
    /\ x.outcome = "ok" =>
         target[x.target].status = "succeeded" /\ target[x.target].lease = x.lease
    /\ \A y \in receipts : x.target = y.target /\ x.lease = y.lease => x = y

(* What the sweep holds in memory is old: attempts only grow. *)
SweepOK == \A row \in sweep.rows : row[2] <= target[row[1]].attempt

QueueInv ==
  /\ TypeOK
  /\ TablesOK(execution, target, issued)
  /\ ReceiptsOK
  /\ acked \subseteq receipts
  /\ SweepOK
  /\ \A e \in cancelling : execution[e].status = "cancelled"
=============================================================================
