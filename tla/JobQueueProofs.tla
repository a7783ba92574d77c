--------------------------- MODULE JobQueueProofs ---------------------------
(***************************************************************************)
(* Proofs about the execution queue, for every set of executions, targets  *)
(* and runners, every scope and every max_attempts: its inductive          *)
(* invariant and what follows from it, and then what a step never does.    *)
(***************************************************************************)
EXTENDS JobQueueInvariant, TLAPS

-----------------------------------------------------------------------------
(* Rows and statements. *)

(* A row a reconciliation takes back is a row of the table.                *)
LEMMA ReclaimedRowType ==
  ASSUME NEW row \in TargetRow, NEW seen \in Nat
  PROVE  /\ ReclaimedRow(row, seen) \in TargetRow
         /\ ReclaimedRow(row, seen).attempt = row.attempt
         /\ ReclaimedRow(row, seen).status = IF seen >= MaxAttempts THEN "dead_letter" ELSE "pending"
  BY DEF ReclaimedRow, TargetRow, TargetStatuses, NoLease

(* ... and, when it was running, it keeps the row invariant although the   *)
(* attempt was read earlier.                                               *)
LEMMA ReclaimedRowInv ==
  ASSUME NEW row \in TargetRow, NEW seen \in Nat, NEW n \in Nat,
         NEW es \in ExecutionStatuses,
         RowInv(es, row, n), row.status = "running", seen <= row.attempt
  PROVE  RowInv(es, ReclaimedRow(row, seen), n)
  <1>1. es = "running"
    BY DEF RowInv, ExecutionStatuses
  <1>2. seen >= MaxAttempts => n = MaxAttempts
    BY ConstantsAssumption DEF RowInv, TargetRow
  <1> QED
    BY <1>1, <1>2, ReclaimedRowType DEF RowInv

(* A new lease makes a running row. *)
LEMMA LeasedRowType ==
  ASSUME NEW row \in TargetRow, NEW r \in Runners, NEW l \in Nat
  PROVE  /\ LeasedRow(row, r, l) \in TargetRow
         /\ LeasedRow(row, r, l).status = "running"
         /\ LeasedRow(row, r, l).runner = r
         /\ LeasedRow(row, r, l).lease = l
         /\ LeasedRow(row, r, l).attempt = row.attempt + 1
  <1>1. row.attempt + 1 \in Nat
    BY DEF TargetRow
  <1>2. ASSUME NEW n \in Nat
        PROVE  [row EXCEPT !.status = "running", !.runner = r, !.lease = l,
                           !.lapsed = FALSE, !.attempt = n] \in TargetRow
    BY DEF TargetRow, TargetStatuses
  <1>3. LeasedRow(row, r, l) \in TargetRow
    BY <1>1, <1>2 DEF LeasedRow
  <1> QED
    BY <1>3 DEF LeasedRow, TargetRow

(* A result ends a row or sends it back to the queue. *)
LEMMA ResultRowType ==
  ASSUME NEW row \in TargetRow, NEW o \in Outcomes
  PROVE  /\ FinishedRow(row, o) \in TargetRow
         /\ FinishedRow(row, o).status = IF o = "ok" THEN "succeeded" ELSE "dead_letter"
         /\ FinishedRow(row, o).attempt = row.attempt
         /\ FinishedRow(row, o).lease = row.lease
         /\ RetriedRow(row) \in TargetRow
         /\ RetriedRow(row).status = "pending"
         /\ RetriedRow(row).attempt = row.attempt
  BY DEF FinishedRow, RetriedRow, TargetRow, TargetStatuses, NoLease, Outcomes

(* The reconciliation of a claim, as far as the target table goes. *)
LEMMA ReclaimAllOK ==
  ASSUME NEW ex, NEW tg, NEW is, TablesOK(ex, tg, is)
  PROVE  /\ TablesOK(ex, ReclaimAll(ex, tg), is)
         /\ \A t \in Targets : ReclaimAll(ex, tg)[t].attempt = tg[t].attempt
         /\ \A t \in Targets : tg[t].status # "running" => ReclaimAll(ex, tg)[t] = tg[t]
  <1> DEFINE new == ReclaimAll(ex, tg)
  <1>0. \A t \in Targets : ExecutionOf[t] \in Executions
    BY ConstantsAssumption
  <1>1. \A t \in Targets : /\ new[t] = tg[t]
                           \/ /\ new[t] = ReclaimedRow(tg[t], tg[t].attempt)
                              /\ tg[t].status = "running"
    BY DEF ReclaimAll, ExpiredRows
  <1>2. \A t \in Targets : tg[t].attempt \in Nat /\ tg[t] \in TargetRow
    BY DEF TablesOK, TargetRow
  <1>3. new \in [Targets -> TargetRow]
    BY <1>2, ReclaimedRowType DEF ReclaimAll
  <1>4. ASSUME NEW t \in Targets
        PROVE  RowInv(ex[ExecutionOf[t]].status, new[t], is[t])
    <2>1. ex[ExecutionOf[t]].status \in ExecutionStatuses /\ is[t] \in Nat
      BY <1>0 DEF TablesOK, ExecutionRow
    <2>2. RowInv(ex[ExecutionOf[t]].status, tg[t], is[t])
      BY DEF TablesOK
    <2> HIDE DEF new
    <2> QED
      BY <1>1, <1>2, <2>1, <2>2, ReclaimedRowInv
  <1>5. ASSUME NEW e \in Executions, ex[e].status = "failed"
        PROVE  DeadLettered(new, e) # {}
    <2>1. PICK t \in Targets : ExecutionOf[t] = e /\ tg[t].status = "dead_letter"
      BY <1>5 DEF TablesOK, DeadLettered, TargetsOf
    <2>2. new[t] = tg[t]
      BY <1>1, <2>1
    <2> QED
      BY <2>1, <2>2 DEF DeadLettered, TargetsOf
  <1>6. \A t \in Targets : new[t].attempt = tg[t].attempt
    BY <1>1, <1>2, ReclaimedRowType
  <1> QED
    BY <1>1, <1>3, <1>4, <1>5, <1>6 DEF TablesOK

(* Finalizing agrees with the targets: it takes an execution from running  *)
(* to failed, never one that has not started.                              *)
LEMMA FinalizeOK ==
  ASSUME NEW ex, NEW tg, NEW is, TablesOK(ex, tg, is)
  PROVE  /\ TablesOK(FinalizeReconciled(ex, tg), tg, is)
         /\ \A e \in Executions :
              \/ FinalizeReconciled(ex, tg)[e] = ex[e]
              \/ /\ ex[e].status = "running"
                 /\ FinalizeReconciled(ex, tg)[e].status = "failed"
                 /\ Open(tg, e) = {} /\ DeadLettered(tg, e) # {}
  <1> DEFINE new == FinalizeReconciled(ex, tg)
  <1>0. /\ \A t \in Targets : ExecutionOf[t] \in Executions
        /\ \A e \in Executions : ex[e] \in ExecutionRow /\ ex[e].status \in ExecutionStatuses
    BY ConstantsAssumption DEF TablesOK, ExecutionRow
  <1>1. ASSUME NEW e \in Executions
        PROVE  \/ new[e] = ex[e]
               \/ /\ ex[e].status = "running"
                  /\ new[e] = [ex[e] EXCEPT !.status = "failed"]
                  /\ Open(tg, e) = {} /\ DeadLettered(tg, e) # {}
    <2>1. CASE ex[e].status \in Active /\ Open(tg, e) = {} /\ DeadLettered(tg, e) # {}
      <3>1. PICK t \in Targets : ExecutionOf[t] = e /\ tg[t].status = "dead_letter"
        BY <2>1 DEF DeadLettered, TargetsOf
      <3>2. RowInv(ex[e].status, tg[t], is[t])
        BY <3>1 DEF TablesOK
      <3>3. ex[e].status = "running"
        BY <2>1, <3>1, <3>2 DEF RowInv, Active
      <3> QED
        BY <2>1, <3>3 DEF FinalizeReconciled
    <2>2. CASE ~ (ex[e].status \in Active /\ Open(tg, e) = {} /\ DeadLettered(tg, e) # {})
      BY <2>2 DEF FinalizeReconciled
    <2> QED BY <2>1, <2>2
  <1>2. ASSUME NEW e \in Executions, ex[e].status = "running"
        PROVE  [ex[e] EXCEPT !.status = "failed"] \in ExecutionRow
               /\ [ex[e] EXCEPT !.status = "failed"].status = "failed"
    BY <1>0 DEF ExecutionRow, ExecutionStatuses
  <1>3. new \in [Executions -> ExecutionRow]
    <2>1. new = [e \in Executions |-> new[e]]
      BY DEF FinalizeReconciled
    <2> HIDE DEF new
    <2> QED BY <2>1, <1>0, <1>1, <1>2
  <1>4. ASSUME NEW t \in Targets
        PROVE  RowInv(new[ExecutionOf[t]].status, tg[t], is[t])
    <2> DEFINE e == ExecutionOf[t]
    <2>1. RowInv(ex[e].status, tg[t], is[t]) /\ e \in Executions
      BY <1>0 DEF TablesOK
    <2>2. CASE new[e] = ex[e]
      BY <2>1, <2>2
    <2>3. CASE new[e] # ex[e]
      <3>1. /\ ex[e].status = "running" /\ new[e].status = "failed"
            /\ Open(tg, e) = {}
        BY <1>1, <1>2, <2>1, <2>3
      <3>2. tg[t].status \notin {"pending", "running"}
        BY <3>1 DEF Open, TargetsOf
      <3> QED
        BY <2>1, <3>1, <3>2 DEF RowInv
    <2> QED BY <2>2, <2>3
  <1>5. \A e \in Executions : new[e].status = "failed" => DeadLettered(tg, e) # {}
    BY <1>1 DEF TablesOK
  <1>6. tg \in [Targets -> TargetRow] /\ is \in [Targets -> Nat]
    BY DEF TablesOK
  <1>7. TablesOK(new, tg, is)
    <2> HIDE DEF new
    <2> QED BY <1>3, <1>4, <1>5, <1>6 DEF TablesOK
  <1> QED
    BY <1>1, <1>2, <1>7

(* A row may be replaced by another that fits the status of its execution. *)
LEMMA OneRowOK ==
  ASSUME NEW ex, NEW tg, NEW is, TablesOK(ex, tg, is),
         NEW t \in Targets, NEW row \in TargetRow, NEW n \in Nat,
         RowInv(ex[ExecutionOf[t]].status, row, n),
         tg[t].status # "dead_letter",
         NEW isNew \in [Targets -> Nat],
         isNew[t] = n, \A u \in Targets \ {t} : isNew[u] = is[u]
  PROVE  TablesOK(ex, [tg EXCEPT ![t] = row], isNew)
  <1> DEFINE new == [tg EXCEPT ![t] = row]
  <1>1. /\ new \in [Targets -> TargetRow] /\ new[t] = row
        /\ \A u \in Targets \ {t} : new[u] = tg[u]
    BY DEF TablesOK
  <1> HIDE DEF new
  <1>2. \A u \in Targets : RowInv(ex[ExecutionOf[u]].status, new[u], isNew[u])
    BY <1>1 DEF TablesOK
  <1>3. ASSUME NEW e \in Executions, ex[e].status = "failed"
        PROVE  DeadLettered(new, e) # {}
    <2>1. PICK u \in Targets : ExecutionOf[u] = e /\ tg[u].status = "dead_letter"
      BY <1>3 DEF TablesOK, DeadLettered, TargetsOf
    <2>2. new[u] = tg[u]
      BY <1>1, <2>1
    <2> QED
      BY <2>1, <2>2 DEF DeadLettered, TargetsOf
  <1>4. TablesOK(ex, new, isNew)
    BY <1>1, <1>2, <1>3 DEF TablesOK
  <1> QED
    BY <1>4 DEF new

(* A status may be replaced by one that fits the rows of its targets. *)
LEMMA OneStatusOK ==
  ASSUME NEW ex, NEW tg, NEW is, TablesOK(ex, tg, is),
         NEW e \in Executions, NEW s \in ExecutionStatuses,
         \A t \in TargetsOf(e) : RowInv(s, tg[t], is[t]),
         s = "failed" => DeadLettered(tg, e) # {}
  PROVE  TablesOK([ex EXCEPT ![e].status = s], tg, is)
  <1> DEFINE new == [ex EXCEPT ![e].status = s]
  <1>1. ex \in [Executions -> ExecutionRow] /\ ex[e] \in ExecutionRow
    BY DEF TablesOK
  <1>2. [ex[e] EXCEPT !.status = s] \in ExecutionRow /\ [ex[e] EXCEPT !.status = s].status = s
    BY <1>1 DEF ExecutionRow
  <1>3. /\ new \in [Executions -> ExecutionRow] /\ new[e].status = s
        /\ \A x \in Executions \ {e} : new[x] = ex[x]
    BY <1>1, <1>2
  <1> HIDE DEF new
  <1>4. \A t \in Targets : ExecutionOf[t] \in Executions
    BY ConstantsAssumption
  <1>5. \A t \in Targets : RowInv(new[ExecutionOf[t]].status, tg[t], is[t])
    BY <1>3, <1>4 DEF TablesOK, TargetsOf
  <1>6. \A x \in Executions : new[x].status = "failed" => DeadLettered(tg, x) # {}
    BY <1>3 DEF TablesOK
  <1>7. TablesOK(new, tg, is)
    BY <1>3, <1>5, <1>6 DEF TablesOK
  <1> QED
    BY <1>7 DEF new

(* A claim starts its execution, or finds it started. *)
LEMMA StartOK ==
  ASSUME NEW ex, NEW tg, NEW is, TablesOK(ex, tg, is),
         NEW e \in Executions, ex[e].status \in Active
  PROVE  TablesOK([ex EXCEPT ![e].status = "running"], tg, is)
  <1>1. \A t \in TargetsOf(e) : RowInv(ex[e].status, tg[t], is[t])
    BY DEF TablesOK, TargetsOf
  <1>2. \A t \in TargetsOf(e) : RowInv("running", tg[t], is[t])
    BY <1>1 DEF RowInv, Active
  <1>3. "running" \in ExecutionStatuses /\ "running" # "failed"
    BY DEF ExecutionStatuses
  <1> QED
    BY <1>2, <1>3, OneStatusOK

(* The last result decides a running execution as its targets ended. *)
LEMMA DecideOK ==
  ASSUME NEW ex, NEW tg, NEW is, TablesOK(ex, tg, is),
         NEW e \in Executions, ex[e].status = "running", Open(tg, e) = {}
  PROVE  TablesOK([ex EXCEPT ![e].status = Verdict(tg, e)], tg, is)
  <1>1. \A t \in TargetsOf(e) :
           /\ RowInv("running", tg[t], is[t])
           /\ tg[t].status \notin {"pending", "running"}
    BY DEF TablesOK, TargetsOf, Open
  <1>2. CASE DeadLettered(tg, e) = {}
    <2>1. \A t \in TargetsOf(e) : tg[t].status # "dead_letter"
      BY <1>2 DEF DeadLettered
    <2>2. \A t \in TargetsOf(e) : RowInv("succeeded", tg[t], is[t])
      BY <1>1, <2>1 DEF RowInv
    <2>3. Verdict(tg, e) = "succeeded" /\ "succeeded" \in ExecutionStatuses
      BY <1>2 DEF Verdict, ExecutionStatuses
    <2> QED
      BY <2>2, <2>3, OneStatusOK
  <1>3. CASE DeadLettered(tg, e) # {}
    <2>1. \A t \in TargetsOf(e) : RowInv("failed", tg[t], is[t])
      BY <1>1 DEF RowInv
    <2>2. Verdict(tg, e) = "failed" /\ "failed" \in ExecutionStatuses
      BY <1>3 DEF Verdict, ExecutionStatuses
    <2> QED
      BY <1>3, <2>1, <2>2, OneStatusOK
  <1> QED
    BY <1>2, <1>3

-----------------------------------------------------------------------------
(* The steps. *)

(* Receipts stay right while targets that succeeded are left alone. *)
LEMMA ReceiptsKept ==
  ASSUME QueueInv, receipts' = receipts,
         TablesOK(execution', target', issued'),
         \A t \in Targets : target'[t].attempt >= target[t].attempt,
         \A t \in Targets : target[t].status = "succeeded" => target'[t] = target[t]
  PROVE  ReceiptsOK'
  <1>1. \A t \in Targets :
          /\ issued[t] \in Nat /\ issued'[t] \in Nat
          /\ issued[t] = target[t].attempt /\ issued'[t] = target'[t].attempt
    BY DEF QueueInv, TablesOK, RowInv
  <1>2. \A x \in receipts : x.target \in Targets /\ x.lease \in Nat
    BY DEF QueueInv, TypeOK, Result
  <1>3. \A x \in receipts : x.lease \in 1 .. issued'[x.target]
    BY <1>1, <1>2 DEF QueueInv, ReceiptsOK
  <1> QED
    BY <1>2, <1>3 DEF QueueInv, ReceiptsOK

(* What the sweep has read stays old while attempts grow. *)
LEMMA SweepKept ==
  ASSUME QueueInv, sweep'.rows \subseteq sweep.rows,
         target' \in [Targets -> TargetRow],
         \A t \in Targets : target'[t].attempt >= target[t].attempt
  PROVE  SweepOK'
  <1>1. \A t \in Targets : target[t].attempt \in Nat /\ target'[t].attempt \in Nat
    BY DEF QueueInv, TablesOK, TargetRow
  <1>2. \A row \in sweep.rows : row[1] \in Targets /\ row[2] \in Nat
    BY DEF QueueInv, TypeOK
  <1> QED
    BY <1>1, <1>2 DEF QueueInv, SweepOK

(* The tables of the first state. *)
LEMMA InitOK == Init => QueueInv
  <1> SUFFICES ASSUME Init PROVE QueueInv
    OBVIOUS
  <1>1. \A t \in Targets : ExecutionOf[t] \in Executions
    BY ConstantsAssumption
  <1>2. AbsentTargetRow \in TargetRow /\ AbsentTargetRow.status = "absent"
        /\ AbsentTargetRow.attempt = 0
    BY DEF AbsentTargetRow, NewTargetRow, TargetRow, TargetStatuses, NoLease
  <1>3. execution \in [Executions -> ExecutionRow]
    BY DEF Init, ExecutionRow, ExecutionStatuses
  <1>4. target \in [Targets -> TargetRow] /\ issued \in [Targets -> Nat]
    BY <1>2 DEF Init
  <1>5. \A t \in Targets : RowInv(execution[ExecutionOf[t]].status, target[t], issued[t])
    BY <1>1, <1>2, ConstantsAssumption DEF Init, RowInv
  <1>6. TablesOK(execution, target, issued)
    BY <1>3, <1>4, <1>5 DEF TablesOK, Init
  <1>7. TypeOK
    BY <1>3, <1>4 DEF Init, TypeOK, NoSweep
  <1> QED
    BY <1>6, <1>7 DEF Init, QueueInv, ReceiptsOK, SweepOK, NoSweep

(* A new execution has new targets. *)
LEMMA CreateStep ==
  ASSUME QueueInv, NEW e \in Executions, CreateExecution(e)
  PROVE  QueueInv'
  <1>1. PICK now \in 1 .. LastSecond :
          execution' = [execution EXCEPT ![e] = [status |-> "queued", requestedAt |-> now]]
    BY DEF CreateExecution
  <1>2. NewTargetRow \in TargetRow /\ NewTargetRow.status = "pending"
        /\ NewTargetRow.attempt = 0
    BY DEF NewTargetRow, TargetRow, TargetStatuses, NoLease
  <1>3. /\ execution' \in [Executions -> ExecutionRow]
        /\ execution'[e].status = "queued"
        /\ \A x \in Executions \ {e} : execution'[x] = execution[x]
    <2>1. [status |-> "queued", requestedAt |-> now] \in ExecutionRow
      BY BoundsAssumption DEF ExecutionRow, ExecutionStatuses
    <2> QED
      BY <1>1, <2>1 DEF QueueInv, TypeOK
  <1>4. /\ target' \in [Targets -> TargetRow]
        /\ \A t \in Targets : target'[t] = IF ExecutionOf[t] = e THEN NewTargetRow ELSE target[t]
    BY <1>2 DEF CreateExecution, InsertTargets, TargetsOf, QueueInv, TypeOK
  <1>5. \A t \in Targets : ExecutionOf[t] \in Executions
    BY ConstantsAssumption
  <1>6. \A t \in Targets : RowInv(execution[ExecutionOf[t]].status, target[t], issued[t])
    BY DEF QueueInv, TablesOK
  <1>7. \A t \in Targets : ExecutionOf[t] = e =>
          issued[t] = 0 /\ target[t].status = "absent" /\ target[t].attempt = 0
    BY <1>6 DEF CreateExecution, RowInv
  <1>8. issued' = issued
    BY DEF CreateExecution
  <1>9. TablesOK(execution', target', issued')
    <2>1. \A t \in Targets : RowInv(execution'[ExecutionOf[t]].status, target'[t], issued'[t])
      <3> TAKE t \in Targets
      <3>1. CASE ExecutionOf[t] = e
        BY <3>1, <1>2, <1>3, <1>4, <1>7, <1>8, ConstantsAssumption DEF RowInv
      <3>2. CASE ExecutionOf[t] # e
        BY <3>2, <1>3, <1>4, <1>5, <1>6, <1>8
      <3> QED BY <3>1, <3>2
    <2>2. ASSUME NEW x \in Executions, execution'[x].status = "failed"
          PROVE  DeadLettered(target', x) # {}
      <3>1. x # e /\ execution[x].status = "failed"
        BY <1>3, <2>2
      <3>2. PICK t \in Targets : ExecutionOf[t] = x /\ target[t].status = "dead_letter"
        BY <3>1 DEF QueueInv, TablesOK, DeadLettered, TargetsOf
      <3> QED
        BY <1>4, <3>1, <3>2 DEF DeadLettered, TargetsOf
    <2> QED
      BY <1>3, <1>4, <1>8, <2>1, <2>2 DEF QueueInv, TablesOK
  <1>10. \A t \in Targets : /\ target'[t].attempt >= target[t].attempt
                            /\ target[t].status = "succeeded" => target'[t] = target[t]
    BY <1>2, <1>4, <1>7 DEF QueueInv, TypeOK, TargetRow
  <1>11. ReceiptsOK'
    BY <1>9, <1>10, ReceiptsKept DEF CreateExecution
  <1>12. SweepOK'
    BY <1>4, <1>10, SweepKept DEF CreateExecution
  <1>13. \A x \in cancelling' : execution'[x].status = "cancelled"
    BY <1>3 DEF CreateExecution, QueueInv, TypeOK
  <1> QED
    BY <1>3, <1>4, <1>9, <1>11, <1>12, <1>13 DEF QueueInv, TypeOK, CreateExecution

(* Only a queued execution is cancelled: none of its targets was leased. *)
LEMMA CancelStep ==
  ASSUME QueueInv, NEW e \in Executions, CancelExecution(e)
  PROVE  QueueInv'
  <1>1. "cancelled" \in ExecutionStatuses /\ "cancelled" # "failed"
    BY DEF ExecutionStatuses
  <1>2. \A t \in TargetsOf(e) : RowInv("queued", target[t], issued[t])
    BY DEF QueueInv, TablesOK, TargetsOf, CancelExecution
  <1>3. \A t \in TargetsOf(e) : RowInv("cancelled", target[t], issued[t])
    BY <1>2 DEF RowInv
  <1>4. TablesOK(execution', target', issued')
    BY <1>1, <1>3, OneStatusOK DEF QueueInv, CancelExecution
  <1>5. /\ execution'[e].status = "cancelled"
        /\ \A x \in Executions \ {e} : execution'[x] = execution[x]
    BY DEF CancelExecution, QueueInv, TypeOK, ExecutionRow
  <1>6. \A x \in cancelling' : execution'[x].status = "cancelled"
    BY <1>5 DEF CancelExecution, QueueInv, TypeOK
  <1> QED
    BY <1>4, <1>6 DEF QueueInv, TypeOK, TablesOK, ReceiptsOK, SweepOK, CancelExecution

(* ... and the second UPDATE finds them as the first left them. *)
LEMMA CancelTargetsStep ==
  ASSUME QueueInv, NEW e \in Executions, CancelTargets(e)
  PROVE  QueueInv'
  <1>1. e \in cancelling /\ execution[e].status = "cancelled"
    BY DEF CancelTargets, QueueInv
  <1>2. \A t \in Targets : [target[t] EXCEPT !.status = "cancelled"] \in TargetRow
                        /\ [target[t] EXCEPT !.status = "cancelled"].status = "cancelled"
                        /\ [target[t] EXCEPT !.status = "cancelled"].attempt = target[t].attempt
    BY DEF QueueInv, TypeOK, TargetRow, TargetStatuses
  <1>3. \A t \in Targets : target'[t] =
          IF ExecutionOf[t] = e THEN [target[t] EXCEPT !.status = "cancelled"] ELSE target[t]
    BY DEF CancelTargets, CancelRows, TargetsOf
  <1>4. target' \in [Targets -> TargetRow]
    BY <1>2 DEF CancelTargets, CancelRows, QueueInv, TypeOK
  <1>5. \A t \in Targets : RowInv(execution[ExecutionOf[t]].status, target[t], issued[t])
    BY DEF QueueInv, TablesOK
  <1>6. \A t \in Targets : ExecutionOf[t] = e => target[t].status \in {"pending", "cancelled"}
    BY <1>1, <1>5 DEF RowInv
  <1>7. TablesOK(execution', target', issued')
    <2>1. \A t \in Targets : RowInv(execution[ExecutionOf[t]].status, target'[t], issued[t])
      <3> TAKE t \in Targets
      <3>1. CASE ExecutionOf[t] = e
        <4>1. RowInv("cancelled", target[t], issued[t])
          BY <1>1, <1>5, <3>1
        <4>2. target'[t].status = "cancelled" /\ target'[t].attempt = target[t].attempt
          BY <1>2, <1>3, <3>1
        <4>3. RowInv("cancelled", target'[t], issued[t])
          BY <4>1, <4>2 DEF RowInv
        <4> QED
          BY <1>1, <3>1, <4>3
      <3>2. CASE ExecutionOf[t] # e
        BY <1>3, <1>5, <3>2
      <3> QED BY <3>1, <3>2
    <2>2. ASSUME NEW x \in Executions, execution[x].status = "failed"
          PROVE  DeadLettered(target', x) # {}
      <3>1. PICK t \in Targets : ExecutionOf[t] = x /\ target[t].status = "dead_letter"
        BY <2>2 DEF QueueInv, TablesOK, DeadLettered, TargetsOf
      <3> QED
        BY <1>1, <1>3, <2>2, <3>1 DEF DeadLettered, TargetsOf
    <2> QED
      BY <1>4, <2>1, <2>2 DEF QueueInv, TablesOK, CancelTargets
  <1>8. \A t \in Targets : /\ target'[t].attempt >= target[t].attempt
                           /\ target[t].status = "succeeded" => target'[t] = target[t]
    <2>1. \A t \in Targets : target'[t].attempt = target[t].attempt /\ target[t].attempt \in Nat
      BY <1>2, <1>3 DEF QueueInv, TypeOK, TargetRow
    <2>2. \A t \in Targets : target[t].status = "succeeded" => target'[t] = target[t]
      BY <1>3, <1>6
    <2> QED
      BY <2>1, <2>2
  <1>9. ReceiptsOK'
    BY <1>7, <1>8, ReceiptsKept DEF CancelTargets
  <1>10. SweepOK'
    BY <1>4, <1>8, SweepKept DEF CancelTargets
  <1> QED
    BY <1>4, <1>7, <1>9, <1>10 DEF QueueInv, TypeOK, CancelTargets

(* A step that replaces one row, not that of a target that has ended, and  *)
(* leaves the executions alone. *)
LEMMA OneRowStep ==
  ASSUME QueueInv, NEW t \in Targets, NEW row \in TargetRow,
         target' = [target EXCEPT ![t] = row],
         target[t].status \in {"pending", "running"},
         RowInv(execution[ExecutionOf[t]].status, row, issued[t]),
         sweep' \in [phase : {"idle", "organisations", "rows"}, rows : SUBSET (Targets \X Nat)],
         sweep'.rows \subseteq sweep.rows,
         renewals' \in [Targets -> Nat],
         UNCHANGED <<execution, receipts, cancelling, issued, acked, restarts>>
  PROVE  QueueInv'
  <1>1. TablesOK(execution', target', issued')
    <2>1. target[t].status # "dead_letter" /\ issued[t] \in Nat
      BY DEF QueueInv, TablesOK
    <2>2. issued \in [Targets -> Nat]
      BY DEF QueueInv, TypeOK
    <2> QED
      BY <2>1, <2>2, OneRowOK DEF QueueInv
  <1>2. target' \in [Targets -> TargetRow]
    BY DEF QueueInv, TypeOK
  <1>3. \A u \in Targets : target'[u] = IF u = t THEN row ELSE target[u]
    BY DEF QueueInv, TypeOK
  <1>4. row.attempt = issued[t] /\ target[t].attempt = issued[t]
    BY DEF QueueInv, TablesOK, RowInv
  <1>5. \A u \in Targets : /\ target'[u].attempt >= target[u].attempt
                           /\ target[u].status = "succeeded" => target'[u] = target[u]
    BY <1>3, <1>4 DEF QueueInv, TypeOK, TargetRow
  <1>6. ReceiptsOK'
    BY <1>1, <1>5, ReceiptsKept
  <1>7. SweepOK'
    BY <1>2, <1>5, SweepKept
  <1> QED
    BY <1>1, <1>2, <1>6, <1>7 DEF QueueInv, TypeOK

(* A claim, with or without its reconciliation.  What it leases has an     *)
(* attempt left, and its execution is queued or running.                   *)
LEMMA ClaimStep ==
  ASSUME QueueInv, NEW r \in Runners, NEW wanted \in Filters, NEW due \in BOOLEAN,
         ClaimJob(r, wanted, due)
  PROVE  QueueInv'
  <1> DEFINE tg   == IF due THEN ReclaimAll(execution, target) ELSE target
             ex   == IF due THEN FinalizeReconciled(execution, tg) ELSE execution
             jobs == Oldest(ex, Claimable(ex, tg, r, wanted))
  <1>1. /\ TablesOK(ex, tg, issued)
        /\ \A t \in Targets : tg[t].attempt = target[t].attempt
        /\ \A t \in Targets : target[t].status # "running" => tg[t] = target[t]
        /\ \A e \in Executions : ex[e].status = execution[e].status \/ execution[e].status = "running"
    <2>1. CASE due
      <3>1. tg = ReclaimAll(execution, target) /\ ex = FinalizeReconciled(execution, tg)
        BY <2>1
      <3> HIDE DEF tg, ex
      <3>2. /\ TablesOK(execution, tg, issued)
            /\ \A t \in Targets : tg[t].attempt = target[t].attempt
            /\ \A t \in Targets : target[t].status # "running" => tg[t] = target[t]
        BY <3>1, ReclaimAllOK DEF QueueInv
      <3>3. /\ TablesOK(ex, tg, issued)
            /\ \A e \in Executions : ex[e].status = execution[e].status \/ execution[e].status = "running"
        BY <3>1, <3>2, FinalizeOK
      <3> QED
        BY <3>2, <3>3
    <2>2. CASE ~ due
      <3>1. tg = target /\ ex = execution
        BY <2>2
      <3> HIDE DEF tg, ex
      <3> QED
        BY <3>1 DEF QueueInv
    <2> QED BY <2>1, <2>2
  <1>2. /\ \/ /\ jobs = {} /\ execution' = ex /\ target' = tg
              /\ UNCHANGED <<issued, renewals>>
           \/ \E t \in jobs :
                /\ execution' = [ex EXCEPT ![ExecutionOf[t]].status = "running"]
                /\ target' = [tg EXCEPT ![t] = LeasedRow(@, r, issued[t] + 1)]
                /\ issued' = [issued EXCEPT ![t] = @ + 1]
                /\ renewals' = [renewals EXCEPT ![t] = 0]
        /\ UNCHANGED <<receipts, sweep, cancelling, acked, restarts>>
    BY DEF ClaimJob
  <1>3. jobs \subseteq Claimable(ex, tg, r, wanted)
    BY DEF Oldest
  <1> HIDE DEF tg, ex, jobs
  <1>4. /\ TablesOK(execution', target', issued')
        /\ renewals' \in [Targets -> Nat]
        /\ \A t \in Targets : target'[t].attempt >= target[t].attempt
        /\ \A t \in Targets : target[t].status = "succeeded" => target'[t] = target[t]
        /\ \A e \in Executions : execution[e].status = "cancelled" => execution'[e].status = "cancelled"
    <2>1. CASE jobs = {} /\ execution' = ex /\ target' = tg /\ UNCHANGED <<issued, renewals>>
      <3>1. \A t \in Targets : target[t].attempt \in Nat
        BY DEF QueueInv, TypeOK, TargetRow
      <3> QED
        BY <1>1, <2>1, <3>1 DEF QueueInv, TypeOK
    <2>2. ASSUME NEW t \in jobs,
                 execution' = [ex EXCEPT ![ExecutionOf[t]].status = "running"],
                 target' = [tg EXCEPT ![t] = LeasedRow(@, r, issued[t] + 1)],
                 issued' = [issued EXCEPT ![t] = @ + 1],
                 renewals' = [renewals EXCEPT ![t] = 0]
          PROVE  <1>4
      <3>1. /\ t \in Targets
            /\ ex[ExecutionOf[t]].status \in Active
            /\ tg[t].status \in {"pending", "running"}
            /\ tg[t].attempt < MaxAttempts
        BY <1>3, ConstantsAssumption DEF Claimable
      <3>2. /\ tg \in [Targets -> TargetRow] /\ tg[t] \in TargetRow
            /\ ex \in [Executions -> ExecutionRow]
            /\ issued \in [Targets -> Nat]
            /\ RowInv(ex[ExecutionOf[t]].status, tg[t], issued[t])
            /\ ExecutionOf[t] \in Executions
        BY <1>1, <3>1, ConstantsAssumption DEF TablesOK
      <3> DEFINE n   == issued[t] + 1
                 row == LeasedRow(tg[t], r, n)
      <3>3. /\ n \in Nat /\ n > 0 /\ n <= MaxAttempts /\ n = tg[t].attempt + 1
        BY <3>1, <3>2, ConstantsAssumption DEF RowInv, TargetRow
      <3>4. /\ row \in TargetRow /\ row.status = "running" /\ row.runner = r
            /\ row.lease = n /\ row.attempt = n
        BY <3>2, <3>3, LeasedRowType
      <3> HIDE DEF n, row
      <3>5. RowInv("running", row, n)
        BY <3>3, <3>4 DEF RowInv
      <3>6. TablesOK(execution', tg, issued)
        BY <1>1, <2>2, <3>1, <3>2, StartOK
      <3>7. /\ execution'[ExecutionOf[t]].status = "running"
            /\ \A e \in Executions \ {ExecutionOf[t]} : execution'[e] = ex[e]
        BY <2>2, <3>2 DEF ExecutionRow
      <3>8. target' = [tg EXCEPT ![t] = row]
        BY <2>2, <3>1, <3>2 DEF row, n
      <3>9. /\ issued' \in [Targets -> Nat] /\ issued'[t] = n
            /\ \A u \in Targets \ {t} : issued'[u] = issued[u]
        BY <2>2, <3>1, <3>2, <3>3 DEF n
      <3>10. TablesOK(execution', target', issued')
        BY <3>1, <3>3, <3>4, <3>5, <3>6, <3>7, <3>8, <3>9, OneRowOK, ZenonT(40)
      <3>11. \A u \in Targets : target'[u] = IF u = t THEN row ELSE tg[u]
        BY <3>2, <3>8
      <3>12. \A u \in Targets : target'[u].attempt >= target[u].attempt
        <4>1. \A u \in Targets : tg[u].attempt = target[u].attempt /\ target[u].attempt \in Nat
          BY <1>1 DEF QueueInv, TypeOK, TargetRow
        <4> QED
          BY <4>1, <3>3, <3>4, <3>11
      <3>13. \A u \in Targets : target[u].status = "succeeded" => target'[u] = target[u]
        BY <1>1, <3>1, <3>11
      <3>14. \A e \in Executions : execution[e].status = "cancelled" => execution'[e].status = "cancelled"
        BY <1>1, <3>1, <3>7 DEF Active
      <3>15. renewals' \in [Targets -> Nat]
        BY <2>2 DEF QueueInv, TypeOK
      <3> QED
        BY <3>10, <3>12, <3>13, <3>14, <3>15
    <2> QED BY <1>2, <2>1, <2>2
  <1>5. ReceiptsOK'
    BY <1>2, <1>4, ReceiptsKept
  <1>6. SweepOK'
    BY <1>2, <1>4, SweepKept DEF TablesOK
  <1> QED
    BY <1>2, <1>4, <1>5, <1>6 DEF QueueInv, TypeOK, TablesOK

(* A recorded result is the only one of its lease, the newest one. *)
LEMMA RecordedOK ==
  ASSUME QueueInv, NEW res \in Result, RecordReceipt(res), issued' = issued,
         NEW row \in TargetRow, target' = [target EXCEPT ![res.target] = row],
         res.outcome = "ok" => row.status = "succeeded" /\ row.lease = res.lease
  PROVE  ReceiptsOK'
  <1>1. /\ res.target \in Targets /\ res.lease \in Nat
        /\ \A x \in receipts : x.target \in Targets /\ x.lease \in Nat
    BY DEF QueueInv, TypeOK, Result
  <1>2. res.lease \in 1 .. issued[res.target]
    BY <1>1 DEF RecordReceipt, Holds, QueueInv, TablesOK, RowInv
  <1>3. target[res.target].status = "running"
    BY DEF RecordReceipt, Holds
  <1>4. \A u \in Targets : target'[u] = IF u = res.target THEN row ELSE target[u]
    BY <1>1 DEF QueueInv, TypeOK
  <1>5. \A x \in receipts : ~ (x.target = res.target /\ x.lease = res.lease)
    BY DEF RecordReceipt, ReceiptsFor
  <1>6. receipts' = receipts \cup {res}
    BY DEF RecordReceipt
  <1>7. \A x \in receipts' : x.lease \in 1 .. issued'[x.target]
    BY <1>2, <1>6 DEF QueueInv, ReceiptsOK
  <1>8. \A x \in receipts' : x.outcome = "ok" =>
          target'[x.target].status = "succeeded" /\ target'[x.target].lease = x.lease
    <2>1. \A x \in receipts : x.outcome = "ok" => x.target # res.target
      BY <1>3 DEF QueueInv, ReceiptsOK
    <2> QED
      BY <1>1, <1>4, <1>6, <2>1 DEF QueueInv, ReceiptsOK
  <1>9. \A x, y \in receipts' : x.target = y.target /\ x.lease = y.lease => x = y
    BY <1>5, <1>6 DEF QueueInv, ReceiptsOK
  <1> QED
    BY <1>7, <1>8, <1>9 DEF ReceiptsOK

(* A result: replayed, sent back to the queue, or final. *)
LEMMA ResultStep ==
  ASSUME QueueInv, NEW res \in Result, SubmitResult(res)
  PROVE  QueueInv'
  <1> DEFINE t == res.target
             e == ExecutionOf[t]
  <1>1. /\ t \in Targets /\ e \in Executions /\ res.outcome \in Outcomes
        /\ target[t] \in TargetRow /\ issued[t] \in Nat
        /\ issued \in [Targets -> Nat]
    BY ConstantsAssumption DEF Result, QueueInv, TypeOK
  <1>2. UNCHANGED <<sweep, cancelling, issued, renewals, restarts>>
    BY DEF SubmitResult
  <1>3. CASE ReplayReceipt(res)
    BY <1>2, <1>3 DEF ReplayReceipt, ReceiptsFor, QueueInv, TypeOK, ReceiptsOK, SweepOK
  <1>4. ASSUME RecordReceipt(res)
        PROVE  /\ target[t].status = "running"
               /\ execution[e].status = "running"
               /\ receipts' \subseteq Result /\ acked' \subseteq receipts'
               /\ RowInv("running", target[t], issued[t])
    <2>1. target[t].status = "running" /\ RowInv(execution[e].status, target[t], issued[t])
      BY <1>1, <1>4 DEF RecordReceipt, Holds, QueueInv, TablesOK
    <2>2. execution[e].status \in ExecutionStatuses
      BY <1>1 DEF QueueInv, TypeOK, ExecutionRow
    <2>3. execution[e].status = "running"
      BY <2>1, <2>2 DEF RowInv, ExecutionStatuses
    <2> QED
      BY <1>4, <2>1, <2>3 DEF RecordReceipt, QueueInv, TypeOK
  <1>5. ASSUME RecordReceipt(res), NEW row \in TargetRow,
               target' = [target EXCEPT ![t] = row], row.attempt = target[t].attempt,
               res.outcome = "ok" => row.status = "succeeded" /\ row.lease = res.lease,
               TablesOK(execution', target', issued'),
               \A x \in Executions \ {e} : execution'[x] = execution[x]
        PROVE  QueueInv'
    <2>1. ReceiptsOK'
      BY <1>2, <1>5, RecordedOK
    <2>2. \A u \in Targets : target'[u].attempt >= target[u].attempt
      BY <1>1, <1>5 DEF QueueInv, TypeOK, TargetRow
    <2>3. SweepOK'
      BY <1>2, <1>5, <2>2, SweepKept DEF TablesOK
    <2>4. \A x \in cancelling' : execution'[x].status = "cancelled"
      BY <1>2, <1>4, <1>5 DEF QueueInv, TypeOK
    <2> QED
      BY <1>2, <1>4, <1>5, <2>1, <2>3, <2>4 DEF QueueInv, TypeOK, TablesOK
  <1>6. CASE ScheduleRetry(res)
    <2> DEFINE row == RetriedRow(target[t])
    <2>1. /\ RecordReceipt(res) /\ res.outcome = "fail" /\ execution' = execution
          /\ target' = [target EXCEPT ![t] = row]
      BY <1>1, <1>6 DEF ScheduleRetry, QueueInv, TypeOK
    <2>2. row \in TargetRow /\ row.status = "pending" /\ row.attempt = target[t].attempt
      BY <1>1, ResultRowType
    <2> HIDE DEF row, t, e
    <2>3. RowInv(execution[e].status, row, issued[t])
      BY <1>4, <2>1, <2>2 DEF RowInv
    <2>4. TablesOK(execution', target', issued')
      BY <1>1, <1>2, <1>4, <2>1, <2>2, <2>3, OneRowOK DEF QueueInv, e
    <2> QED
      BY <1>5, <2>1, <2>2, <2>4
  <1>7. CASE CompleteTarget(res)
    <2> DEFINE row == FinishedRow(target[t], res.outcome)
               tg  == [target EXCEPT ![t] = row]
    <2>1. /\ RecordReceipt(res)
          /\ res.outcome = "ok" \/ target[t].attempt >= MaxAttempts
          /\ target' = tg
          /\ \/ execution' = execution
             \/ Open(tg, e) = {} /\ execution' = [execution EXCEPT ![e].status = Verdict(tg, e)]
      BY <1>1, <1>7 DEF CompleteTarget, QueueInv, TypeOK
    <2>2. /\ row \in TargetRow /\ row.attempt = target[t].attempt
          /\ row.lease = target[t].lease
          /\ row.status = IF res.outcome = "ok" THEN "succeeded" ELSE "dead_letter"
      BY <1>1, ResultRowType
    <2>3. res.lease = target[t].lease
      BY <2>1 DEF RecordReceipt, Holds
    <2> HIDE DEF row, t, e
    <2>4. RowInv("running", row, issued[t])
      BY <1>1, <1>4, <2>1, <2>2, ConstantsAssumption DEF RowInv, TargetRow
    <2>5. TablesOK(execution, tg, issued)
      BY <1>1, <1>4, <2>1, <2>2, <2>4, OneRowOK DEF QueueInv, e
    <2> HIDE DEF tg
    <2>6. TablesOK(execution', target', issued')
      BY <1>1, <1>2, <1>4, <2>1, <2>5, DecideOK
    <2>7. \A x \in Executions \ {e} : execution'[x] = execution[x]
      BY <2>1 DEF QueueInv, TypeOK
    <2> QED
      BY <1>5, <2>1, <2>2, <2>3, <2>6, <2>7 DEF tg
  <1> QED
    BY <1>3, <1>6, <1>7 DEF SubmitResult

(* A renewal, and the clock, change no more of a row than one flag. *)
LEMMA FlagStep ==
  ASSUME QueueInv, NEW t \in Targets, NEW row \in TargetRow,
         row.status = target[t].status, row.attempt = target[t].attempt,
         row.lease = target[t].lease, row.runner = target[t].runner,
         target[t].status \in {"pending", "running"},
         target' = [target EXCEPT ![t] = row],
         renewals' \in [Targets -> Nat],
         UNCHANGED <<execution, receipts, sweep, cancelling, issued, acked, restarts>>
  PROVE  QueueInv'
  <1>1. RowInv(execution[ExecutionOf[t]].status, target[t], issued[t])
    BY DEF QueueInv, TablesOK
  <1>2. RowInv(execution[ExecutionOf[t]].status, row, issued[t])
    BY <1>1 DEF RowInv
  <1>3. /\ sweep' \in [phase : {"idle", "organisations", "rows"}, rows : SUBSET (Targets \X Nat)]
        /\ sweep'.rows \subseteq sweep.rows
    BY DEF QueueInv, TypeOK
  <1> QED
    BY <1>2, <1>3, OneRowStep

\* A renewal revives a lease and changes nothing else of the row.
LEMMA RenewStep ==
  ASSUME QueueInv, NEW r \in Runners, NEW t \in Targets, RenewLease(r, t)
  PROVE  QueueInv'
  <1> DEFINE row == [target[t] EXCEPT !.lapsed = FALSE]
  <1>1. row \in TargetRow /\ row.status = target[t].status /\ row.attempt = target[t].attempt
        /\ row.lease = target[t].lease /\ row.runner = target[t].runner
    BY DEF QueueInv, TypeOK, TargetRow
  <1>2. target' = [target EXCEPT ![t] = row] /\ renewals' \in [Targets -> Nat]
    BY DEF RenewLease, QueueInv, TypeOK
  <1> HIDE DEF row
  <1> QED
    BY <1>1, <1>2, FlagStep DEF RenewLease, Holds

\* The clock lets a lease lapse or a backoff end.
LEMMA ClockStep ==
  ASSUME QueueInv, NEW t \in Targets, LeaseLapses(t) \/ BackoffElapses(t)
  PROVE  QueueInv'
  <1>1. CASE LeaseLapses(t)
    <2> DEFINE row == [target[t] EXCEPT !.lapsed = TRUE]
    <2>1. row \in TargetRow /\ row.status = target[t].status /\ row.attempt = target[t].attempt
          /\ row.lease = target[t].lease /\ row.runner = target[t].runner
      BY DEF QueueInv, TypeOK, TargetRow
    <2>2. target' = [target EXCEPT ![t] = row] /\ renewals' \in [Targets -> Nat]
      BY <1>1 DEF LeaseLapses, QueueInv, TypeOK
    <2> HIDE DEF row
    <2> QED
      BY <1>1, <2>1, <2>2, FlagStep DEF LeaseLapses
  <1>2. CASE BackoffElapses(t)
    <2> DEFINE row == [target[t] EXCEPT !.due = TRUE]
    <2>1. row \in TargetRow /\ row.status = target[t].status /\ row.attempt = target[t].attempt
          /\ row.lease = target[t].lease /\ row.runner = target[t].runner
      BY DEF QueueInv, TypeOK, TargetRow
    <2>2. target' = [target EXCEPT ![t] = row] /\ renewals' \in [Targets -> Nat]
      BY <1>2 DEF BackoffElapses, QueueInv, TypeOK
    <2> HIDE DEF row
    <2> QED
      BY <1>2, <2>1, <2>2, FlagStep DEF BackoffElapses
  <1> QED BY <1>1, <1>2

(* The statements of the sweep.  The attempt an UPDATE decides on may be   *)
(* old, but never newer than the row's: it dead-letters no attempt early.  *)
LEMMA SweepStep ==
  ASSUME QueueInv, Sweep
  PROVE  QueueInv'
  <1>1. CASE SweepOrganisations
    BY <1>1 DEF SweepOrganisations, tables, QueueInv, TypeOK, ReceiptsOK, SweepOK
  <1>2. CASE SweepSelect
    <2>1. \A t \in Targets : target[t].attempt \in Nat
      BY DEF QueueInv, TypeOK, TargetRow
    <2>2. /\ sweep'.rows \subseteq Targets \X Nat
          /\ sweep' \in [phase : {"idle", "organisations", "rows"}, rows : SUBSET (Targets \X Nat)]
      BY <1>2, <2>1 DEF SweepSelect, ExpiredRows
    <2>3. \A row \in sweep'.rows : row[2] <= target[row[1]].attempt
      BY <1>2, <2>1 DEF SweepSelect, ExpiredRows
    <2> QED
      BY <1>2, <2>2, <2>3 DEF SweepSelect, tables, QueueInv, TypeOK, ReceiptsOK, SweepOK
  <1>3. CASE SweepFinalize
    <2>1. /\ TablesOK(execution', target, issued)
          /\ \A e \in Executions : execution'[e] = execution[e] \/ execution[e].status = "running"
      BY <1>3, FinalizeOK DEF SweepFinalize, QueueInv
    <2>2. \A e \in cancelling : execution'[e].status = "cancelled"
      BY <2>1 DEF QueueInv, TypeOK
    <2>3. sweep' \in [phase : {"idle", "organisations", "rows"}, rows : SUBSET (Targets \X Nat)]
          /\ sweep'.rows = {}
      BY <1>3 DEF SweepFinalize, NoSweep
    <2> QED
      BY <1>3, <2>1, <2>2, <2>3 DEF SweepFinalize, QueueInv, TypeOK, TablesOK, ReceiptsOK, SweepOK
  <1>4. ASSUME NEW row \in sweep.rows, SweepRow(row)
        PROVE  QueueInv'
    <2> DEFINE t   == row[1]
               new == ReclaimedRow(target[t], row[2])
    <2>1. /\ t \in Targets /\ row[2] \in Nat /\ row[2] <= target[t].attempt
          /\ target[t] \in TargetRow /\ issued[t] \in Nat
          /\ ExecutionOf[t] \in Executions
      BY ConstantsAssumption DEF QueueInv, TypeOK, SweepOK
    <2>2. execution[ExecutionOf[t]].status \in ExecutionStatuses
          /\ RowInv(execution[ExecutionOf[t]].status, target[t], issued[t])
      BY <2>1 DEF QueueInv, TypeOK, TablesOK, ExecutionRow
    <2>3. /\ sweep' \in [phase : {"idle", "organisations", "rows"}, rows : SUBSET (Targets \X Nat)]
          /\ sweep'.rows \subseteq sweep.rows
          /\ UNCHANGED <<execution, receipts, cancelling, issued, acked, renewals, restarts>>
      BY <1>4 DEF SweepRow, QueueInv, TypeOK
    <2>4. CASE target[t].status = "running"
      <3>1. new \in TargetRow
        BY <2>1, ReclaimedRowType
      <3>2. RowInv(execution[ExecutionOf[t]].status, new, issued[t])
        BY <2>1, <2>2, <2>4, ReclaimedRowInv
      <3>3. target' = [target EXCEPT ![t] = new]
        BY <1>4, <2>1, <2>4 DEF SweepRow, Reclaim, QueueInv, TypeOK
      <3> HIDE DEF new
      <3> QED
        BY <2>1, <2>3, <2>4, <3>1, <3>2, <3>3, OneRowStep DEF QueueInv, TypeOK
    <2>5. CASE target[t].status # "running"
      <3>1. target' = target
        BY <1>4, <2>1, <2>5 DEF SweepRow, Reclaim, QueueInv, TypeOK
      <3> QED
        BY <2>3, <3>1 DEF QueueInv, TypeOK, ReceiptsOK, SweepOK
    <2> QED BY <2>4, <2>5
  <1> QED
    BY <1>1, <1>2, <1>3, <1>4 DEF Sweep

(* A restart forgets what the process held; the tables need none of it. *)
LEMMA RestartStep ==
  ASSUME QueueInv, Restart
  PROVE  QueueInv'
  BY DEF Restart, tables, NoSweep, QueueInv, TypeOK, ReceiptsOK, SweepOK

-----------------------------------------------------------------------------
(* The theorems. *)

(* The invariant is inductive: one step per kind of request, per statement *)
(* of the sweep, and for the process and the clock.                        *)
LEMMA NextOK == QueueInv /\ [Next]_vars => QueueInv'
  <1> SUFFICES ASSUME QueueInv, [Next]_vars PROVE QueueInv'
    OBVIOUS
  <1>1. CASE Users
    BY <1>1, CreateStep, CancelStep, CancelTargetsStep DEF Users
  <1>2. CASE Polls
    BY <1>2, ClaimStep DEF Polls
  <1>3. CASE Results
    <2>1. \A t \in Targets : issued[t] \in Nat
      BY DEF QueueInv, TypeOK
    <2>2. PossibleResults \subseteq Result
      BY <2>1 DEF PossibleResults, Result
    <2> QED
      BY <1>3, <2>2, ResultStep DEF Results
  <1>4. CASE Renewals
    BY <1>4, RenewStep DEF Renewals
  <1>5. CASE Sweep
    BY <1>5, SweepStep
  <1>6. CASE Restart
    BY <1>6, RestartStep
  <1>7. CASE Clock
    BY <1>7, ClockStep DEF Clock
  <1>8. CASE UNCHANGED vars
    BY <1>8 DEF vars, QueueInv, TypeOK, ReceiptsOK, SweepOK
  <1> QED
    BY <1>1, <1>2, <1>3, <1>4, <1>5, <1>6, <1>7, <1>8 DEF Next

(* The tables, the receipts and what the sweep remembers agree in every    *)
(* reachable state.                                                        *)
THEOREM QueueInvariant == Spec => []QueueInv
  BY InitOK, NextOK, PTL DEF Spec

(* Every row, receipt and remembered row has its type. *)
THEOREM TypeCorrect == Spec => []TypeOK
  <1>1. QueueInv => TypeOK
    BY DEF QueueInv
  <1> QED
    BY <1>1, QueueInvariant, PTL

(* No command reaches its server more often than max_attempts allows,      *)
(* whatever sweep, claims, results and restarts do in between.             *)
THEOREM DispatchBound == Spec => []DispatchesAreBounded
  <1>1. QueueInv => DispatchesAreBounded
    BY DEF QueueInv, TablesOK, RowInv, DispatchesAreBounded
  <1> QED
    BY <1>1, QueueInvariant, PTL

(* handleCancelExecution never cancels what a runner was handed. *)
THEOREM CancellationIsClean == Spec => []CancelledWasNeverDispatched
  <1>1. QueueInv => CancelledWasNeverDispatched
    BY DEF QueueInv, TablesOK, RowInv, CancelledWasNeverDispatched, TargetsOf
  <1> QED
    BY <1>1, QueueInvariant, PTL

(* A target is held by at most one runner, under the newest lease. *)
THEOREM OneHolder == Spec => []LeaseIsNewest
  <1>1. ASSUME QueueInv, NEW t \in Targets, target[t].status = "running"
        PROVE  /\ execution[ExecutionOf[t]].status = "running"
               /\ target[t].runner \in Runners
               /\ target[t].lease = issued[t]
               /\ issued[t] > 0
    <2>1. RowInv(execution[ExecutionOf[t]].status, target[t], issued[t])
      BY <1>1 DEF QueueInv, TablesOK
    <2>2. execution[ExecutionOf[t]].status \in ExecutionStatuses
      BY <1>1, ConstantsAssumption DEF QueueInv, TypeOK, ExecutionRow
    <2> QED
      BY <1>1, <2>1, <2>2 DEF RowInv, ExecutionStatuses
  <1>2. QueueInv => LeaseIsNewest
    BY <1>1 DEF LeaseIsNewest
  <1> QED
    BY <1>2, QueueInvariant, PTL

(* Whoever decides an execution, its status agrees with its targets. *)
THEOREM VerdictIsRight == Spec => []VerdictMatchesTargets
  <1>1. ASSUME QueueInv, NEW e \in Executions
        PROVE  /\ execution[e].status = "succeeded" =>
                    \A t \in TargetsOf(e) : target[t].status = "succeeded"
               /\ execution[e].status = "failed" =>
                    Open(target, e) = {} /\ DeadLettered(target, e) # {}
    <2>1. \A t \in TargetsOf(e) : RowInv(execution[e].status, target[t], issued[t])
      BY <1>1 DEF QueueInv, TablesOK, TargetsOf
    <2>2. execution[e].status = "failed" => DeadLettered(target, e) # {}
      BY <1>1 DEF QueueInv, TablesOK
    <2> QED
      BY <2>1, <2>2 DEF RowInv, Open
  <1>2. QueueInv => VerdictMatchesTargets
    BY <1>1 DEF VerdictMatchesTargets
  <1> QED
    BY <1>2, QueueInvariant, PTL

(* A success with a receipt is never run again. *)
THEOREM SuccessIsKept == Spec => []RecordedSuccessIsKept
  <1>1. QueueInv => RecordedSuccessIsKept
    BY DEF QueueInv, ReceiptsOK, RecordedSuccessIsKept
  <1> QED
    BY <1>1, QueueInvariant, PTL

(* Every answer of 200 stands for the one recorded payload of its lease. *)
THEOREM AcknowledgementIsHonest == Spec => []AcknowledgedIsRecorded
  <1>1. QueueInv => AcknowledgedIsRecorded
    BY DEF QueueInv, ReceiptsOK, AcknowledgedIsRecorded
  <1> QED
    BY <1>1, QueueInvariant, PTL

(* The sweep gives up no work early, though it decides on an old attempt. *)
THEOREM NothingGivenUpEarly == Spec => []DeadLetterIsExhausted
  <1>1. QueueInv => DeadLetterIsExhausted
    BY DEF QueueInv, TablesOK, RowInv, DeadLetterIsExhausted
  <1> QED
    BY <1>1, QueueInvariant, PTL

-----------------------------------------------------------------------------
(* Steps of the queue. *)

(* The tables ex and tg that a claim works on: its reconciliation leaves   *)
(* decided executions, and targets with a live lease or none, alone.       *)
ClaimsFrom(ex, tg, r, wanted) ==
  /\ \A e \in Executions :
       \/ ex[e] = execution[e]
       \/ execution[e].status = "running" /\ ex[e].status = "failed"
  /\ \A t \in Targets :
       \/ tg[t] = target[t]
       \/ /\ target[t].status = "running" /\ target[t].lapsed
          /\ tg[t].status \in {"pending", "dead_letter"}
  /\ ex \in [Executions -> ExecutionRow]
  /\ tg \in [Targets -> TargetRow]
  /\ \/ execution' = ex /\ target' = tg /\ issued' = issued
     \/ \E t \in Claimable(ex, tg, r, wanted) :
          /\ execution' = [ex EXCEPT ![ExecutionOf[t]].status = "running"]
          /\ target' = [tg EXCEPT ![t] = LeasedRow(@, r, issued[t] + 1)]
          /\ issued' = [issued EXCEPT ![t] = @ + 1]

(* Every claim has such tables. *)
LEMMA ClaimTables ==
  ASSUME QueueInv, NEW r \in Runners, NEW wanted \in Filters, NEW due \in BOOLEAN,
         ClaimJob(r, wanted, due)
  PROVE  \E ex, tg : ClaimsFrom(ex, tg, r, wanted)
  <1> DEFINE tg == IF due THEN ReclaimAll(execution, target) ELSE target
             ex == IF due THEN FinalizeReconciled(execution, tg) ELSE execution
  <1>1. /\ \A e \in Executions :
             \/ ex[e] = execution[e]
             \/ execution[e].status = "running" /\ ex[e].status = "failed"
        /\ \A t \in Targets :
             \/ tg[t] = target[t]
             \/ /\ target[t].status = "running" /\ target[t].lapsed
                /\ tg[t].status \in {"pending", "dead_letter"}
        /\ ex \in [Executions -> ExecutionRow]
        /\ tg \in [Targets -> TargetRow]
    <2>1. CASE due
      <3>1. tg = ReclaimAll(execution, target) /\ ex = FinalizeReconciled(execution, tg)
        BY <2>1
      <3> HIDE DEF tg, ex
      <3>2. TablesOK(execution, tg, issued)
        BY <3>1, ReclaimAllOK DEF QueueInv
      <3>3. /\ TablesOK(ex, tg, issued)
            /\ \A e \in Executions :
                 \/ ex[e] = execution[e]
                 \/ execution[e].status = "running" /\ ex[e].status = "failed"
        <4>1. /\ TablesOK(FinalizeReconciled(execution, tg), tg, issued)
              /\ \A e \in Executions :
                   \/ FinalizeReconciled(execution, tg)[e] = execution[e]
                   \/ /\ execution[e].status = "running"
                      /\ FinalizeReconciled(execution, tg)[e].status = "failed"
                      /\ Open(tg, e) = {} /\ DeadLettered(tg, e) # {}
          BY <3>2, FinalizeOK
        <4> QED
          BY <3>1, <4>1
      <3>4. \A t \in Targets :
              \/ tg[t] = target[t]
              \/ /\ target[t].status = "running" /\ target[t].lapsed
                 /\ tg[t] = ReclaimedRow(target[t], target[t].attempt)
        BY <3>1 DEF ReclaimAll, ExpiredRows
      <3>5. \A t \in Targets : target[t] \in TargetRow /\ target[t].attempt \in Nat
        BY DEF QueueInv, TypeOK, TargetRow
      <3>6. \A t \in Targets :
              \/ tg[t] = target[t]
              \/ /\ target[t].status = "running" /\ target[t].lapsed
                 /\ tg[t].status \in {"pending", "dead_letter"}
        BY <3>4, <3>5, ReclaimedRowType
      <3> QED
        BY <3>3, <3>6 DEF TablesOK
    <2>2. CASE ~ due
      <3>1. tg = target /\ ex = execution
        BY <2>2
      <3> HIDE DEF tg, ex
      <3>2. execution \in [Executions -> ExecutionRow] /\ target \in [Targets -> TargetRow]
        BY DEF QueueInv, TypeOK
      <3> QED
        BY <3>1, <3>2
    <2> QED BY <2>1, <2>2
  <1>2. \/ execution' = ex /\ target' = tg /\ issued' = issued
        \/ \E t \in Claimable(ex, tg, r, wanted) :
             /\ execution' = [ex EXCEPT ![ExecutionOf[t]].status = "running"]
             /\ target' = [tg EXCEPT ![t] = LeasedRow(@, r, issued[t] + 1)]
             /\ issued' = [issued EXCEPT ![t] = @ + 1]
    BY DEF ClaimJob, Oldest
  <1> HIDE DEF tg, ex
  <1> QED
    BY <1>1, <1>2 DEF ClaimsFrom

(* No step touches an execution that is decided, nor leases its targets. *)
LEMMA TerminalStep ==
  ASSUME QueueInv, Next, NEW e \in Executions, execution[e].status \in Terminal
  PROVE  /\ execution'[e] = execution[e]
         /\ \A t \in TargetsOf(e) : issued'[t] = issued[t]
  <1>0. execution[e].status \notin {"absent", "queued", "running"}
    BY DEF Terminal
  <1>1. CASE Users
    BY <1>0, <1>1 DEF Users, CreateExecution, CancelExecution, CancelTargets, QueueInv, TypeOK
  <1>2. ASSUME NEW r \in Runners, NEW wanted \in Filters, NEW due \in BOOLEAN,
               ClaimJob(r, wanted, due)
        PROVE  /\ execution'[e] = execution[e]
               /\ \A t \in TargetsOf(e) : issued'[t] = issued[t]
    <2>0. PICK ex, tg : ClaimsFrom(ex, tg, r, wanted)
      BY <1>2, ClaimTables
    <2>1. /\ ex[e] = execution[e]
          /\ ex \in [Executions -> ExecutionRow]
          /\ \/ execution' = ex /\ issued' = issued
             \/ \E t \in Claimable(ex, tg, r, wanted) :
                  /\ execution' = [ex EXCEPT ![ExecutionOf[t]].status = "running"]
                  /\ issued' = [issued EXCEPT ![t] = @ + 1]
      BY <1>0, <2>0 DEF ClaimsFrom
    <2>2. CASE execution' = ex /\ issued' = issued
      BY <2>1, <2>2
    <2>3. ASSUME NEW t \in Claimable(ex, tg, r, wanted),
                 execution' = [ex EXCEPT ![ExecutionOf[t]].status = "running"],
                 issued' = [issued EXCEPT ![t] = @ + 1]
          PROVE  /\ execution'[e] = execution[e]
                 /\ \A u \in TargetsOf(e) : issued'[u] = issued[u]
      <3>1. ExecutionOf[t] # e
        BY <1>0, <2>1 DEF Claimable, Active
      <3> QED
        BY <2>1, <2>3, <3>1 DEF TargetsOf, QueueInv, TypeOK
    <2> QED BY <2>1, <2>2, <2>3
  <1>3. CASE Results
    BY <1>0, <1>3 DEF Results, SubmitResult, ReplayReceipt, ScheduleRetry, CompleteTarget,
                      QueueInv, TypeOK
  <1>4. CASE Renewals
    BY <1>4 DEF Renewals, RenewLease
  <1>5. CASE Sweep
    BY <1>0, <1>5 DEF Sweep, SweepOrganisations, SweepSelect, SweepRow, SweepFinalize,
                      FinalizeReconciled, Active, tables
  <1>6. CASE Restart \/ Clock
    BY <1>6 DEF Restart, Clock, LeaseLapses, BackoffElapses, tables
  <1> QED
    BY <1>1, <1>2, <1>3, <1>4, <1>5, <1>6 DEF Next, Polls

(* A requester may act on a final status: it never changes again. *)
THEOREM DecisionIsFinal == Spec => TerminalIsFinal
  <1>1. QueueInv /\ [Next]_vars =>
          [\A e \in Executions : execution[e].status \in Terminal =>
             /\ execution'[e] = execution[e]
             /\ \A t \in TargetsOf(e) : issued'[t] = issued[t]]_vars
    BY TerminalStep
  <1> QED
    BY <1>1, QueueInvariant, PTL DEF Spec, TerminalIsFinal

(* A lease is taken from its runner while it is live only by a result of   *)
(* that lease, or by a sweep that read it as lapsed before it was renewed  *)
(* or claimed again.                                                       *)
LEMMA LeaseStep ==
  ASSUME QueueInv, Next, NEW t \in Targets,
         target[t].status = "running", ~ target[t].lapsed,
         target'[t].lease # target[t].lease
  PROVE  \/ \E x \in receipts' \ receipts : x.target = t /\ x.lease = target[t].lease
         \/ \E row \in sweep.rows : row[1] = t
  <1>0. target \in [Targets -> TargetRow] /\ ExecutionOf[t] \in Executions
    BY ConstantsAssumption DEF QueueInv, TypeOK
  <1>1. CASE Users
    <2>1. ASSUME NEW e \in Executions, CreateExecution(e), ExecutionOf[t] = e
          PROVE  FALSE
      <3>1. RowInv("absent", target[t], issued[t])
        BY <2>1 DEF QueueInv, TablesOK, CreateExecution
      <3> QED
        BY <3>1 DEF RowInv
    <2>2. ASSUME NEW e \in Executions, CreateExecution(e), ExecutionOf[t] # e
          PROVE  target'[t] = target[t]
      BY <2>2 DEF CreateExecution, InsertTargets, TargetsOf
    <2>3. ASSUME NEW e \in Executions, CancelTargets(e)
          PROVE  target'[t].lease = target[t].lease
      BY <1>0, <2>3 DEF CancelTargets, CancelRows, TargetRow
    <2> QED
      BY <1>1, <2>1, <2>2, <2>3 DEF Users, CancelExecution
  <1>2. ASSUME NEW r \in Runners, NEW wanted \in Filters, NEW due \in BOOLEAN,
               ClaimJob(r, wanted, due)
        PROVE  FALSE
    <2>1. PICK ex, tg : ClaimsFrom(ex, tg, r, wanted)
      BY <1>2, ClaimTables
    <2>2. tg[t] = target[t] /\ tg \in [Targets -> TargetRow]
      BY <2>1 DEF ClaimsFrom
    <2>3. t \notin Claimable(ex, tg, r, wanted)
      BY <2>2 DEF Claimable
    <2>4. target'[t] = target[t]
      BY <2>1, <2>2, <2>3 DEF ClaimsFrom
    <2> QED
      BY <2>4
  <1>3. ASSUME NEW res \in PossibleResults, SubmitResult(res)
        PROVE  res \in receipts' \ receipts /\ res.target = t /\ res.lease = target[t].lease
    <2>1. ~ ReplayReceipt(res)
      BY DEF ReplayReceipt
    <2>2. RecordReceipt(res)
      BY <1>3, <2>1 DEF SubmitResult, ScheduleRetry, CompleteTarget
    <2>3. res \in receipts' \ receipts
      BY <2>2 DEF RecordReceipt, ReceiptsFor
    <2>4. res.target = t
      BY <1>0, <1>3, <2>1 DEF SubmitResult, ScheduleRetry, CompleteTarget
    <2> QED
      BY <2>2, <2>3, <2>4 DEF RecordReceipt, Holds
  <1>4. CASE Renewals
    BY <1>0, <1>4 DEF Renewals, RenewLease, TargetRow
  <1>5. CASE Sweep
    BY <1>0, <1>5 DEF Sweep, SweepOrganisations, SweepSelect, SweepRow, SweepFinalize, Reclaim, tables
  <1>6. CASE Restart \/ Clock
    BY <1>0, <1>6 DEF Restart, Clock, LeaseLapses, BackoffElapses, TargetRow, tables
  <1> QED
    BY <1>1, <1>2, <1>3, <1>4, <1>5, <1>6 DEF Next, Polls, Results

(* No claim, and no reconciliation inside a claim, revokes a live lease. *)
THEOREM LiveLeasesHold == Spec => LiveLeaseIsRespected
  <1>1. QueueInv /\ [Next]_vars =>
          [\A t \in Targets :
             target[t].status = "running" /\ ~ target[t].lapsed
             /\ target'[t].lease # target[t].lease =>
               \/ \E x \in receipts' \ receipts : x.target = t /\ x.lease = target[t].lease
               \/ \E row \in sweep.rows : row[1] = t]_vars
    BY LeaseStep
  <1> QED
    BY <1>1, QueueInvariant, PTL DEF Spec, LiveLeaseIsRespected
=============================================================================
