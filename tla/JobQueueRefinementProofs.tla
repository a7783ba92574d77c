---------------------- MODULE JobQueueRefinementProofs ----------------------
(***************************************************************************)
(* The execution queue implements ExecutionContract: the first state maps  *)
(* to a first state of the contract, every step to a step or a stutter.    *)
(***************************************************************************)
EXTENDS JobQueueProofs

-----------------------------------------------------------------------------
(* What a step changes of the three things the contract speaks of. *)

(* A lease is only handed out by a claim, of a target that is open. *)
LEMMA DispatchMoves ==
  ASSUME QueueInv, Next, NEW t \in Targets, issued'[t] # issued[t]
  PROVE  /\ issued'[t] = issued[t] + 1
         /\ target[t].status \in {"pending", "running"}
         /\ target'[t].status = "running"
         /\ execution[ExecutionOf[t]].status \in Active
         /\ execution'[ExecutionOf[t]].status = "running"
  <1>1. PICK r \in Runners, wanted \in Filters, due \in BOOLEAN : ClaimJob(r, wanted, due)
    BY DEF Next, Users, CreateExecution, CancelExecution, CancelTargets, Polls, Results,
           SubmitResult, Renewals, RenewLease, Sweep, SweepOrganisations, SweepSelect,
           SweepRow, SweepFinalize, Restart, Clock, LeaseLapses, BackoffElapses
  <1>2. PICK ex, tg : ClaimsFrom(ex, tg, r, wanted)
    BY <1>1, ClaimTables
  <1>3. PICK u \in Claimable(ex, tg, r, wanted) :
          /\ execution' = [ex EXCEPT ![ExecutionOf[u]].status = "running"]
          /\ target' = [tg EXCEPT ![u] = LeasedRow(@, r, issued[u] + 1)]
          /\ issued' = [issued EXCEPT ![u] = @ + 1]
    BY <1>2 DEF ClaimsFrom
  <1>4. u = t /\ issued'[t] = issued[t] + 1
    BY <1>3 DEF QueueInv, TypeOK
  <1>5. /\ ex[ExecutionOf[t]].status \in Active
        /\ tg[t].status \in {"pending", "running"}
        /\ ExecutionOf[t] \in Executions
    BY <1>3, <1>4, ConstantsAssumption DEF Claimable
  <1>6. /\ ex \in [Executions -> ExecutionRow]
        /\ tg \in [Targets -> TargetRow]
        /\ \/ ex[ExecutionOf[t]] = execution[ExecutionOf[t]]
           \/ ex[ExecutionOf[t]].status = "failed"
        /\ tg[t] = target[t] \/ target[t].status = "running"
    BY <1>2, <1>5 DEF ClaimsFrom
  <1>7. execution[ExecutionOf[t]].status \in Active /\ target[t].status \in {"pending", "running"}
    BY <1>5, <1>6 DEF Active
  <1>8. execution'[ExecutionOf[t]].status = "running"
    BY <1>3, <1>4, <1>5, <1>6 DEF ExecutionRow
  <1>9. target'[t].status = "running"
    <2>1. target'[t] = LeasedRow(tg[t], r, issued[t] + 1)
      BY <1>3, <1>4, <1>6
    <2>2. issued[t] + 1 \in Nat /\ tg[t] \in TargetRow
      BY <1>6 DEF QueueInv, TypeOK
    <2> QED
      BY <2>1, <2>2, LeasedRowType
  <1> QED
    BY <1>4, <1>7, <1>8, <1>9

(* The moves an execution can make. *)
LEMMA StatusMoves ==
  ASSUME QueueInv, Next, NEW e \in Executions,
         execution'[e].status # execution[e].status
  PROVE  \/ execution[e].status = "absent" /\ execution'[e].status = "queued"
         \/ /\ execution[e].status = "queued" /\ execution'[e].status = "running"
            /\ \E t \in TargetsOf(e) : issued'[t] # issued[t]
         \/ execution[e].status = "queued" /\ execution'[e].status = "cancelled"
         \/ execution[e].status = "running" /\ execution'[e].status \in {"succeeded", "failed"}
  <1>0. execution \in [Executions -> ExecutionRow] /\ execution[e] \in ExecutionRow
    BY DEF QueueInv, TypeOK
  <1>1. CASE Users
    <2>1. ASSUME NEW x \in Executions, CreateExecution(x)
          PROVE  execution[e].status = "absent" /\ execution'[e].status = "queued"
      BY <1>0, <2>1 DEF CreateExecution
    <2>2. ASSUME NEW x \in Executions, CancelExecution(x)
          PROVE  execution[e].status = "queued" /\ execution'[e].status = "cancelled"
      BY <1>0, <2>2 DEF CancelExecution, ExecutionRow
    <2> QED
      BY <1>1, <2>1, <2>2 DEF Users, CancelTargets
  <1>2. ASSUME NEW r \in Runners, NEW wanted \in Filters, NEW due \in BOOLEAN,
               ClaimJob(r, wanted, due)
        PROVE  \/ /\ execution[e].status = "queued" /\ execution'[e].status = "running"
                  /\ \E t \in TargetsOf(e) : issued'[t] # issued[t]
               \/ execution[e].status = "running" /\ execution'[e].status \in {"succeeded", "failed"}
    <2>1. PICK ex, tg : ClaimsFrom(ex, tg, r, wanted)
      BY <1>2, ClaimTables
    <2>2. /\ \/ ex[e] = execution[e]
             \/ execution[e].status = "running" /\ ex[e].status = "failed"
          /\ ex \in [Executions -> ExecutionRow]
      BY <2>1 DEF ClaimsFrom
    <2>3. CASE execution' = ex
      BY <2>2, <2>3
    <2>4. ASSUME NEW t \in Claimable(ex, tg, r, wanted),
                 execution' = [ex EXCEPT ![ExecutionOf[t]].status = "running"],
                 issued' = [issued EXCEPT ![t] = @ + 1]
          PROVE  \/ /\ execution[e].status = "queued" /\ execution'[e].status = "running"
                    /\ \E u \in TargetsOf(e) : issued'[u] # issued[u]
                 \/ execution[e].status = "running" /\ execution'[e].status = "failed"
      <3>1. t \in Targets /\ ex[ExecutionOf[t]].status \in Active
        BY ConstantsAssumption DEF Claimable
      <3>2. CASE ExecutionOf[t] # e
        BY <2>2, <2>4, <3>2
      <3>3. CASE ExecutionOf[t] = e
        <4>1. execution'[e].status = "running"
          BY <2>2, <2>4, <3>3 DEF ExecutionRow
        <4>2. execution[e].status = "queued"
          BY <2>2, <3>1, <3>3, <4>1 DEF Active
        <4>3. issued'[t] # issued[t]
          BY <2>4, <3>1 DEF QueueInv, TypeOK
        <4> QED
          BY <3>1, <3>3, <4>1, <4>2, <4>3 DEF TargetsOf
      <3> QED BY <3>2, <3>3
    <2> QED BY <2>1, <2>3, <2>4 DEF ClaimsFrom
  <1>3. CASE Results
    <2>1. PICK res \in PossibleResults : CompleteTarget(res)
      BY <1>3 DEF Results, SubmitResult, ReplayReceipt, ScheduleRetry
    <2> DEFINE tg == [target EXCEPT ![res.target] = FinishedRow(@, res.outcome)]
               x  == ExecutionOf[res.target]
    <2>2. /\ execution[x].status = "running"
          /\ execution' = [execution EXCEPT ![x].status = Verdict(tg, x)]
      BY <2>1 DEF CompleteTarget
    <2>3. e = x
      BY <1>0, <2>2
    <2>4. execution'[e].status \in {"succeeded", "failed"}
      BY <1>0, <2>2, <2>3 DEF ExecutionRow, Verdict
    <2> QED
      BY <2>2, <2>3, <2>4
  <1>4. CASE Sweep
    <2>1. SweepFinalize
      BY <1>4 DEF Sweep, SweepOrganisations, SweepSelect, SweepRow, tables
    <2>2. execution[e].status = "running" /\ execution'[e].status = "failed"
      <3>1. \/ FinalizeReconciled(execution, target)[e] = execution[e]
            \/ /\ execution[e].status = "running"
               /\ FinalizeReconciled(execution, target)[e].status = "failed"
               /\ Open(target, e) = {} /\ DeadLettered(target, e) # {}
        <4>1. TablesOK(execution, target, issued)
          BY DEF QueueInv
        <4> QED
          BY <4>1, FinalizeOK, ZenonT(40)
      <3>2. execution' = FinalizeReconciled(execution, target)
        BY <2>1 DEF SweepFinalize
      <3> QED
        BY <3>1, <3>2
    <2> QED
      BY <2>2
  <1>5. CASE Renewals \/ Restart \/ Clock
    BY <1>5 DEF Renewals, RenewLease, Restart, Clock, LeaseLapses, BackoffElapses, tables
  <1> QED
    BY <1>1, <1>2, <1>3, <1>4, <1>5 DEF Next, Polls

(* The moves a target can make between the kinds of work. *)
LEMMA WorkMoves ==
  ASSUME QueueInv, Next, NEW t \in Targets,
         WorkOfStatus(target'[t].status) # WorkOfStatus(target[t].status)
  PROVE  \/ target[t].status = "absent" /\ target'[t].status = "pending"
         \/ target[t].status = "running" /\ target'[t].status \in {"succeeded", "dead_letter"}
  <1>0. /\ target \in [Targets -> TargetRow] /\ target[t] \in TargetRow
        /\ ExecutionOf[t] \in Executions
        /\ RowInv(execution[ExecutionOf[t]].status, target[t], issued[t])
        /\ target[t].attempt \in Nat
    BY ConstantsAssumption DEF QueueInv, TypeOK, TablesOK, TargetRow
  <1>1. CASE Users
    <2>1. ASSUME NEW e \in Executions, CreateExecution(e)
          PROVE  target[t].status = "absent" /\ target'[t].status = "pending"
      <3>1. ExecutionOf[t] = e /\ target'[t] = NewTargetRow
        BY <2>1 DEF CreateExecution, InsertTargets, TargetsOf
      <3> QED
        BY <1>0, <2>1, <3>1 DEF CreateExecution, RowInv, NewTargetRow
    <2>2. ASSUME NEW e \in Executions, CancelTargets(e)
          PROVE  FALSE
      <3>1. ExecutionOf[t] = e /\ target'[t].status = "cancelled"
        BY <1>0, <2>2 DEF CancelTargets, CancelRows, TargetsOf, TargetRow
      <3>2. target[t].status \in {"pending", "cancelled"}
        BY <1>0, <2>2, <3>1 DEF CancelTargets, QueueInv, RowInv
      <3> QED
        BY <3>1, <3>2 DEF WorkOfStatus
    <2> QED
      BY <1>1, <2>1, <2>2 DEF Users, CancelExecution
  <1>2. ASSUME NEW r \in Runners, NEW wanted \in Filters, NEW due \in BOOLEAN,
               ClaimJob(r, wanted, due)
        PROVE  target[t].status = "running" /\ target'[t].status = "dead_letter"
    <2>1. PICK ex, tg : ClaimsFrom(ex, tg, r, wanted)
      BY <1>2, ClaimTables
    <2>2. /\ \/ tg[t] = target[t]
             \/ target[t].status = "running" /\ tg[t].status \in {"pending", "dead_letter"}
          /\ tg \in [Targets -> TargetRow]
      BY <2>1 DEF ClaimsFrom
    <2>3. CASE target' = tg
      BY <2>2, <2>3 DEF WorkOfStatus
    <2>4. ASSUME NEW u \in Claimable(ex, tg, r, wanted),
                 target' = [tg EXCEPT ![u] = LeasedRow(@, r, issued[u] + 1)]
          PROVE  target[t].status = "running" /\ target'[t].status = "dead_letter"
      <3>1. u \in Targets /\ tg[u].status \in {"pending", "running"}
        BY ConstantsAssumption DEF Claimable
      <3>2. CASE u # t
        BY <2>2, <2>4, <3>2 DEF WorkOfStatus
      <3>3. CASE u = t
        <4>1. target'[t] = LeasedRow(tg[t], r, issued[t] + 1)
          BY <2>2, <2>4, <3>3
        <4>2. issued[t] + 1 \in Nat /\ tg[t] \in TargetRow
          BY <2>2 DEF QueueInv, TypeOK
        <4>3. target'[t].status = "running"
          BY <4>1, <4>2, LeasedRowType
        <4> QED
          BY <2>2, <3>1, <3>3, <4>3 DEF WorkOfStatus
      <3> QED BY <3>2, <3>3
    <2> QED BY <2>1, <2>3, <2>4 DEF ClaimsFrom
  <1>3. CASE Results
    <2>1. PICK res \in PossibleResults : ScheduleRetry(res) \/ CompleteTarget(res)
      BY <1>3 DEF Results, SubmitResult, ReplayReceipt
    <2>2. /\ target[res.target].status = "running"
          /\ \/ target' = [target EXCEPT ![res.target] = RetriedRow(@)]
             \/ target' = [target EXCEPT ![res.target] = FinishedRow(@, res.outcome)]
      BY <2>1 DEF ScheduleRetry, CompleteTarget, RecordReceipt, Holds
    <2>3. res.target = t
      BY <1>0, <2>2
    <2>4. target'[t] = RetriedRow(target[t]) \/ target'[t] = FinishedRow(target[t], res.outcome)
      BY <1>0, <2>2, <2>3
    <2>5. target'[t].status \in {"pending", "succeeded", "dead_letter"}
      BY <1>0, <2>4 DEF RetriedRow, FinishedRow, TargetRow
    <2> QED
      BY <2>2, <2>3, <2>5 DEF WorkOfStatus
  <1>4. CASE Sweep
    <2>1. PICK row \in sweep.rows : SweepRow(row)
      BY <1>4 DEF Sweep, SweepOrganisations, SweepSelect, SweepFinalize, tables
    <2>2. target' = Reclaim(target, row[1], row[2]) /\ row[2] \in Nat
      BY <2>1 DEF SweepRow, QueueInv, TypeOK
    <2>3. target[t].status = "running" /\ target'[t] = ReclaimedRow(target[t], row[2])
      BY <1>0, <2>2 DEF Reclaim
    <2>4. target'[t].status \in {"pending", "dead_letter"}
      BY <1>0, <2>2, <2>3, ReclaimedRowType
    <2> QED
      BY <2>3, <2>4 DEF WorkOfStatus
  <1>5. ASSUME NEW r \in Runners, NEW u \in Targets, RenewLease(r, u) PROVE FALSE
    <2>1. target'[t].status = target[t].status
      BY <1>0, <1>5 DEF RenewLease, TargetRow
    <2> QED
      BY <2>1 DEF WorkOfStatus
  <1>6. ASSUME NEW u \in Targets, LeaseLapses(u) \/ BackoffElapses(u) PROVE FALSE
    <2>1. target'[t].status = target[t].status
      BY <1>0, <1>6 DEF LeaseLapses, BackoffElapses, TargetRow
    <2> QED
      BY <2>1 DEF WorkOfStatus
  <1> QED
    BY <1>1, <1>2, <1>3, <1>4, <1>5, <1>6 DEF Next, Polls, Renewals, Clock, Restart, tables

-----------------------------------------------------------------------------
(* The same, in the words of the contract. *)

(* The row invariant of every target of e, in whichever state. *)
LEMMA RowsOf ==
  ASSUME QueueInv, NEW e \in Executions
  PROVE  /\ \A t \in Contract!WorkOf(e) :
              /\ RowInv(execution[e].status, target[t], issued[t])
              /\ issued[t] \in Nat
         /\ Contract!WorkOf(e) = TargetsOf(e)
         /\ execution[e].status \in ExecutionStatuses
  BY DEF QueueInv, TypeOK, TablesOK, Contract!WorkOf, TargetsOf, ExecutionRow

(* Every first state of the queue is one of the contract. *)
LEMMA ContractInit == Init => Contract!Init
  BY DEF Init, Contract!Init, WorkOfStatus, AbsentTargetRow, NewTargetRow

(* An execution moves as the contract allows. *)
LEMMA ContractStatus ==
  ASSUME QueueInv, QueueInv', Next, NEW e \in Executions,
         execution'[e].status # execution[e].status
  PROVE  Contract!Request(e) \/ Contract!Start(e) \/ Contract!Cancel(e) \/ Contract!Decide(e)
  <1>0. \A x \in Executions : [y \in Executions |-> execution[y].status][x] = execution[x].status
    OBVIOUS
  <1>1. /\ \A t \in Contract!WorkOf(e) :
             /\ t \in Targets /\ ExecutionOf[t] = e
             /\ RowInv(execution[e].status, target[t], issued[t])
             /\ RowInv(execution'[e].status, target'[t], issued'[t])
             /\ issued[t] \in Nat
        /\ Contract!WorkOf(e) = TargetsOf(e)
    <2>1. \A t \in Targets : RowInv(execution'[ExecutionOf[t]].status, target'[t], issued'[t])
      BY DEF QueueInv, TablesOK, RowInv
    <2> QED
      BY <2>1, RowsOf DEF Contract!WorkOf
  <1>2. CASE execution[e].status = "absent" /\ execution'[e].status = "queued"
    <2>1. \A t \in Contract!WorkOf(e) : target'[t].status = "pending"
      BY <1>1, <1>2 DEF RowInv
    <2> QED
      BY <1>1, <1>2, <2>1 DEF Contract!Request, WorkOfStatus
  <1>3. CASE /\ execution[e].status = "queued" /\ execution'[e].status = "running"
             /\ \E t \in TargetsOf(e) : issued'[t] # issued[t]
    <2>1. PICK t \in Contract!WorkOf(e) : issued'[t] # issued[t]
      BY <1>1, <1>3
    <2>2. issued[t] = 0 /\ issued'[t] = issued[t] + 1
      BY <1>1, <1>3, <2>1, DispatchMoves DEF RowInv
    <2> QED
      BY <1>3, <2>1, <2>2 DEF Contract!Start
  <1>4. CASE execution[e].status = "queued" /\ execution'[e].status = "cancelled"
    BY <1>1, <1>4 DEF Contract!Cancel, RowInv
  <1>5. CASE execution[e].status = "running" /\ execution'[e].status = "succeeded"
    <2>1. \A t \in Contract!WorkOf(e) : target'[t].status = "succeeded"
      BY <1>1, <1>5 DEF RowInv
    <2> QED
      BY <1>1, <1>5, <2>1 DEF Contract!Decide, WorkOfStatus
  <1>6. CASE execution[e].status = "running" /\ execution'[e].status = "failed"
    <2>1. \A t \in Contract!WorkOf(e) : target'[t].status \in {"succeeded", "dead_letter"}
      BY <1>1, <1>6 DEF RowInv
    <2>2. PICK t \in Contract!WorkOf(e) : target'[t].status = "dead_letter"
      BY <1>1, <1>6 DEF QueueInv, TablesOK, DeadLettered
    <2> QED
      BY <1>1, <1>6, <2>1, <2>2 DEF Contract!Decide, WorkOfStatus
  <1> QED
    BY <1>2, <1>3, <1>4, <1>5, <1>6, StatusMoves

(* Work is settled once, while its execution runs and after a dispatch. *)
LEMMA ContractWork ==
  ASSUME QueueInv, Next, NEW t \in Targets,
         WorkOfStatus(target'[t].status) # WorkOfStatus(target[t].status)
  PROVE  \/ Contract!Settle(t)
         \/ /\ execution[ExecutionOf[t]].status = "absent"
            /\ WorkOfStatus(target[t].status) = "none"
            /\ WorkOfStatus(target'[t].status) = "open"
  <1>1. /\ RowInv(execution[ExecutionOf[t]].status, target[t], issued[t])
        /\ execution[ExecutionOf[t]].status \in ExecutionStatuses
        /\ ExecutionOf[t] \in Executions
    BY ConstantsAssumption DEF QueueInv, TypeOK, TablesOK, ExecutionRow
  <1>2. CASE target[t].status = "absent" /\ target'[t].status = "pending"
    BY <1>1, <1>2 DEF RowInv, ExecutionStatuses, WorkOfStatus
  <1>3. CASE target[t].status = "running" /\ target'[t].status \in {"succeeded", "dead_letter"}
    <2>1. execution[ExecutionOf[t]].status = "running" /\ issued[t] > 0
      BY <1>1, <1>3 DEF RowInv, ExecutionStatuses
    <2> QED
      BY <1>1, <1>3, <2>1 DEF Contract!Settle, WorkOfStatus
  <1> QED
    BY <1>2, <1>3, WorkMoves

(* A dispatch is of open work, within its budget, and starts or finds its  *)
(* execution running. *)
LEMMA ContractDispatch ==
  ASSUME QueueInv, QueueInv', Next, NEW t \in Targets, issued'[t] # issued[t]
  PROVE  Contract!Dispatch(t)
  <1>1. /\ issued'[t] = issued[t] + 1
        /\ target[t].status \in {"pending", "running"} /\ target'[t].status = "running"
        /\ execution'[ExecutionOf[t]].status = "running"
    BY DispatchMoves
  <1>2. issued'[t] <= MaxAttempts /\ issued[t] \in Nat /\ ExecutionOf[t] \in Executions
    BY ConstantsAssumption DEF QueueInv, TypeOK, TablesOK, RowInv
  <1>3. issued[t] < MaxAttempts
    BY <1>1, <1>2, ConstantsAssumption
  <1> QED
    BY <1>1, <1>2, <1>3 DEF Contract!Dispatch, WorkOfStatus

(* What leases, retries, receipts, sweeps and restarts add up to is the    *)
(* contract: dispatched while open and within the budget, settled once,    *)
(* decided once and from all of the work, cancelled only if undispatched.  *)
THEOREM Refinement == Spec => ImplementsContract
  <1>1. ASSUME QueueInv, QueueInv', Next
        PROVE  Contract!Next
    <2>1. \A e \in Executions :
            \/ execution'[e].status = execution[e].status
            \/ Contract!Request(e) \/ Contract!Start(e) \/ Contract!Cancel(e) \/ Contract!Decide(e)
      BY <1>1, ContractStatus
    <2>2. \A t \in Targets :
            \/ WorkOfStatus(target'[t].status) = WorkOfStatus(target[t].status)
            \/ Contract!Settle(t)
            \/ /\ execution[ExecutionOf[t]].status = "absent"
               /\ WorkOfStatus(target[t].status) = "none"
               /\ WorkOfStatus(target'[t].status) = "open"
      BY <1>1, ContractWork
    <2>3. \A t \in Targets : issued'[t] = issued[t] \/ Contract!Dispatch(t)
      BY <1>1, ContractDispatch
    <2>4. \A t \in Targets : ExecutionOf[t] \in Executions
      BY ConstantsAssumption
    <2> QED
      BY <2>1, <2>2, <2>3, <2>4 DEF Contract!Next
  <1>2. QueueInv /\ QueueInv' /\ [Next]_vars => [Contract!Next]_(Contract!vars)
    <2>1. CASE Next
      BY <1>1, <2>1
    <2>2. CASE UNCHANGED vars
      BY <2>2 DEF vars, Contract!vars
    <2> QED BY <2>1, <2>2
  <1> QED
    BY ContractInit, <1>2, QueueInvariant, PTL DEF Spec, ImplementsContract, Contract!Spec
=============================================================================
