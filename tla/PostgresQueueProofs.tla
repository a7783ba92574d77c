------------------------- MODULE PostgresQueueProofs -------------------------
(***************************************************************************)
(* That PgInv is inductive, and what follows from it.  A step is of one of *)
(* two kinds: it changes only what one transaction has in hand             *)
(* (TransactionMoves), or it changes the tables and ends that transaction  *)
(* (TablesMove).                                                           *)
(***************************************************************************)
EXTENDS PostgresQueueInvariant, JobQueueProofs

(***************************************************************************)
(* What a transaction has written is rows by id.                           *)
(***************************************************************************)
LEMMA Written_Rows ==
  ASSUME NEW k \in Transaction
  PROVE  /\ k.rows \in SomeTargets /\ DOMAIN k.rows \subseteq Targets
         /\ k.rows \in [DOMAIN k.rows -> TargetRow]
         /\ k.execs \in SomeExecutions /\ DOMAIN k.execs \subseteq Executions
         /\ k.execs \in [DOMAIN k.execs -> ExecutionRow]
<1>1. k.rows \in SomeTargets /\ k.execs \in SomeExecutions
  BY DEF Transaction
<1>2. PICK S \in SUBSET Targets : k.rows \in [S -> TargetRow]
  BY <1>1 DEF SomeTargets
<1>3. PICK E \in SUBSET Executions : k.execs \in [E -> ExecutionRow]
  BY <1>1 DEF SomeExecutions
<1> QED
  BY <1>1, <1>2, <1>3

\* A write of a transaction adds one row to those it has written and keeps the others.
LEMMA WriteAddsARow ==
  ASSUME NEW k \in Transaction, NEW t \in Targets, NEW row \in TargetRow
  PROVE  /\ Write(k.rows, t, row) \in SomeTargets
         /\ DOMAIN Write(k.rows, t, row) = DOMAIN k.rows \cup {t}
         /\ Write(k.rows, t, row)[t] = row
         /\ \A u \in DOMAIN k.rows : u # t => Write(k.rows, t, row)[u] = k.rows[u]
<1>1. /\ DOMAIN k.rows \cup {t} \in SUBSET Targets
      /\ Write(k.rows, t, row) \in [DOMAIN k.rows \cup {t} -> TargetRow]
  BY Written_Rows DEF Write
<1>2. Write(k.rows, t, row) \in SomeTargets
  BY <1>1 DEF SomeTargets
<1> QED
  BY <1>1, <1>2 DEF Write

\* A connection outside a transaction has written nothing.
LEMMA IdleHoldsNothing ==
  /\ Idle \in Transaction
  /\ DOMAIN Idle.rows = {} /\ DOMAIN Idle.execs = {} /\ Idle.at = "idle"
  /\ Consistent(Idle)
<1>1. <<>> \in [{} -> TargetRow] /\ <<>> \in [{} -> ExecutionRow] /\ DOMAIN <<>> = {}
  OBVIOUS
<1>2. {} \in SUBSET Targets /\ {} \in SUBSET Executions
  OBVIOUS
<1>3. <<>> \in SomeTargets /\ <<>> \in SomeExecutions
  BY <1>1, <1>2 DEF SomeTargets, SomeExecutions
<1>4. Idle \in Transaction
  BY <1>3 DEF Idle, Transaction
<1>5. DOMAIN Idle.rows = {} /\ DOMAIN Idle.execs = {} /\ Idle.at = "idle"
  BY <1>1 DEF Idle
<1> QED
  BY <1>4, <1>5 DEF Consistent, RowsOK, ExecsOK, JobOK, ResultOK, ExpiredOK

(***************************************************************************)
(* A step inside one transaction.  What it has locked must be free, and it *)
(* must agree with the tables as they are.                                 *)
(***************************************************************************)
LEMMA TransactionMoves ==
  ASSUME PgInv, NEW c \in Connections, NEW k \in Transaction,
         conn' = [conn EXCEPT ![c] = k], UNCHANGED vars,
         \A t \in DOMAIN k.rows : TargetFree(c, t),
         \A e \in DOMAIN k.execs : ExecutionFree(c, e),
         Consistent(k)
  PROVE  PgInv'
<1>1. /\ conn' \in [Connections -> Transaction]
      /\ conn'[c] = k
      /\ \A d \in Connections : d # c => conn'[d] = conn[d]
  BY DEF PgInv, PgTyped
<1>2. PgTyped'
  BY <1>1 DEF PgInv, PgTyped, TypeOK, vars
<1>3. PgTablesOK' /\ PgReceiptsOK'
  BY DEF PgInv, PgTablesOK, PgReceiptsOK, vars, DeadLettered
<1>4. /\ acked' \subseteq receipts'
      /\ \A row \in sweep'.rows : row[2] <= target'[row[1]].attempt
      /\ \A e \in cancelling' : execution'[e].status = "cancelled"
  BY DEF PgInv, vars
<1>5. LocksOK'
  <2> SUFFICES ASSUME NEW a \in Connections, NEW b \in Connections, a # b
               PROVE  /\ DOMAIN conn'[a].rows \cap DOMAIN conn'[b].rows = {}
                      /\ DOMAIN conn'[a].execs \cap DOMAIN conn'[b].execs = {}
    BY DEF LocksOK
  <2>1. CASE a = c
    BY <1>1, <2>1 DEF TargetFree, ExecutionFree
  <2>2. CASE b = c
    BY <1>1, <2>2 DEF TargetFree, ExecutionFree
  <2>3. CASE a # c /\ b # c
    BY <1>1, <2>3 DEF PgInv, LocksOK
  <2> QED
    BY <2>1, <2>2, <2>3
<1>6. ASSUME NEW j \in Transaction, Consistent(j) PROVE Consistent(j)'
  BY <1>6 DEF Consistent, RowsOK, ExecsOK, JobOK, ResultOK, ExpiredOK, Taken, Ended, Written, Seen,
              vars
<1>7. \A d \in Connections : Consistent(conn[d])'
  <2> SUFFICES ASSUME NEW d \in Connections PROVE Consistent(conn[d])'
    OBVIOUS
  <2>1. conn'[d] \in Transaction /\ Consistent(conn'[d])
    BY <1>1 DEF PgInv
  <2> QED
    BY <1>1, <1>6, <2>1 DEF Consistent, RowsOK, ExecsOK, JobOK, ResultOK, ExpiredOK, Taken, Ended,
        Written, Seen, vars
<1> QED
  BY <1>2, <1>3, <1>4, <1>5, <1>7 DEF PgInv

(***************************************************************************)
(* What the invariant says of one transaction.                             *)
(***************************************************************************)
LEMMA InHand ==
  ASSUME PgInv, NEW c \in Connections
  PROVE  /\ conn[c] \in Transaction
         /\ conn \in [Connections -> Transaction]
         /\ Consistent(conn[c])
         /\ \A t \in DOMAIN conn[c].rows : TargetFree(c, t)
         /\ \A e \in DOMAIN conn[c].execs : ExecutionFree(c, e)
         /\ DOMAIN conn[c].rows \subseteq Targets
         /\ DOMAIN conn[c].execs \subseteq Executions
         /\ \A t \in Targets : Seen(conn[c].rows, t) = TargetsSeen(c)[t]
         /\ \A t \in Targets : TargetsSeen(c)[t] \in TargetRow
         /\ \A e \in Executions : ExecutionsSeen(c)[e] \in ExecutionRow
<1>1. conn[c] \in Transaction /\ conn \in [Connections -> Transaction] /\ Consistent(conn[c])
  BY DEF PgInv, PgTyped
<1>2. /\ \A t \in DOMAIN conn[c].rows : TargetFree(c, t)
      /\ \A e \in DOMAIN conn[c].execs : ExecutionFree(c, e)
  BY DEF PgInv, LocksOK, TargetFree, ExecutionFree
<1> QED
  BY <1>1, <1>2, Written_Rows DEF Seen, TargetsSeen, ExecutionsSeen, PgInv, PgTyped, TypeOK

\* A transaction that ends without a commit leaves the tables as they were.
LEMMA RollsBack ==
  ASSUME PgInv, NEW c \in Connections, Rollback(c), UNCHANGED vars
  PROVE  PgInv'
BY IdleHoldsNothing, TransactionMoves DEF Rollback

\* A claim first reads which rows have lapsed (reconcileExpiredLeases, queue.go:11).
LEMMA BeginsReconciling ==
  ASSUME PgInv, NEW c \in Connections, BeginReconcile(c)
  PROVE  PgInv'
<1> DEFINE expired == {<<t, target[t].attempt>> : t \in ExpiredRows(execution, target)}
           k == [at |-> "reconcile", rows |-> <<>>, execs |-> <<>>, expired |-> expired]
<1>1. conn' = [conn EXCEPT ![c] = k] /\ UNCHANGED vars
  BY DEF BeginReconcile
<1>2. expired \subseteq Targets \X Nat
  BY DEF ExpiredRows, PgInv, PgTyped, TypeOK, TargetRow
<1>3. <<>> \in SomeTargets /\ <<>> \in SomeExecutions /\ DOMAIN <<>> = {}
  BY IdleHoldsNothing, Written_Rows DEF Idle
<1>4. k \in Transaction
  BY <1>2, <1>3 DEF Transaction
<1>5. \A row \in expired : row[2] <= target[row[1]].attempt
  BY DEF ExpiredRows, PgInv, PgTyped, TypeOK, TargetRow
<1>6. Consistent(k)
  BY <1>3, <1>5 DEF Consistent, RowsOK, ExecsOK, JobOK, ResultOK, ExpiredOK
<1>7. DOMAIN k.rows = {} /\ DOMAIN k.execs = {}
  BY <1>3
<1> HIDE DEF k
<1> QED
  BY <1>1, <1>4, <1>6, <1>7, TransactionMoves

\* Of the rows read, one that is free and has still lapsed is put back or given up.
LEMMA ReclaimsARow ==
  ASSUME PgInv, NEW c \in Connections, ReconcileRow(c)
  PROVE  PgInv'
<1>0. /\ conn[c].at = "reconcile" /\ UNCHANGED vars
      /\ conn[c] \in [at : {"reconcile"}, expired : SUBSET (Targets \X Nat),
                      rows : SomeTargets, execs : SomeExecutions]
      /\ Consistent(conn[c])
      /\ ConstantsAssumption
  BY InHand, ConstantsAssumption DEF ReconcileRow, Transaction
<1>1. PICK row \in conn[c].expired :
        /\ TargetFree(c, row[1])
        /\ conn' = [conn EXCEPT
             ![c].expired = @ \ {row},
             ![c].rows = IF TargetsSeen(c)[row[1]].status = "running"
                           THEN Write(@, row[1], Reclaim(TargetsSeen(c), row[1], row[2])[row[1]])
                           ELSE @]
  BY DEF ReconcileRow
<1> DEFINE t == row[1]
           seen == row[2]
           rest == conn[c].expired \ {row}
<1>2. t \in Targets /\ seen \in Nat /\ seen <= target[t].attempt
  BY <1>0 DEF Consistent, ExpiredOK
<1>3. CASE TargetsSeen(c)[t].status # "running"
  <2> DEFINE k == [conn[c] EXCEPT !.expired = rest]
  <2>1. /\ k \in Transaction /\ k.at = "reconcile" /\ k.expired = rest
        /\ k.rows = conn[c].rows /\ k.execs = conn[c].execs
    BY <1>0 DEF Transaction
  <2>2. conn' = [conn EXCEPT ![c] = k]
    BY <1>0, <1>1, <1>3
  <2> HIDE DEF k
  <2>3. Consistent(k)
    BY <1>0, <2>1 DEF Consistent, RowsOK, ExecsOK, JobOK, ResultOK, ExpiredOK, Taken, Ended
  <2> QED
    BY <1>0, <2>1, <2>2, <2>3, InHand, TransactionMoves
<1>4. CASE TargetsSeen(c)[t].status = "running"
  <2> DEFINE new == ReclaimedRow(target[t], seen)
  <2>1. t \notin DOMAIN conn[c].rows
    BY <1>0, <1>4, <1>2 DEF Consistent, RowsOK, Taken, Ended, TargetsSeen, Settled
  <2>2. target[t].status = "running" /\ target[t] \in TargetRow
    BY <1>2, <1>4, <2>1 DEF TargetsSeen, PgInv, PgTyped, TypeOK
  <2>3. target[t].attempt <= MaxAttempts /\ target[t].attempt \in Nat /\ MaxAttempts \in Nat
    BY <1>0, <1>2, <2>2 DEF PgInv, PgTablesOK, PgRowInv, TargetRow, ConstantsAssumption
  <2>4. /\ new \in TargetRow
        /\ new.status \in {"pending"} \cup Settled
        /\ new.attempt = target[t].attempt
        /\ new.status = "pending" => ~ new.due
        /\ new.status = "dead_letter" => target[t].attempt = MaxAttempts
    <3>1. CASE seen >= MaxAttempts
      <4>1. target[t].attempt = MaxAttempts
        BY <1>2, <2>3, <3>1
      <4> QED
        BY <2>2, <3>1, <4>1 DEF ReclaimedRow, TargetRow, TargetStatuses, NoLease, Settled
    <3>2. CASE ~ seen >= MaxAttempts
      BY <1>2, <2>2, <2>3, <3>2 DEF ReclaimedRow, TargetRow, TargetStatuses, NoLease, Settled
    <3> QED
      BY <3>1, <3>2
  <2>5. Reclaim(TargetsSeen(c), t, seen)[t] = new
    BY <1>2, <1>4, <2>1 DEF Reclaim, TargetsSeen
  <2> HIDE DEF new
  <2>6. /\ Write(conn[c].rows, t, new) \in SomeTargets
        /\ DOMAIN Write(conn[c].rows, t, new) = DOMAIN conn[c].rows \cup {t}
        /\ Write(conn[c].rows, t, new)[t] = new
        /\ \A u \in DOMAIN conn[c].rows : u # t => Write(conn[c].rows, t, new)[u] = conn[c].rows[u]
    <3>1. conn[c] \in Transaction
      BY InHand
    <3> QED
      BY <1>2, <2>4, <3>1, WriteAddsARow, ZenonT(40)
  <2> DEFINE k == [conn[c] EXCEPT !.expired = rest, !.rows = Write(conn[c].rows, t, new)]
  <2>7. conn' = [conn EXCEPT ![c] = k]
    BY <1>0, <1>1, <1>4, <2>5
  <2>8. /\ k \in Transaction /\ k.at = "reconcile" /\ k.expired = rest
        /\ k.rows = Write(conn[c].rows, t, new) /\ k.execs = conn[c].execs
    BY <1>0, <2>6 DEF Transaction
  <2> HIDE DEF k
  <2>9. RowsOK(k)
    <3> SUFFICES ASSUME NEW u \in DOMAIN k.rows PROVE Ended(k, u)
      BY DEF RowsOK
    <3>1. CASE u = t
      BY <2>2, <2>4, <2>6, <2>8, <3>1 DEF Ended
    <3>2. CASE u # t
      BY <1>0, <2>6, <2>8, <3>2 DEF Consistent, RowsOK, Taken, Ended
    <3> QED
      BY <3>1, <3>2
  <2>10. ExecsOK(k)
    <3>1. \A u \in Targets : u # t => Seen(k.rows, u) = Seen(conn[c].rows, u)
      BY <2>6, <2>8 DEF Seen
    <3>2. Seen(conn[c].rows, t).status = "running"
      BY <1>2, <1>4, InHand
    <3> QED
      BY <1>0, <2>8, <3>1, <3>2 DEF Consistent, ExecsOK, TargetsOf, Settled
  <2>11. JobOK(k) /\ ResultOK(k) /\ ExpiredOK(k)
    BY <1>0, <2>8 DEF JobOK, ResultOK, ExpiredOK, Consistent
  <2>12. \A u \in DOMAIN k.rows : TargetFree(c, u)
    BY <1>1, <2>6, <2>8, InHand
  <2> QED
    BY <1>0, <2>7, <2>8, <2>9, <2>10, <2>11, <2>12, InHand, TransactionMoves DEF Consistent
<1> QED
  BY <1>3, <1>4

\* The executions of the reclaimed rows are finished where no target is open.
LEMMA FinalizesItsRows ==
  ASSUME PgInv, NEW c \in Connections, ReconcileFinalize(c)
  PROVE  PgInv'
<1> DEFINE old == ExecutionsSeen(c)
           new == FinalizeReconciled(old, TargetsSeen(c))
           changed == {e \in Executions : new[e] # old[e]}
           execs == [e \in changed |-> new[e]]
           k == [at |-> "select", rows |-> conn[c].rows, execs |-> execs]
<1>0. /\ conn[c] \in Transaction /\ Consistent(conn[c]) /\ UNCHANGED vars
      /\ conn[c].at = "reconcile"
      /\ conn' = [conn EXCEPT ![c] = k]
      /\ \A e \in changed : ExecutionFree(c, e)
  BY InHand DEF ReconcileFinalize
<1>1. ASSUME NEW e \in changed
      PROVE  /\ e \notin DOMAIN conn[c].execs
             /\ execution[e].status \in Active
             /\ new[e] = [execution[e] EXCEPT !.status = "failed"]
             /\ Open(TargetsSeen(c), e) = {} /\ DeadLettered(TargetsSeen(c), e) # {}
  BY <1>0 DEF FinalizeReconciled, ExecutionsSeen, Consistent, ExecsOK, Active
<1>2. execs \in SomeExecutions
  <2>1. \A e \in changed : new[e] \in ExecutionRow
    BY <1>1 DEF PgInv, PgTyped, TypeOK, ExecutionRow, ExecutionStatuses
  <2>2. execs \in [changed -> ExecutionRow] /\ changed \in SUBSET Executions
    BY <2>1
  <2> QED
    BY <2>2 DEF SomeExecutions
<1>3. k \in Transaction
  BY <1>0, <1>2, Written_Rows DEF Transaction
<1>4. ExecsOK(k)
  <2> SUFFICES ASSUME NEW e \in changed
               PROVE  /\ execs[e].status = "failed"
                      /\ execution[e].status \in Active
                      /\ \A t \in TargetsOf(e) : Seen(conn[c].rows, t).status \in Settled
                      /\ \E t \in TargetsOf(e) : Seen(conn[c].rows, t).status = "dead_letter"
    BY DEF ExecsOK
  <2> HIDE DEF k
  <2>1. execs[e].status = "failed" /\ execution[e].status \in Active
    BY <1>1, ZenonT(40) DEF PgInv, PgTyped, TypeOK, ExecutionRow
  <2>2. ASSUME NEW t \in TargetsOf(e)
        PROVE  /\ t \in Targets
               /\ Seen(conn[c].rows, t).status \notin {"absent", "cancelled"}
    <3>1. t \in Targets /\ ExecutionOf[t] = e
      BY DEF TargetsOf
    <3>2. CASE t \in DOMAIN conn[c].rows
      BY <1>0, <3>1, <3>2 DEF Consistent, RowsOK, Taken, Ended, Seen, Settled
    <3>3. CASE t \notin DOMAIN conn[c].rows
      BY <2>1, <3>1, <3>3 DEF PgInv, PgTablesOK, PgRowInv, Seen, Active, Settled
    <3> QED
      BY <3>1, <3>2, <3>3
  <2>3. \A t \in TargetsOf(e) : Seen(conn[c].rows, t).status \in Settled
    <3>1. \A t \in TargetsOf(e) : TargetsSeen(c)[t].status \notin {"pending", "running"}
      BY <1>1 DEF Open
    <3>2. \A t \in TargetsOf(e) :
            Seen(conn[c].rows, t) = TargetsSeen(c)[t] /\ TargetsSeen(c)[t].status \in TargetStatuses
      BY <2>2, InHand DEF TargetRow
    <3> QED
      BY <2>2, <3>1, <3>2 DEF TargetStatuses, Settled
  <2>4. \E t \in TargetsOf(e) : Seen(conn[c].rows, t).status = "dead_letter"
    <3>1. PICK t \in TargetsOf(e) : TargetsSeen(c)[t].status = "dead_letter"
      BY <1>1 DEF DeadLettered
    <3>2. Seen(conn[c].rows, t) = TargetsSeen(c)[t]
      BY <2>2, InHand
    <3> QED
      BY <3>1, <3>2
  <2> QED
    BY <2>1, <2>3, <2>4
<1>5. RowsOK(k)
  BY <1>0 DEF Consistent, RowsOK, Taken, Ended
<1>6. JobOK(k) /\ ResultOK(k) /\ ExpiredOK(k)
  BY DEF JobOK, ResultOK, ExpiredOK
<1>7. k.rows = conn[c].rows /\ DOMAIN k.execs = changed
  OBVIOUS
<1> HIDE DEF k, changed
<1> QED
  BY <1>0, <1>3, <1>4, <1>5, <1>6, <1>7, InHand, TransactionMoves DEF Consistent

\* A transaction that has done its writes waits for its commit.
LEMMA GetsReadyToCommit ==
  ASSUME PgInv, NEW c \in Connections, NEW done \in SUBSET Result, conn[c].at # "start",
         ReadyToCommit(c, done), UNCHANGED vars,
         \A x \in done : Written(conn[c], x),
         \A x, y \in done : x = y
  PROVE  PgInv'
<1> DEFINE k == [at |-> "commit", done |-> done, rows |-> conn[c].rows, execs |-> conn[c].execs]
<1>1. conn' = [conn EXCEPT ![c] = k]
  BY DEF ReadyToCommit
<1>2. conn[c] \in Transaction /\ Consistent(conn[c])
  BY InHand
<1>3. k \in Transaction
  BY <1>2, Written_Rows DEF Transaction
<1>4. /\ k.at = "commit" /\ k.done = done
      /\ k.rows = conn[c].rows /\ k.execs = conn[c].execs
  OBVIOUS
<1> HIDE DEF k
<1>5. RowsOK(k) /\ ExecsOK(k) /\ JobOK(k) /\ ExpiredOK(k)
  BY <1>2, <1>4 DEF Consistent, RowsOK, ExecsOK, JobOK, ExpiredOK, Taken, Ended
<1>6. ResultOK(k)
  BY <1>4 DEF ResultOK, Written
<1> QED
  BY <1>1, <1>3, <1>4, <1>5, <1>6, InHand, TransactionMoves DEF Consistent

\* The claim selects the oldest claimable row it sees, if there is one.
LEMMA SelectsAJob ==
  ASSUME PgInv, NEW c \in Connections, NEW r \in Runners, NEW wanted \in Filters,
         SelectJob(c, r, wanted)
  PROVE  PgInv'
<1> DEFINE jobs == Oldest(ExecutionsSeen(c),
                     Claimable(ExecutionsSeen(c), TargetsSeen(c), r, wanted))
<1>0. /\ conn[c] \in Transaction /\ Consistent(conn[c])
      /\ conn[c].at \in {"idle", "select"} /\ UNCHANGED vars
  BY InHand DEF SelectJob
<1>1. CASE ReadyToCommit(c, {})
  BY <1>0, <1>1, GetsReadyToCommit
<1>2. ASSUME NEW t \in jobs,
             conn' = [conn EXCEPT ![c] =
                [at |-> "take", runner |-> r, job |-> t, source |-> TargetsSeen(c)[t].status,
                 rows |-> conn[c].rows, execs |-> conn[c].execs]]
      PROVE  PgInv'
  <2> DEFINE k == [at |-> "take", runner |-> r, job |-> t, source |-> TargetsSeen(c)[t].status,
                   rows |-> conn[c].rows, execs |-> conn[c].execs]
  <2>1. t \in Targets /\ ExecutionsSeen(c)[ExecutionOf[t]].status \in Active
    BY ConstantsAssumption DEF Oldest, Claimable, ConstantsAssumption
  <2>2. TargetsSeen(c)[t].status \in TargetStatuses
    BY <2>1, InHand DEF TargetRow
  <2>3. k \in Transaction
    BY <1>0, <2>1, <2>2, Written_Rows DEF Transaction
  <2>4. /\ k.at = "take" /\ k.job = t
        /\ k.rows = conn[c].rows /\ k.execs = conn[c].execs
    OBVIOUS
  <2>5. conn' = [conn EXCEPT ![c] = k]
    BY <1>2
  <2> HIDE DEF k
  <2>6. ExecutionOf[t] \notin DOMAIN conn[c].execs
    BY <1>0, <2>1, InHand DEF Consistent, ExecsOK, ExecutionsSeen, Active
  <2>7. Consistent(k)
    BY <1>0, <2>4, <2>6 DEF Consistent, RowsOK, ExecsOK, JobOK, ResultOK, ExpiredOK, Taken, Ended
  <2> QED
    BY <1>0, <2>3, <2>4, <2>5, <2>7, InHand, TransactionMoves
<1> QED
  BY <1>1, <1>2 DEF SelectJob

\* The selected row gets its new lease, if it is free and its status still the selected
\* one.
LEMMA TakesTheJob ==
  ASSUME PgInv, NEW c \in Connections, TakeJob(c)
  PROVE  PgInv'
<1> DEFINE t == conn[c].job
           row == TargetsSeen(c)[t]
<1>0. /\ conn[c].at = "take" /\ UNCHANGED vars
      /\ conn[c] \in [at : {"take", "start"}, runner : Runners, job : Targets,
                      source : TargetStatuses, rows : SomeTargets, execs : SomeExecutions]
      /\ conn[c] \in Transaction /\ Consistent(conn[c]) /\ t \in Targets /\ conn[c].runner \in Runners
      /\ TargetFree(c, t)
  BY InHand DEF TakeJob, Transaction
<1>1. CASE Rollback(c)
  BY <1>0, <1>1, RollsBack
<1>2. CASE /\ StillClaimable(row, conn[c].source)
           /\ conn' = [conn EXCEPT ![c].at = "start",
                ![c].rows = Write(@, t, LeasedRow(row, conn[c].runner, issued[t] + 1))]
  <2> DEFINE new == LeasedRow(row, conn[c].runner, issued[t] + 1)
  <2>1. t \notin DOMAIN conn[c].rows
    BY <1>0, <1>2 DEF Consistent, RowsOK, Taken, Ended, TargetsSeen, StillClaimable, Settled
  <2>2. /\ row = target[t] /\ target[t] \in TargetRow /\ issued[t] \in Nat
        /\ issued[t] = target[t].attempt
    BY <1>0, <2>1 DEF TargetsSeen, PgInv, PgTyped, TypeOK, PgTablesOK, PgRowInv
  <2>3. /\ target[t].status \in {"pending", "running"}
        /\ target[t].status = "running" => target[t].lapsed
        /\ target[t].attempt < MaxAttempts
    BY <1>2, <2>2 DEF StillClaimable
  <2>4. /\ new \in TargetRow
        /\ new.status = "running" /\ new.runner = conn[c].runner
        /\ new.attempt = issued[t] + 1 /\ new.lease = issued[t] + 1
    <3>1. /\ conn[c].runner \in Runners /\ row \in TargetRow /\ issued[t] + 1 \in Nat
          /\ row.attempt + 1 = issued[t] + 1
      BY <1>0, <2>2
    <3> HIDE DEF row, t
    <3> QED
      BY <3>1, LeasedRowType
  <2> HIDE DEF new
  <2>5. /\ Write(conn[c].rows, t, new) \in SomeTargets
        /\ DOMAIN Write(conn[c].rows, t, new) = DOMAIN conn[c].rows \cup {t}
        /\ Write(conn[c].rows, t, new)[t] = new
        /\ \A u \in DOMAIN conn[c].rows : u # t => Write(conn[c].rows, t, new)[u] = conn[c].rows[u]
    <3>1. conn[c] \in Transaction /\ t \in Targets
      BY <1>0
    <3> QED
      BY <2>4, <3>1, WriteAddsARow
  <2> DEFINE k == [conn[c] EXCEPT !.at = "start", !.rows = Write(conn[c].rows, t, new)]
  <2>6. conn' = [conn EXCEPT ![c] = k]
    BY <1>0, <1>2 DEF new
  <2>7. /\ k \in Transaction /\ k.at = "start" /\ k.job = t
        /\ k.rows = Write(conn[c].rows, t, new) /\ k.execs = conn[c].execs
    BY <1>0, <2>5 DEF Transaction
  <2> HIDE DEF k
  <2>8. t \in DOMAIN k.rows /\ Taken(k, t)
    BY <1>0, <2>2, <2>3, <2>4, <2>5, <2>7 DEF Taken
  <2>9. RowsOK(k)
    <3> SUFFICES ASSUME NEW u \in DOMAIN k.rows, u # t PROVE Ended(k, u)
      BY <2>8 DEF RowsOK
    <3> QED
      BY <1>0, <2>5, <2>7 DEF Consistent, RowsOK, Taken, Ended
  <2>10. ExecsOK(k)
    <3>1. \A u \in Targets : u # t => Seen(k.rows, u) = Seen(conn[c].rows, u)
      BY <2>5, <2>7 DEF Seen
    <3> QED
      BY <1>0, <2>7, <3>1 DEF Consistent, ExecsOK, JobOK, TargetsOf
  <2>11. JobOK(k) /\ ResultOK(k) /\ ExpiredOK(k)
    BY <1>0, <2>7, <2>8 DEF JobOK, ResultOK, ExpiredOK, Consistent
  <2>12. \A u \in DOMAIN k.rows : TargetFree(c, u)
    BY <1>0, <2>5, <2>7, InHand
  <2> QED
    BY <1>0, <2>6, <2>7, <2>9, <2>10, <2>11, <2>12, InHand, TransactionMoves DEF Consistent
<1> QED
  BY <1>1, <1>2 DEF TakeJob

\* A result's transaction begins with what the runner holds.
LEMMA BeginsAResult ==
  ASSUME PgInv, NEW c \in Connections, NEW res \in PossibleResults, BeginResult(c, res)
  PROVE  PgInv'
<1> DEFINE k == [at |-> "record", result |-> res, rows |-> <<>>, execs |-> <<>>]
<1>1. conn' = [conn EXCEPT ![c] = k] /\ UNCHANGED vars
  BY DEF BeginResult
<1>2. res \in Result
  BY DEF PossibleResults, Result, PgInv, PgTyped, TypeOK
<1>3. <<>> \in SomeTargets /\ <<>> \in SomeExecutions /\ DOMAIN <<>> = {}
  BY IdleHoldsNothing, Written_Rows DEF Idle
<1>4. k \in Transaction /\ DOMAIN k.rows = {} /\ DOMAIN k.execs = {} /\ k.at = "record"
  BY <1>2, <1>3 DEF Transaction
<1> HIDE DEF k
<1>5. Consistent(k)
  BY <1>4 DEF Consistent, RowsOK, ExecsOK, JobOK, ResultOK, ExpiredOK
<1> QED
  BY <1>1, <1>4, <1>5, TransactionMoves

\* With open targets left the execution is not decided; without, it is the next step.
LEMMA CountsTheOpen ==
  ASSUME PgInv, NEW c \in Connections, CountOpen(c)
  PROVE  PgInv'
<1>0. /\ conn[c].at = "count" /\ UNCHANGED vars
      /\ conn[c] \in [at : {"record", "count", "decide"}, result : Result,
                      rows : SomeTargets, execs : SomeExecutions]
      /\ Consistent(conn[c])
  BY InHand DEF CountOpen, Transaction
<1> DEFINE e == ExecutionOf[conn[c].result.target]
<1>1. CASE Open(TargetsSeen(c), e) # {}
  <2>1. ReadyToCommit(c, {conn[c].result}) /\ {conn[c].result} \in SUBSET Result
    BY <1>0, <1>1 DEF CountOpen
  <2>2. Written(conn[c], conn[c].result)
    BY <1>0 DEF Consistent, ResultOK
  <2> QED
    BY <1>0, <2>1, <2>2, GetsReadyToCommit
<1>2. CASE Open(TargetsSeen(c), e) = {}
  <2> DEFINE k == [conn[c] EXCEPT !.at = "decide"]
  <2>1. conn' = [conn EXCEPT ![c] = k]
    BY <1>0, <1>2 DEF CountOpen
  <2>2. /\ k \in Transaction /\ k.at = "decide" /\ k.result = conn[c].result
        /\ k.rows = conn[c].rows /\ k.execs = conn[c].execs
    BY <1>0 DEF Transaction
  <2> HIDE DEF k
  <2>3. \A t \in TargetsOf(e) : Seen(k.rows, t).status \notin {"pending", "running"}
    <3>1. \A t \in TargetsOf(e) : TargetsSeen(c)[t].status \notin {"pending", "running"}
      BY <1>2 DEF Open
    <3>2. \A t \in TargetsOf(e) : Seen(conn[c].rows, t) = TargetsSeen(c)[t]
      BY InHand DEF TargetsOf
    <3> QED
      BY <2>2, <3>1, <3>2
  <2>4. ResultOK(k)
    BY <1>0, <2>2, <2>3 DEF Consistent, ResultOK, Written
  <2>5. RowsOK(k) /\ ExecsOK(k) /\ JobOK(k) /\ ExpiredOK(k)
    BY <1>0, <2>2 DEF Consistent, RowsOK, ExecsOK, JobOK, ExpiredOK, Taken, Ended
  <2> QED
    BY <1>0, <2>1, <2>2, <2>4, <2>5, InHand, TransactionMoves DEF Consistent
<1> QED
  BY <1>1, <1>2

(***************************************************************************)
(* A step that changes the tables: how committed rows may go on, and which *)
(* of them it must spare for a transaction that is under way.              *)
(***************************************************************************)
Onward ==
  \A t \in Targets :
    /\ target[t].attempt <= target'[t].attempt
    /\ target[t].status \in Settled \cup {"cancelled"} =>
         target'[t].status \in Settled \cup {"cancelled"}
    /\ target[t].status \in Settled /\ execution[ExecutionOf[t]].status \in Active =>
         target'[t].status = target[t].status

Spares(k) ==
  /\ \A t \in DOMAIN k.rows :
       /\ target'[t].status = target[t].status
       /\ target'[t].attempt = target[t].attempt
       /\ target'[t].lease = target[t].lease
       /\ target[t].lapsed => target'[t].lapsed
       /\ issued'[t] = issued[t]
  /\ \A e \in DOMAIN k.execs : execution'[e].status = execution[e].status

(* A transaction whose rows are spared stays consistent with the tables.   *)
LEMMA StaysConsistent ==
  ASSUME PgTyped, PgTablesOK, target' \in [Targets -> TargetRow], Onward,
         NEW k \in Transaction, Consistent(k), Spares(k)
  PROVE  /\ RowsOK(k)' /\ ExecsOK(k)' /\ JobOK(k)' /\ ResultOK(k)' /\ ExpiredOK(k)'
<1>0. DOMAIN k.rows \subseteq Targets
  BY Written_Rows
<1>1. ASSUME NEW t \in DOMAIN k.rows, Taken(k, t) PROVE Taken(k, t)'
  BY <1>1 DEF Taken, Spares
<1>2. ASSUME NEW t \in DOMAIN k.rows, Ended(k, t) PROVE Ended(k, t)'
  BY <1>2 DEF Ended, Spares
<1>3. ASSUME NEW x, Written(k, x) PROVE Written(k, x)'
  BY <1>3 DEF Written, Spares
<1>4. RowsOK(k)'
  <2> SUFFICES ASSUME NEW t \in DOMAIN k.rows PROVE Taken(k, t)' \/ Ended(k, t)'
    BY DEF RowsOK
  <2> QED
    BY <1>1, <1>2 DEF Consistent, RowsOK
<1>5. ExecsOK(k)'
  <2> SUFFICES ASSUME NEW e \in DOMAIN k.execs
               PROVE  /\ k.execs[e].status = "failed"
                      /\ execution'[e].status \in Active
                      /\ \A t \in TargetsOf(e) : Seen(k.rows, t)'.status \in Settled
                      /\ \E t \in TargetsOf(e) : Seen(k.rows, t)'.status = "dead_letter"
    BY DEF ExecsOK
  <2>1. /\ k.execs[e].status = "failed" /\ execution[e].status \in Active
        /\ \A t \in TargetsOf(e) : Seen(k.rows, t).status \in Settled
        /\ \E t \in TargetsOf(e) : Seen(k.rows, t).status = "dead_letter"
    BY DEF Consistent, ExecsOK
  <2>2. \A t \in TargetsOf(e) : Seen(k.rows, t)'.status = Seen(k.rows, t).status
    BY <2>1 DEF Seen, Onward, TargetsOf
  <2> QED
    BY <2>1, <2>2 DEF Spares
<1>6. JobOK(k)'
  BY <1>1 DEF JobOK, Consistent
<1>7. ExpiredOK(k)'
  <2> SUFFICES ASSUME k.at = "reconcile", NEW row \in k.expired
               PROVE  row[2] <= target'[row[1]].attempt
    BY DEF ExpiredOK
  <2>1. row \in Targets \X Nat
    BY DEF Transaction
  <2>2. /\ row[1] \in Targets /\ row[2] \in Nat
        /\ row[2] <= target[row[1]].attempt
        /\ target[row[1]].attempt <= target'[row[1]].attempt
        /\ target[row[1]].attempt \in Nat /\ target'[row[1]].attempt \in Nat
    BY <2>1 DEF Consistent, ExpiredOK, Onward, PgTyped, TypeOK, TargetRow
  <2> QED
    BY <2>2
<1>8. ResultOK(k)'
  <2>1. k.at \in {"count", "decide"} => Written(k, k.result)'
    BY <1>3 DEF Consistent, ResultOK
  <2>2. k.at = "commit" => (\A x \in k.done : Written(k, x)') /\ \A x, y \in k.done : x = y
    BY <1>3 DEF Consistent, ResultOK
  <2>3. ASSUME k.at = "decide", NEW t \in TargetsOf(ExecutionOf[k.result.target])
        PROVE  Seen(k.rows, t)'.status \notin {"pending", "running"}
    <3>1. Written(k, k.result) /\ Seen(k.rows, t).status \notin {"pending", "running"}
      BY <2>3 DEF Consistent, ResultOK
    <3>2. CASE t \in DOMAIN k.rows
      BY <3>1, <3>2 DEF Seen
    <3>3. CASE t \notin DOMAIN k.rows
      <4>1. /\ t \in Targets /\ k.result.target \in Targets
            /\ ExecutionOf[t] = ExecutionOf[k.result.target]
        BY <1>0, <3>1 DEF TargetsOf, Written
      <4>2. target[t].status # "absent"
        BY <3>1, <4>1 DEF PgTablesOK, PgRowInv, Written
      <4>3. target[t].status \in TargetStatuses
        BY <4>1 DEF PgTyped, TypeOK, TargetRow
      <4>4. target[t].status \in Settled \cup {"cancelled"}
        BY <3>1, <3>3, <4>2, <4>3 DEF Seen, TargetStatuses, Settled
      <4>5. target'[t].status \in Settled \cup {"cancelled"}
        BY <4>1, <4>4 DEF Onward
      <4> QED
        BY <3>3, <4>5 DEF Seen, Settled
    <3> QED
      BY <3>2, <3>3
  <2>4. k.at = "record" => DOMAIN k.rows = {}
    BY DEF Consistent, ResultOK
  <2> QED
    BY <2>1, <2>2, <2>3, <2>4 DEF ResultOK
<1> QED
  BY <1>4, <1>5, <1>6, <1>7, <1>8

(* A change of the tables that leaves each transaction as it is, or ends   *)
(* it, and spares the rows of those it leaves.                             *)
LEMMA TablesMove ==
  ASSUME PgInv, TypeOK', PgTablesOK', PgReceiptsOK', acked' \subseteq receipts',
         \A row \in sweep'.rows : row[2] <= target'[row[1]].attempt,
         \A e \in cancelling' : execution'[e].status = "cancelled",
         Onward, conn' \in [Connections -> Transaction],
         \A d \in Connections :
           conn'[d] = Idle \/ (conn'[d] = conn[d] /\ Spares(conn[d]))
  PROVE  PgInv'
<1>1. LocksOK'
  <2> SUFFICES ASSUME NEW a \in Connections, NEW b \in Connections, a # b
               PROVE  /\ DOMAIN conn'[a].rows \cap DOMAIN conn'[b].rows = {}
                      /\ DOMAIN conn'[a].execs \cap DOMAIN conn'[b].execs = {}
    BY DEF LocksOK
  <2> QED
    BY IdleHoldsNothing DEF PgInv, LocksOK
<1>2. ASSUME NEW d \in Connections
      PROVE  RowsOK(conn[d])' /\ ExecsOK(conn[d])' /\ JobOK(conn[d])' /\ ResultOK(conn[d])'
             /\ ExpiredOK(conn[d])'
  <2>1. CASE conn'[d] = Idle
    BY <2>1, IdleHoldsNothing DEF RowsOK, ExecsOK, JobOK, ResultOK, ExpiredOK
  <2>2. CASE conn'[d] = conn[d] /\ Spares(conn[d])
    <3> DEFINE k == conn[d]
    <3>1. k \in Transaction /\ Consistent(k) /\ Spares(k) /\ PgTyped /\ PgTablesOK
          /\ target' \in [Targets -> TargetRow]
      BY <2>2, InHand DEF PgInv, TypeOK
    <3>2. k = conn'[d]
      BY <2>2
    <3> QED
      BY <3>1, <3>2, StaysConsistent
  <2> QED
    BY <2>1, <2>2
<1> QED
  BY <1>1, <1>2 DEF PgInv, PgTyped, Consistent

(***************************************************************************)
(* The COMMIT of a transaction, with what its last statement does to the   *)
(* executions: one goes from queued to running, or is decided from all of  *)
(* its targets.                                                            *)
(***************************************************************************)
Commits(c) ==
  \A e \in Executions :
    \/ execution'[e].status = execution[e].status
    \/ execution[e].status = "queued" /\ execution'[e].status = "running"
    \/ /\ execution[e].status \in Active /\ execution'[e].status = "failed"
       /\ \A t \in TargetsOf(e) : TargetsSeen(c)[t].status \in Settled
       /\ \E t \in TargetsOf(e) : TargetsSeen(c)[t].status = "dead_letter"
    \/ /\ execution[e].status = "running" /\ execution'[e].status = "succeeded"
       /\ \A t \in TargetsOf(e) : TargetsSeen(c)[t].status = "succeeded"

(* The committed row of a target before and after the COMMIT: as it was,   *)
(* taken over, or ended.                                                   *)
LEMMA RowCommitted ==
  ASSUME PgInv, NEW c \in Connections, NEW t \in Targets
  PROVE  LET row == TargetsSeen(c)[t]
         IN  /\ target[t].attempt = issued[t] /\ issued[t] \in Nat /\ issued[t] <= MaxAttempts
             /\ row \in TargetRow
             /\ \/ row = target[t] /\ t \notin DOMAIN conn[c].rows
                \/ /\ conn[c].at = "start" /\ t = conn[c].job
                   /\ target[t].status \in {"pending", "running"}
                   /\ row.status = "running" /\ row.runner \in Runners
                   /\ row.attempt = issued[t] + 1 /\ row.lease = issued[t] + 1
                   /\ issued[t] < MaxAttempts
                \/ /\ target[t].status = "running"
                   /\ row.status \in {"pending"} \cup Settled
                   /\ row.attempt = issued[t]
                   /\ row.status = "dead_letter" => issued[t] = MaxAttempts
<1>1. target[t].attempt = issued[t] /\ issued[t] \in Nat /\ issued[t] <= MaxAttempts
  BY DEF PgInv, PgTyped, TypeOK, PgTablesOK, PgRowInv
<1>2. TargetsSeen(c)[t] \in TargetRow /\ Consistent(conn[c])
  BY InHand
<1>3. CASE t \notin DOMAIN conn[c].rows
  BY <1>1, <1>2, <1>3 DEF TargetsSeen
<1>4. CASE t \in DOMAIN conn[c].rows
  <2>1. TargetsSeen(c)[t] = conn[c].rows[t]
    BY <1>4 DEF TargetsSeen
  <2>2. Taken(conn[c], t) \/ Ended(conn[c], t)
    BY <1>2, <1>4 DEF Consistent, RowsOK
  <2> QED
    BY <1>1, <1>2, <2>1, <2>2 DEF Taken, Ended
<1> QED
  BY <1>3, <1>4

\* A commit shows the transaction's rows to everyone: the criterion for every kind of
\* commit.
LEMMA Publishes ==
  ASSUME PgInv, NEW c \in Connections, NEW done \in SUBSET Result,
         target' = TargetsSeen(c), conn' = [conn EXCEPT ![c] = Idle],
         issued' \in [Targets -> Nat],
         \A t \in Targets : issued'[t] = TargetsSeen(c)[t].attempt,
         execution' \in [Executions -> ExecutionRow], Commits(c),
         \A d \in Connections \ {c} : \A e \in DOMAIN conn[d].execs :
           execution'[e].status = execution[e].status,
         conn[c].at = "start" => execution'[ExecutionOf[conn[c].job]].status # "queued",
         \A x \in done : Written(conn[c], x),
         \A x, y \in done : x = y,
         receipts' = receipts \cup done, acked' = acked \cup done,
         UNCHANGED <<sweep, cancelling, renewals, restarts>>
  PROVE  PgInv'
<1> DEFINE row(t) == TargetsSeen(c)[t]
           es(t)  == execution[ExecutionOf[t]].status
           es1(t) == execution'[ExecutionOf[t]].status
<1>0. /\ target' \in [Targets -> TargetRow]
      /\ \A t \in Targets : target'[t] = row(t)
      /\ \A t \in Targets : ExecutionOf[t] \in Executions /\ t \in TargetsOf(ExecutionOf[t])
      /\ MaxAttempts \in Nat
  BY InHand, ConstantsAssumption DEF TargetsSeen, TargetsOf, ConstantsAssumption
<1>1. TypeOK'
  <2>1. receipts' \subseteq Result /\ acked' \subseteq Result
    BY DEF PgInv, PgTyped, TypeOK
  <2> QED
    BY <1>0, <2>1 DEF PgInv, PgTyped, TypeOK
<1>2. \A t \in Targets : PgRowInv(es(t), target[t], issued[t])
  BY DEF PgInv, PgTablesOK
<1>3. ASSUME NEW t \in Targets
      PROVE  \/ row(t) = target[t] /\ t \notin DOMAIN conn[c].rows
             \/ /\ conn[c].at = "start" /\ t = conn[c].job
                /\ target[t].status \in {"pending", "running"}
                /\ row(t).status = "running" /\ row(t).runner \in Runners
                /\ row(t).attempt = issued[t] + 1 /\ row(t).lease = issued[t] + 1
                /\ issued[t] < MaxAttempts
             \/ /\ target[t].status = "running"
                /\ row(t).status \in {"pending"} \cup Settled
                /\ row(t).attempt = issued[t]
                /\ row(t).status = "dead_letter" => issued[t] = MaxAttempts
  BY RowCommitted
<1>4. ASSUME NEW t \in Targets
      PROVE  \/ es1(t) = es(t)
             \/ es(t) = "queued" /\ es1(t) = "running"
             \/ es(t) \in Active /\ es1(t) = "failed" /\ row(t).status \in Settled
             \/ es(t) = "running" /\ es1(t) = "succeeded" /\ row(t).status = "succeeded"
  BY <1>0 DEF Commits
<1>5. ASSUME NEW t \in Targets
      PROVE  /\ row(t).attempt = issued'[t] /\ issued'[t] \in Nat /\ issued[t] \in Nat
             /\ issued[t] <= issued'[t] /\ issued'[t] <= MaxAttempts
             /\ target[t].attempt = issued[t]
  <2>1. /\ target[t].attempt = issued[t] /\ issued[t] \in Nat /\ issued[t] <= MaxAttempts
    BY RowCommitted
  <2> QED
    BY <1>0, <1>3, <2>1
<1>6. ASSUME NEW t \in Targets PROVE PgRowInv(es1(t), row(t), issued'[t])
  <2>1. PgRowInv(es(t), target[t], issued[t])
    BY <1>2
  <2>2. es(t) \in ExecutionStatuses /\ target[t].status \in TargetStatuses
    BY <1>0 DEF PgInv, PgTyped, TypeOK, ExecutionRow, TargetRow
  <2>3. CASE row(t) = target[t]
    BY <1>4, <1>5, <2>1, <2>3 DEF PgRowInv, Active, Settled
  <2>4. CASE /\ conn[c].at = "start" /\ t = conn[c].job
             /\ target[t].status \in {"pending", "running"}
             /\ row(t).status = "running" /\ row(t).runner \in Runners
             /\ row(t).attempt = issued[t] + 1 /\ row(t).lease = issued[t] + 1
             /\ issued[t] < MaxAttempts
    <3>1. es(t) \in {"queued", "running", "cancelled"} /\ es1(t) # "queued"
      BY <2>1, <2>2, <2>4 DEF PgRowInv, ExecutionStatuses, Settled
    <3>2. es1(t) \in {"running", "cancelled"}
      BY <1>4, <2>4, <3>1 DEF Settled
    <3> QED
      BY <1>5, <2>4, <3>2 DEF PgRowInv
  <2>5. CASE /\ target[t].status = "running"
             /\ row(t).status \in {"pending"} \cup Settled
             /\ row(t).attempt = issued[t]
             /\ row(t).status = "dead_letter" => issued[t] = MaxAttempts
    <3>1. es(t) \in {"running", "cancelled"}
      BY <2>1, <2>2, <2>5 DEF PgRowInv, ExecutionStatuses, Settled
    <3> QED
      BY <1>4, <1>5, <2>5, <3>1 DEF PgRowInv, Settled
  <2> QED
    BY <1>3, <2>3, <2>4, <2>5
<1>7. PgTablesOK'
  <2>1. ASSUME NEW e \in Executions, execution'[e].status = "failed"
        PROVE  \E t \in TargetsOf(e) : row(t).status = "dead_letter"
    <3>1. CASE execution[e].status # "failed"
      BY <2>1, <3>1 DEF Commits
    <3>2. CASE execution[e].status = "failed"
      <4>1. PICK t \in TargetsOf(e) : target[t].status = "dead_letter"
        BY <3>2 DEF PgInv, PgTablesOK, DeadLettered
      <4>2. row(t) = target[t]
        BY <1>3, <4>1 DEF TargetsOf
      <4> QED
        BY <4>1, <4>2
    <3> QED
      BY <3>1, <3>2
  <2> HIDE DEF row
  <2> QED
    BY <1>0, <1>6, <2>1 DEF PgTablesOK, DeadLettered, TargetsOf
<1>8. Onward
  <2> SUFFICES ASSUME NEW t \in Targets
               PROVE  /\ target[t].attempt <= row(t).attempt
                      /\ target[t].status \in Settled \cup {"cancelled"} => row(t) = target[t]
    BY <1>0 DEF Onward
  <2> QED
    BY <1>3, <1>5 DEF Settled
<1>9. PgReceiptsOK'
  <2>1. ASSUME NEW x \in receipts
        PROVE  /\ x.target \in Targets /\ x.lease \in 1 .. issued'[x.target]
               /\ row(x.target).status = "running" => row(x.target).lease # x.lease
               /\ x.outcome = "ok" /\ es1(x.target) # "cancelled" =>
                    row(x.target).status = "succeeded" /\ row(x.target).lease = x.lease
    <3>1. /\ x.target \in Targets /\ x.lease \in Nat
          /\ x.lease \in 1 .. issued[x.target]
          /\ target[x.target].status = "running" => target[x.target].lease # x.lease
          /\ x.outcome = "ok" /\ es(x.target) # "cancelled" =>
               target[x.target].status = "succeeded" /\ target[x.target].lease = x.lease
      BY DEF PgInv, PgReceiptsOK, PgTyped, TypeOK, Result
    <3>2. x.lease \in 1 .. issued'[x.target]
      BY <1>5, <3>1
    <3>3. row(x.target).status = "running" => row(x.target).lease # x.lease
      BY <1>3, <1>5, <3>1 DEF Settled
    <3>4. ASSUME x.outcome = "ok", es1(x.target) # "cancelled"
          PROVE  row(x.target).status = "succeeded" /\ row(x.target).lease = x.lease
      <4>1. es(x.target) # "cancelled"
        BY <1>4, <3>1, <3>4 DEF Active
      <4>2. target[x.target].status = "succeeded" /\ target[x.target].lease = x.lease
        BY <3>1, <3>4, <4>1
      <4>3. row(x.target) = target[x.target]
        BY <1>3, <3>1, <4>2
      <4> QED
        BY <4>2, <4>3
    <3> QED
      BY <3>1, <3>2, <3>3, <3>4
  <2>2. ASSUME NEW x \in done
        PROVE  /\ x.target \in Targets /\ x.lease \in 1 .. issued'[x.target]
               /\ row(x.target).status # "running"
               /\ x.outcome = "ok" => row(x.target).status = "succeeded"
               /\ row(x.target).lease = x.lease
               /\ target[x.target].status = "running" /\ target[x.target].lease = x.lease
    <3>1. /\ x.target \in Targets /\ x.target \in DOMAIN conn[c].rows
          /\ target[x.target].status = "running" /\ target[x.target].lease = x.lease
          /\ conn[c].rows[x.target].lease = x.lease
          /\ conn[c].rows[x.target].status =
               IF x.outcome = "ok" THEN "succeeded" ELSE "dead_letter"
      BY DEF Written, Result
    <3>2. row(x.target) = conn[c].rows[x.target]
      BY <3>1 DEF TargetsSeen
    <3>3. target[x.target].lease = issued[x.target] /\ issued[x.target] > 0
      BY <1>2, <3>1 DEF PgRowInv
    <3>4. x.lease \in 1 .. issued'[x.target]
      BY <1>5, <3>1, <3>3
    <3> QED
      BY <3>1, <3>2, <3>4
  <2>3. ASSUME NEW x \in receipts \cup done, NEW y \in receipts \cup done,
               x.target = y.target, x.lease = y.lease
        PROVE  x = y
    <3>1. \A z \in receipts : target[z.target].status = "running" => target[z.target].lease # z.lease
      BY DEF PgInv, PgReceiptsOK
    <3>2. CASE x \in receipts /\ y \in receipts
      BY <2>3, <3>2 DEF PgInv, PgReceiptsOK
    <3>3. CASE x \in done /\ y \in done
      BY <3>3
    <3>4. CASE x \in receipts /\ y \in done
      BY <2>2, <2>3, <3>1, <3>4
    <3>5. CASE x \in done /\ y \in receipts
      BY <2>2, <2>3, <3>1, <3>5
    <3> QED
      BY <3>2, <3>3, <3>4, <3>5
  <2>4. ASSUME NEW x \in receipts \cup done
        PROVE  /\ x.target \in Targets /\ x.lease \in 1 .. issued'[x.target]
               /\ row(x.target).status = "running" => row(x.target).lease # x.lease
               /\ x.outcome = "ok" /\ es1(x.target) # "cancelled" =>
                    row(x.target).status = "succeeded" /\ row(x.target).lease = x.lease
    BY <2>1, <2>2
  <2> HIDE DEF row
  <2> QED
    BY <1>0, <2>3, <2>4 DEF PgReceiptsOK
<1>10. \A r \in sweep'.rows : r[2] <= target'[r[1]].attempt
  <2> SUFFICES ASSUME NEW r \in sweep.rows PROVE r[2] <= target'[r[1]].attempt
    OBVIOUS
  <2>1. r \in Targets \X Nat /\ r[2] <= target[r[1]].attempt
    BY DEF PgInv, PgTyped, TypeOK
  <2>2. r[1] \in Targets /\ r[2] \in Nat
    BY <2>1
  <2> QED
    BY <1>0, <1>5, <2>1, <2>2
<1>11. \A e \in cancelling' : execution'[e].status = "cancelled"
  BY DEF PgInv, PgTyped, TypeOK, Commits, Active
<1>12. /\ conn' \in [Connections -> Transaction]
       /\ \A d \in Connections : conn'[d] = Idle \/ (conn'[d] = conn[d] /\ Spares(conn[d]))
  <2>1. conn' \in [Connections -> Transaction] /\ conn'[c] = Idle
    BY IdleHoldsNothing, InHand
  <2>2. ASSUME NEW d \in Connections, d # c
        PROVE  conn'[d] = conn[d] /\ Spares(conn[d])
    <3>1. conn'[d] = conn[d]
      BY <2>2, InHand
    <3>2. ASSUME NEW t \in DOMAIN conn[d].rows
          PROVE  target'[t] = target[t] /\ issued'[t] = issued[t]
      <4>1. t \in Targets /\ t \notin DOMAIN conn[c].rows
        BY <2>2, InHand DEF TargetFree
      <4> QED
        BY <1>0, <1>5, <4>1 DEF TargetsSeen
    <3>3. \A e \in DOMAIN conn[d].execs : execution'[e].status = execution[e].status
      BY <2>2
    <3> QED
      BY <3>1, <3>2, <3>3 DEF Spares
  <2> QED
    BY <2>1, <2>2
<1>13. acked' \subseteq receipts'
  BY DEF PgInv
<1> QED
  BY <1>1, <1>7, <1>8, <1>9, <1>10, <1>11, <1>12, <1>13, TablesMove

(* The three statements that commit a transaction with rows in hand.       *)
LEMMA CommitsItsRows ==
  ASSUME PgInv, NEW c \in Connections, Commit(c)
  PROVE  PgInv'
<1>0. /\ conn[c].at = "commit"
      /\ conn[c] \in Transaction /\ Consistent(conn[c])
      /\ conn[c].done \in SUBSET Result
  BY InHand DEF Commit, Transaction
<1>1. ASSUME NEW e \in Executions, execution'[e] # execution[e]
      PROVE  /\ e \in DOMAIN conn[c].execs
             /\ execution[e].status \in Active /\ execution'[e].status = "failed"
             /\ \A t \in TargetsOf(e) : TargetsSeen(c)[t].status \in Settled
             /\ \E t \in TargetsOf(e) : TargetsSeen(c)[t].status = "dead_letter"
  <2>1. e \in DOMAIN conn[c].execs /\ execution'[e] = conn[c].execs[e]
    BY <1>1 DEF Commit, ExecutionsSeen
  <2>2. /\ conn[c].execs[e].status = "failed" /\ execution[e].status \in Active
        /\ \A t \in TargetsOf(e) : Seen(conn[c].rows, t).status \in Settled
        /\ \E t \in TargetsOf(e) : Seen(conn[c].rows, t).status = "dead_letter"
    BY <1>0, <2>1 DEF Consistent, ExecsOK
  <2>3. \A t \in TargetsOf(e) : Seen(conn[c].rows, t) = TargetsSeen(c)[t]
    BY InHand DEF TargetsOf
  <2> QED
    BY <2>1, <2>2, <2>3
<1>2. Commits(c)
  BY <1>1 DEF Commits
<1>3. execution' \in [Executions -> ExecutionRow]
  BY InHand DEF Commit, ExecutionsSeen
<1>4. \A d \in Connections \ {c} : \A e \in DOMAIN conn[d].execs : execution'[e].status = execution[e].status
  BY <1>1, InHand DEF ExecutionFree
<1>5. \A t \in Targets : issued'[t] = TargetsSeen(c)[t].attempt
  BY <1>0, RowCommitted DEF Commit
<1>6. issued' \in [Targets -> Nat]
  BY DEF Commit, PgInv, PgTyped, TypeOK
<1>7. /\ \A x \in conn[c].done : Written(conn[c], x)
      /\ \A x, y \in conn[c].done : x = y
  BY <1>0 DEF Consistent, ResultOK
<1> QED
  BY <1>0, <1>2, <1>3, <1>4, <1>5, <1>6, <1>7, Publishes DEF Commit, Rollback

\* The first claim of an execution starts it, unless it was cancelled in between.
LEMMA StartsTheExecution ==
  ASSUME PgInv, NEW c \in Connections, StartExecution(c)
  PROVE  PgInv'
<1> DEFINE t == conn[c].job
           e == ExecutionOf[t]
<1>0. /\ conn[c].at = "start" /\ conn[c].job \in Targets
      /\ conn[c] \in Transaction /\ Consistent(conn[c])
      /\ e \notin DOMAIN conn[c].execs
      /\ t \in DOMAIN conn[c].rows /\ Taken(conn[c], t)
      /\ e \in Executions
  BY InHand, ConstantsAssumption DEF StartExecution, Transaction, Consistent, JobOK, ConstantsAssumption
<1>1. /\ execution' = [ExecutionsSeen(c) EXCEPT ![e] = StartedRow(@)]
      /\ ExecutionsSeen(c)[e] = execution[e]
      /\ execution[e] \in ExecutionRow
      /\ ExecutionsSeen(c) \in [Executions -> ExecutionRow]
      /\ ExecutionFree(c, e)
      /\ target' = TargetsSeen(c)
      /\ issued' = [issued EXCEPT ![t] = @ + 1]
      /\ Rollback(c)
      /\ UNCHANGED <<receipts, sweep, cancelling, acked, renewals, restarts>>
  BY <1>0, InHand DEF StartExecution, ExecutionsSeen, PgInv, PgTyped, TypeOK
<1>2. /\ StartedRow(execution[e]) \in ExecutionRow
      /\ execution[e].status \in Active => StartedRow(execution[e]).status = "running"
      /\ execution[e].status \notin Active => StartedRow(execution[e]) = execution[e]
  BY <1>1 DEF StartedRow, ExecutionRow, ExecutionStatuses
<1>3. /\ execution'[e] = StartedRow(execution[e])
      /\ \A x \in Executions : x # e => execution'[x] = ExecutionsSeen(c)[x]
      /\ execution' \in [Executions -> ExecutionRow]
  BY <1>0, <1>1, <1>2
<1>4. ASSUME NEW x \in Executions, x # e, execution'[x] # execution[x]
      PROVE  /\ x \in DOMAIN conn[c].execs
             /\ execution[x].status \in Active /\ execution'[x].status = "failed"
             /\ \A u \in TargetsOf(x) : TargetsSeen(c)[u].status \in Settled
             /\ \E u \in TargetsOf(x) : TargetsSeen(c)[u].status = "dead_letter"
  <2>1. x \in DOMAIN conn[c].execs /\ execution'[x] = conn[c].execs[x]
    BY <1>3, <1>4 DEF ExecutionsSeen
  <2>2. /\ conn[c].execs[x].status = "failed" /\ execution[x].status \in Active
        /\ \A u \in TargetsOf(x) : Seen(conn[c].rows, u).status \in Settled
        /\ \E u \in TargetsOf(x) : Seen(conn[c].rows, u).status = "dead_letter"
    BY <1>0, <2>1 DEF Consistent, ExecsOK
  <2>3. \A u \in TargetsOf(x) : Seen(conn[c].rows, u) = TargetsSeen(c)[u]
    BY InHand DEF TargetsOf
  <2> QED
    BY <2>1, <2>2, <2>3
<1>5. \/ execution'[e].status = execution[e].status
      \/ execution[e].status = "queued" /\ execution'[e].status = "running"
  BY <1>2, <1>3 DEF Active
<1>6. Commits(c)
  BY <1>4, <1>5 DEF Commits
<1>7. \A d \in Connections \ {c} : \A x \in DOMAIN conn[d].execs : execution'[x].status = execution[x].status
  BY <1>1, <1>4, InHand DEF ExecutionFree
<1>8. \A u \in Targets : issued'[u] = TargetsSeen(c)[u].attempt
  <2>1. ASSUME NEW u \in Targets, u # t PROVE issued'[u] = TargetsSeen(c)[u].attempt
    BY <1>1, <2>1, RowCommitted
  <2>2. TargetsSeen(c)[t].attempt = issued[t] + 1
    BY <1>0 DEF TargetsSeen, Taken
  <2>3. issued'[t] = issued[t] + 1
    BY <1>0, <1>1 DEF PgInv, PgTyped, TypeOK
  <2> QED
    BY <2>1, <2>2, <2>3
<1>9. issued' \in [Targets -> Nat]
  BY <1>0, <1>1 DEF PgInv, PgTyped, TypeOK
<1>10. execution'[e].status # "queued"
  BY <1>2, <1>3 DEF Active
<1>11. receipts' = receipts \cup {} /\ acked' = acked \cup {} /\ {} \in SUBSET Result
  BY <1>1
<1> HIDE DEF e, t
<1> QED
  BY <1>1, <1>3, <1>6, <1>7, <1>8, <1>9, <1>10, <1>11, Publishes DEF Rollback, e, t

\* The last result decides the execution, if it is still running.
LEMMA DecidesTheExecution ==
  ASSUME PgInv, NEW c \in Connections, DecideExecution(c)
  PROVE  PgInv'
<1> DEFINE res == conn[c].result
           e   == ExecutionOf[res.target]
<1>0. /\ conn[c].at = "decide"
      /\ conn[c] \in Transaction /\ Consistent(conn[c])
      /\ res \in Result /\ res.target \in Targets /\ e \in Executions
  BY InHand, ConstantsAssumption DEF DecideExecution, Transaction, Result, ConstantsAssumption
<1>1. CASE execution[e].status # "running"
  BY <1>1, RollsBack DEF DecideExecution, vars
<1>2. CASE execution[e].status = "running"
  <2>1. /\ ExecutionFree(c, e)
        /\ execution' = [execution EXCEPT ![e].status = Verdict(TargetsSeen(c), e)]
        /\ target' = TargetsSeen(c)
        /\ Acknowledge(res)
        /\ Rollback(c)
        /\ UNCHANGED <<sweep, cancelling, issued, renewals, restarts>>
    BY <1>2 DEF DecideExecution
  <2>2. ASSUME NEW t \in TargetsOf(e) PROVE TargetsSeen(c)[t].status \in Settled
    <3>1. t \in Targets /\ ExecutionOf[t] = e
      BY DEF TargetsOf
    <3>2. TargetsSeen(c)[t].status \notin {"pending", "running"}
      <4>1. Seen(conn[c].rows, t).status \notin {"pending", "running"}
        BY <1>0 DEF Consistent, ResultOK
      <4>2. Seen(conn[c].rows, t) = TargetsSeen(c)[t]
        BY <3>1, InHand
      <4> QED
        BY <4>1, <4>2
    <3>3. target[t].status \in {"pending", "running"} \cup Settled
      BY <1>2, <3>1 DEF PgInv, PgTablesOK, PgRowInv
    <3> QED
      BY <3>1, <3>2, <3>3, RowCommitted
  <2>3. Verdict(TargetsSeen(c), e) \in {"succeeded", "failed"}
    BY DEF Verdict
  <2>4. /\ execution' \in [Executions -> ExecutionRow]
        /\ execution'[e].status = Verdict(TargetsSeen(c), e)
        /\ \A x \in Executions : x # e => execution'[x] = execution[x]
    <3>1. execution \in [Executions -> ExecutionRow]
      BY DEF PgInv, PgTyped, TypeOK
    <3>2. [execution[e] EXCEPT !.status = Verdict(TargetsSeen(c), e)] \in ExecutionRow
      BY <1>0, <2>3, <3>1 DEF ExecutionRow, ExecutionStatuses
    <3> QED
      BY <1>0, <2>1, <3>1, <3>2 DEF ExecutionRow
  <2>5. Commits(c)
    <3>1. CASE Verdict(TargetsSeen(c), e) = "succeeded"
      <4>1. \A t \in TargetsOf(e) : TargetsSeen(c)[t].status # "dead_letter"
        BY <3>1 DEF Verdict, DeadLettered
      <4> QED
        BY <1>2, <2>2, <2>4, <3>1, <4>1 DEF Commits, Settled
    <3>2. CASE Verdict(TargetsSeen(c), e) = "failed"
      <4>1. \E t \in TargetsOf(e) : TargetsSeen(c)[t].status = "dead_letter"
        BY <3>2 DEF Verdict, DeadLettered
      <4> QED
        BY <1>2, <2>2, <2>4, <3>2, <4>1 DEF Commits, Active
    <3> QED
      BY <2>3, <3>1, <3>2
  <2>6. \A d \in Connections \ {c} : \A x \in DOMAIN conn[d].execs : execution'[x].status = execution[x].status
    BY <2>1, <2>4, InHand DEF ExecutionFree
  <2>7. \A t \in Targets : issued'[t] = TargetsSeen(c)[t].attempt
    BY <1>0, <2>1, RowCommitted
  <2>8. issued' \in [Targets -> Nat]
    BY <2>1 DEF PgInv, PgTyped, TypeOK
  <2>9. Written(conn[c], res)
    BY <1>0 DEF Consistent, ResultOK
  <2>10. /\ receipts' = receipts \cup {res} /\ acked' = acked \cup {res}
         /\ {res} \in SUBSET Result
    BY <1>0, <2>1 DEF Acknowledge
  <2>11. /\ \A x \in {res} : Written(conn[c], x)
         /\ \A x, y \in {res} : x = y
    BY <2>9
  <2>12. /\ conn' = [conn EXCEPT ![c] = Idle] /\ target' = TargetsSeen(c)
         /\ UNCHANGED <<sweep, cancelling, renewals, restarts>>
         /\ conn[c].at # "start"
    BY <1>0, <2>1 DEF Rollback
  <2> HIDE DEF res, e
  <2> QED
    BY <2>4, <2>5, <2>6, <2>7, <2>8, <2>10, <2>11, <2>12, Publishes
<1> QED
  BY <1>1, <1>2

(***************************************************************************)
(* Steps outside a transaction, or that end one with a single statement.   *)
(***************************************************************************)
(* One open row moves on, perhaps with the receipt of the failure that     *)
(* sends it back to the queue.                                             *)
RowMoves(t, row, done) ==
  /\ target' = [target EXCEPT ![t] = row]
  /\ target[t].status \in {"pending", "running"}
  /\ row.attempt = target[t].attempt
  /\ PgRowInv(execution[ExecutionOf[t]].status, row, issued[t])
  /\ row.status = "running" => target[t].status = "running" /\ row.lease = target[t].lease
  /\ \A x \in done : /\ x.target = t /\ x.lease = target[t].lease
                     /\ x.outcome = "fail" /\ target[t].status = "running"
                     /\ row.status # "running"
  /\ \A x, y \in done : x = y
  /\ receipts' = receipts \cup done /\ acked' = acked \cup done
  /\ UNCHANGED <<execution, cancelling, issued, restarts>>

(* A row another transaction has locked only changes its flags.            *)
WaitsForLocks(t, row) ==
  /\ conn' \in [Connections -> Transaction]
  /\ \A d \in Connections :
       \/ conn'[d] = Idle
       \/ /\ conn'[d] = conn[d]
          /\ t \in DOMAIN conn[d].rows =>
               /\ row.status = target[t].status
               /\ row.lease = target[t].lease
               /\ target[t].lapsed => row.lapsed

(* Such a step keeps the invariant.                                        *)
LEMMA OneRowMoves ==
  ASSUME PgInv, NEW t \in Targets, NEW row \in TargetRow, NEW done \in SUBSET Result,
         RowMoves(t, row, done), WaitsForLocks(t, row),
         sweep' \in [phase : {"idle", "organisations", "rows"}, rows : SUBSET (Targets \X Nat)],
         sweep'.rows \subseteq sweep.rows,
         renewals' \in [Targets -> Nat]
  PROVE  PgInv'
<1> USE DEF RowMoves, WaitsForLocks
<1>0. /\ target \in [Targets -> TargetRow] /\ target' \in [Targets -> TargetRow]
      /\ target'[t] = row
      /\ \A u \in Targets : u # t => target'[u] = target[u]
      /\ \A u \in Targets : target[u].attempt \in Nat
      /\ \A u \in Targets : target'[u].attempt = target[u].attempt
      /\ ExecutionOf[t] \in Executions
  BY ConstantsAssumption DEF PgInv, PgTyped, TypeOK, TargetRow
<1>1. TypeOK'
  BY <1>0 DEF PgInv, PgTyped, TypeOK
<1>2. PgTablesOK'
  <2>1. \A u \in Targets : PgRowInv(execution[ExecutionOf[u]].status, target'[u], issued[u])
    BY <1>0 DEF PgInv, PgTablesOK
  <2>2. ASSUME NEW e \in Executions, execution[e].status = "failed"
        PROVE  DeadLettered(target', e) # {}
    <3>1. PICK u \in TargetsOf(e) : target[u].status = "dead_letter"
      BY <2>2 DEF PgInv, PgTablesOK, DeadLettered
    <3>2. target'[u] = target[u]
      BY <1>0, <3>1 DEF TargetsOf
    <3> QED
      BY <3>1, <3>2 DEF DeadLettered
  <2> QED
    BY <2>1, <2>2 DEF PgTablesOK, DeadLettered
<1>3. PgReceiptsOK'
  <2>0. PgRowInv(execution[ExecutionOf[t]].status, target[t], issued[t]) /\ issued[t] \in Nat
    BY DEF PgInv, PgTablesOK, PgTyped, TypeOK
  <2>1. ASSUME NEW x \in receipts
        PROVE  /\ x.lease \in 1 .. issued'[x.target]
               /\ target'[x.target].status = "running" => target'[x.target].lease # x.lease
               /\ x.outcome = "ok" /\ execution'[ExecutionOf[x.target]].status # "cancelled" =>
                    target'[x.target].status = "succeeded" /\ target'[x.target].lease = x.lease
    <3>1. /\ x.target \in Targets
          /\ x.lease \in 1 .. issued[x.target]
          /\ target[x.target].status = "running" => target[x.target].lease # x.lease
          /\ x.outcome = "ok" /\ execution[ExecutionOf[x.target]].status # "cancelled" =>
               target[x.target].status = "succeeded" /\ target[x.target].lease = x.lease
      BY DEF PgInv, PgReceiptsOK, PgTyped, TypeOK, Result
    <3> QED
      BY <1>0, <3>1
  <2>2. ASSUME NEW x \in done
        PROVE  /\ x.lease \in 1 .. issued'[x.target]
               /\ target'[x.target].status = "running" => target'[x.target].lease # x.lease
               /\ x.outcome # "ok"
    <3>1. x.lease = issued[t] /\ issued[t] > 0 /\ x.target = t
      BY <2>0 DEF PgRowInv
    <3> QED
      BY <1>0, <2>0, <3>1
  <2>3. ASSUME NEW x \in receipts \cup done, NEW y \in receipts \cup done,
               x.target = y.target, x.lease = y.lease
        PROVE  x = y
    <3>1. \A z \in receipts : target[z.target].status = "running" => target[z.target].lease # z.lease
      BY DEF PgInv, PgReceiptsOK
    <3>2. CASE x \in receipts /\ y \in receipts
      BY <2>3, <3>2 DEF PgInv, PgReceiptsOK
    <3>3. CASE x \in done /\ y \in done
      BY <3>3
    <3>4. CASE x \in receipts /\ y \in done
      BY <2>3, <3>1, <3>4
    <3>5. CASE x \in done /\ y \in receipts
      BY <2>3, <3>1, <3>5
    <3> QED
      BY <3>2, <3>3, <3>4, <3>5
  <2>4. ASSUME NEW x \in receipts \cup done
        PROVE  /\ x.lease \in 1 .. issued'[x.target]
               /\ target'[x.target].status = "running" => target'[x.target].lease # x.lease
               /\ x.outcome = "ok" /\ execution'[ExecutionOf[x.target]].status # "cancelled" =>
                    target'[x.target].status = "succeeded" /\ target'[x.target].lease = x.lease
    BY <2>1, <2>2
  <2> QED
    BY <2>3, <2>4 DEF PgReceiptsOK
<1>4. Onward
  BY <1>0 DEF Onward, Settled
<1>5. /\ acked' \subseteq receipts'
      /\ \A e \in cancelling' : execution'[e].status = "cancelled"
  BY DEF PgInv
<1>6. \A r \in sweep'.rows : r[2] <= target'[r[1]].attempt
  <2> SUFFICES ASSUME NEW r \in sweep.rows PROVE r[2] <= target'[r[1]].attempt
    OBVIOUS
  <2>1. r \in Targets \X Nat /\ r[2] <= target[r[1]].attempt
    BY DEF PgInv, PgTyped, TypeOK
  <2> QED
    BY <1>0, <2>1
<1>7. \A d \in Connections : conn'[d] = Idle \/ (conn'[d] = conn[d] /\ Spares(conn[d]))
  <2> SUFFICES ASSUME NEW d \in Connections, conn'[d] = conn[d],
                      t \in DOMAIN conn[d].rows =>
                        /\ row.status = target[t].status
                        /\ row.lease = target[t].lease
                        /\ target[t].lapsed => row.lapsed
               PROVE  Spares(conn[d])
    OBVIOUS
  <2>1. DOMAIN conn[d].rows \subseteq Targets
    BY InHand
  <2> QED
    BY <1>0, <2>1 DEF Spares
<1> QED
  BY <1>1, <1>2, <1>3, <1>4, <1>5, <1>6, <1>7, TablesMove

(* The result of a runner that no longer holds the row, a failure that is  *)
(* tried again, and a result that ends the target.                         *)
LEMMA RecordsAResult ==
  ASSUME PgInv, NEW c \in Connections, RecordResult(c)
  PROVE  PgInv'
<1> DEFINE res == conn[c].result
           row == target[res.target]
<1>0. /\ conn[c].at = "record"
      /\ conn[c] \in [at : {"record", "count", "decide"}, result : Result,
                      rows : SomeTargets, execs : SomeExecutions]
      /\ conn[c] \in Transaction /\ Consistent(conn[c])
      /\ res \in Result /\ res.target \in Targets /\ res.outcome \in Outcomes
      /\ TargetFree(c, res.target)
      /\ UNCHANGED <<execution, sweep, cancelling, issued, renewals, restarts>>
      /\ row \in TargetRow /\ MaxAttempts \in Nat
      /\ PgRowInv(execution[ExecutionOf[res.target]].status, row, issued[res.target])
  BY InHand, ConstantsAssumption
  DEF RecordResult, Transaction, Result, PgInv, PgTyped, TypeOK, PgTablesOK, ConstantsAssumption
<1>1. CASE Rollback(c) /\ UNCHANGED <<target, receipts, acked>>
  BY <1>0, <1>1, RollsBack DEF vars
<1>2. CASE /\ Holds(res.runner, res.target, res.lease)
           /\ res.outcome = "fail" /\ row.attempt < MaxAttempts
           /\ target' = [target EXCEPT ![res.target] = RetriedRow(row)]
           /\ Acknowledge(res) /\ Rollback(c)
  <2>1. /\ row.status = "running" /\ row.lease = res.lease
    BY <1>2 DEF Holds
  <2>2. /\ RetriedRow(row) \in TargetRow /\ RetriedRow(row).status = "pending"
        /\ RetriedRow(row).attempt = row.attempt
    BY <1>0, ResultRowType
  <2>3. PgRowInv(execution[ExecutionOf[res.target]].status, RetriedRow(row), issued[res.target])
    BY <1>0, <2>1, <2>2 DEF PgRowInv, Settled
  <2>4. /\ conn' \in [Connections -> Transaction] /\ conn'[c] = Idle
        /\ \A d \in Connections \ {c} : conn'[d] = conn[d] /\ res.target \notin DOMAIN conn[d].rows
    BY <1>0, <1>2, IdleHoldsNothing, InHand DEF Rollback, TargetFree
  <2>5. /\ receipts' = receipts \cup {res} /\ acked' = acked \cup {res}
        /\ {res} \in SUBSET Result
        /\ \A x \in {res} : /\ x.target = res.target /\ x.lease = row.lease
                            /\ x.outcome = "fail" /\ row.status = "running"
                            /\ RetriedRow(row).status # "running"
        /\ \A x, y \in {res} : x = y
    BY <1>0, <1>2, <2>1, <2>2 DEF Acknowledge
  <2>6. /\ sweep' \in [phase : {"idle", "organisations", "rows"}, rows : SUBSET (Targets \X Nat)]
        /\ sweep'.rows \subseteq sweep.rows
        /\ renewals' \in [Targets -> Nat]
        /\ UNCHANGED <<execution, cancelling, issued, restarts>>
    BY <1>0 DEF PgInv, PgTyped, TypeOK
  <2>7. /\ target' = [target EXCEPT ![res.target] = RetriedRow(row)]
        /\ target[res.target].status \in {"pending", "running"}
        /\ RetriedRow(row).attempt = target[res.target].attempt
        /\ RetriedRow(row).status # "running"
        /\ \A d \in Connections : \/ conn'[d] = Idle
                                  \/ conn'[d] = conn[d] /\ res.target \notin DOMAIN conn[d].rows
    BY <1>2, <2>1, <2>2, <2>4
  <2> DEFINE t == res.target
             new == RetriedRow(row)
             done == {res}
  <2>8. /\ t \in Targets /\ new \in TargetRow /\ done \in SUBSET Result
        /\ target' = [target EXCEPT ![t] = new]
        /\ target[t].status \in {"pending", "running"}
        /\ new.attempt = target[t].attempt
        /\ PgRowInv(execution[ExecutionOf[t]].status, new, issued[t])
        /\ new.status # "running"
    BY <1>0, <2>2, <2>3, <2>5, <2>7
  <2>9. RowMoves(t, new, done)
    BY <2>5, <2>6, <2>8 DEF RowMoves
  <2>10. WaitsForLocks(t, new)
    BY <2>4, <2>7 DEF WaitsForLocks
  <2> HIDE DEF t, new, done, res
  <2> QED
    BY <2>6, <2>8, <2>9, <2>10, OneRowMoves
<1>3. CASE /\ Holds(res.runner, res.target, res.lease)
           /\ res.outcome = "ok" \/ row.attempt >= MaxAttempts
           /\ conn' = [conn EXCEPT ![c].at = "count",
                ![c].rows = Write(@, res.target, FinishedRow(row, res.outcome))]
           /\ UNCHANGED <<target, receipts, acked>>
  <2> DEFINE t == res.target
             new == FinishedRow(row, res.outcome)
  <2>1. /\ new \in TargetRow
        /\ new.status = IF res.outcome = "ok" THEN "succeeded" ELSE "dead_letter"
        /\ new.attempt = row.attempt /\ new.lease = row.lease
    BY <1>0, ResultRowType
  <2>2. row.status = "running" /\ row.lease = res.lease
    BY <1>3 DEF Holds
  <2>3. new.status = "dead_letter" => row.attempt = MaxAttempts
    <3>1. row.attempt <= MaxAttempts /\ row.attempt \in Nat
      BY <1>0 DEF PgRowInv, TargetRow
    <3> QED
      BY <1>0, <1>3, <2>1, <3>1, SMTT(30)
  <2> HIDE DEF new
  <2>4. /\ Write(conn[c].rows, t, new) \in SomeTargets
        /\ DOMAIN Write(conn[c].rows, t, new) = DOMAIN conn[c].rows \cup {t}
        /\ Write(conn[c].rows, t, new)[t] = new
        /\ \A u \in DOMAIN conn[c].rows : u # t => Write(conn[c].rows, t, new)[u] = conn[c].rows[u]
    <3>1. conn[c] \in Transaction /\ t \in Targets
      BY <1>0
    <3> HIDE DEF t
    <3> QED
      BY <2>1, <3>1, WriteAddsARow
  <2> DEFINE k == [conn[c] EXCEPT !.at = "count", !.rows = Write(conn[c].rows, t, new)]
  <2>5. conn' = [conn EXCEPT ![c] = k]
    BY <1>0, <1>3 DEF new
  <2>6. /\ k \in Transaction /\ k.at = "count" /\ k.result = res
        /\ k.rows = Write(conn[c].rows, t, new) /\ k.execs = conn[c].execs
    BY <1>0, <2>4 DEF Transaction
  <2> HIDE DEF k
  <2>7. RowsOK(k)
    <3> SUFFICES ASSUME NEW u \in DOMAIN k.rows PROVE Ended(k, u)
      BY DEF RowsOK
    <3>1. CASE u = t
      BY <2>1, <2>2, <2>3, <2>4, <2>6, <3>1 DEF Ended, Settled
    <3>2. CASE u # t
      BY <1>0, <2>4, <2>6, <3>2, SMTT(30) DEF Consistent, RowsOK, Taken, Ended
    <3> QED
      BY <3>1, <3>2
  <2>8. ExecsOK(k)
    <3>1. \A u \in Targets : u # t => Seen(k.rows, u) = Seen(conn[c].rows, u)
      BY <2>4, <2>6 DEF Seen
    <3>2. Seen(conn[c].rows, t).status = "running"
      BY <1>0, <2>2 DEF Seen, Consistent, ResultOK
    <3>3. \A e \in DOMAIN conn[c].execs : t \notin TargetsOf(e)
      BY <1>0, <3>2 DEF Consistent, ExecsOK, Settled
    <3> QED
      BY <1>0, <2>6, <3>1, <3>2, <3>3, SMTT(30) DEF Consistent, ExecsOK, TargetsOf
  <2>9. JobOK(k) /\ ResultOK(k) /\ ExpiredOK(k)
    BY <1>0, <2>1, <2>2, <2>4, <2>6 DEF JobOK, ResultOK, ExpiredOK, Written
  <2>10. UNCHANGED vars /\ \A u \in DOMAIN k.rows : TargetFree(c, u)
    BY <1>0, <1>3, <2>4, <2>6, InHand DEF vars
  <2> QED
    BY <2>5, <2>6, <2>7, <2>8, <2>9, <2>10, InHand, TransactionMoves DEF Consistent
<1> QED
  BY <1>1, <1>2, <1>3 DEF RecordResult

(* A step that leaves the rows alone: a replayed receipt, the SELECTs of   *)
(* the sweep, a restart of the API.                                        *)
LEMMA QuietMoves ==
  ASSUME PgInv, UNCHANGED <<execution, target, receipts, issued, renewals, restarts>>,
         acked' \subseteq receipts,
         sweep' \in [phase : {"idle", "organisations", "rows"}, rows : SUBSET (Targets \X Nat)],
         \A row \in sweep'.rows : row[2] <= target[row[1]].attempt,
         cancelling' \subseteq cancelling,
         conn' = conn \/ conn' = [c \in Connections |-> Idle]
  PROVE  PgInv'
<1>1. TypeOK'
  BY DEF PgInv, PgTyped, TypeOK
<1>2. PgTablesOK' /\ PgReceiptsOK'
  BY DEF PgInv, PgTablesOK, PgReceiptsOK, DeadLettered
<1>3. Onward
  BY DEF Onward, PgInv, PgTyped, TypeOK, TargetRow
<1>4. /\ conn' \in [Connections -> Transaction]
      /\ \A d \in Connections : conn'[d] = Idle \/ (conn'[d] = conn[d] /\ Spares(conn[d]))
  BY IdleHoldsNothing DEF PgInv, PgTyped, Spares
<1> QED
  BY <1>1, <1>2, <1>3, <1>4, TablesMove DEF PgInv

(* An execution appears with its targets. *)
LEMMA CreatesAnExecution ==
  ASSUME PgInv, NEW e \in Executions, CreateExecution(e), UNCHANGED conn
  PROVE  PgInv'
<1>0. PICK now \in 1 .. LastSecond :
        execution' = [execution EXCEPT ![e] = [status |-> "queued", requestedAt |-> now]]
  BY DEF CreateExecution
<1>1. /\ execution[e].status = "absent"
      /\ execution \in [Executions -> ExecutionRow] /\ target \in [Targets -> TargetRow]
      /\ target' = InsertTargets(target, e)
      /\ UNCHANGED <<receipts, sweep, cancelling, issued, acked, renewals, restarts, conn>>
      /\ \A t \in Targets : ExecutionOf[t] \in Executions
      /\ \A t \in Targets : PgRowInv(execution[ExecutionOf[t]].status, target[t], issued[t])
      /\ MaxAttempts \in Nat \ {0} /\ NoRunner \notin Runners
  BY ConstantsAssumption DEF CreateExecution, PgInv, PgTyped, TypeOK, PgTablesOK, ConstantsAssumption
<1>2. /\ execution'[e].status = "queued"
      /\ \A x \in Executions : x # e => execution'[x] = execution[x]
      /\ execution' \in [Executions -> ExecutionRow]
  <2>1. [status |-> "queued", requestedAt |-> now] \in ExecutionRow
    BY BoundsAssumption DEF ExecutionRow, ExecutionStatuses, BoundsAssumption
  <2> QED
    BY <1>0, <1>1, <2>1
<1>3. NewTargetRow \in TargetRow
  BY DEF NewTargetRow, TargetRow, TargetStatuses, NoLease
<1>4. /\ target' \in [Targets -> TargetRow]
      /\ \A t \in Targets : ExecutionOf[t] = e => target'[t] = NewTargetRow
      /\ \A t \in Targets : ExecutionOf[t] # e => target'[t] = target[t]
  BY <1>1, <1>3 DEF InsertTargets, TargetsOf
<1>5. TypeOK'
  BY <1>1, <1>2, <1>4 DEF PgInv, PgTyped, TypeOK
<1>6. \A t \in Targets : ExecutionOf[t] = e =>
        target[t].status = "absent" /\ issued[t] = 0 /\ target[t].attempt = 0
  BY <1>1 DEF PgRowInv
<1>7. PgTablesOK'
  <2>1. ASSUME NEW t \in Targets
        PROVE  PgRowInv(execution'[ExecutionOf[t]].status, target'[t], issued'[t])
    <3>1. CASE ExecutionOf[t] = e
      BY <1>1, <1>2, <1>4, <1>6, <3>1 DEF PgRowInv, NewTargetRow
    <3>2. CASE ExecutionOf[t] # e
      BY <1>1, <1>2, <1>4, <3>2
    <3> QED
      BY <3>1, <3>2
  <2>2. ASSUME NEW x \in Executions, execution'[x].status = "failed"
        PROVE  DeadLettered(target', x) # {}
    <3>1. x # e /\ execution[x].status = "failed"
      BY <1>2, <2>2
    <3>2. PICK t \in TargetsOf(x) : target[t].status = "dead_letter"
      BY <3>1 DEF PgInv, PgTablesOK, DeadLettered
    <3>3. target'[t] = target[t]
      BY <1>4, <3>1, <3>2 DEF TargetsOf
    <3> QED
      BY <3>2, <3>3 DEF DeadLettered
  <2> QED
    BY <2>1, <2>2 DEF PgTablesOK, DeadLettered
<1>8. PgReceiptsOK'
  <2>1. ASSUME NEW x \in receipts
        PROVE  target'[x.target] = target[x.target] /\ ExecutionOf[x.target] # e
               /\ ExecutionOf[x.target] \in Executions
    <3>1. x.target \in Targets /\ x.lease \in 1 .. issued[x.target]
      BY DEF PgInv, PgReceiptsOK, PgTyped, TypeOK, Result
    <3> QED
      BY <1>1, <1>4, <1>6, <3>1
  <2> QED
    BY <1>1, <1>2, <2>1 DEF PgInv, PgReceiptsOK
<1>9. Onward
  <2>1. \A t \in Targets : target[t].attempt \in Nat
    BY <1>1 DEF TargetRow
  <2> QED
    BY <1>4, <1>6, <2>1 DEF Onward, Settled, NewTargetRow
<1>10. \A d \in Connections : Spares(conn[d])
  <2> SUFFICES ASSUME NEW d \in Connections PROVE Spares(conn[d])
    OBVIOUS
  <2>1. /\ Consistent(conn[d]) /\ DOMAIN conn[d].rows \subseteq Targets
        /\ DOMAIN conn[d].execs \subseteq Executions
    BY InHand
  <2>2. \A t \in DOMAIN conn[d].rows : target'[t] = target[t]
    BY <1>4, <1>6, <2>1 DEF Consistent, RowsOK, Taken, Ended
  <2>3. \A x \in DOMAIN conn[d].execs : execution'[x] = execution[x]
    BY <1>1, <1>2, <2>1 DEF Consistent, ExecsOK, Active
  <2> QED
    BY <1>1, <2>2, <2>3 DEF Spares
<1>11. /\ \A row \in sweep'.rows : row[2] <= target'[row[1]].attempt
       /\ \A x \in cancelling' : execution'[x].status = "cancelled"
       /\ acked' \subseteq receipts'
  <2>1. ASSUME NEW row \in sweep.rows PROVE row[2] <= target'[row[1]].attempt
    <3>1. row \in Targets \X Nat /\ row[2] <= target[row[1]].attempt
      BY DEF PgInv, PgTyped, TypeOK
    <3> QED
      BY <1>4, <1>6, <3>1 DEF NewTargetRow
  <2> QED
    BY <1>1, <1>2, <2>1 DEF PgInv, PgTyped, TypeOK
<1>12. conn' \in [Connections -> Transaction] /\ conn' = conn
  BY <1>1, InHand DEF PgInv, PgTyped
<1> QED
  BY <1>5, <1>7, <1>8, <1>9, <1>10, <1>11, <1>12, TablesMove

(* The two UPDATEs of a cancellation. *)
LEMMA CancelsAnExecution ==
  ASSUME PgInv, NEW e \in Executions, PgCancelExecution(e)
  PROVE  PgInv'
<1>1. /\ execution[e].status = "queued"
      /\ execution' = [execution EXCEPT ![e].status = "cancelled"]
      /\ cancelling' = cancelling \cup {e}
      /\ ExecutionUnlocked(e)
      /\ UNCHANGED <<target, receipts, sweep, issued, acked, renewals, restarts, conn>>
      /\ execution \in [Executions -> ExecutionRow]
      /\ \A t \in Targets : ExecutionOf[t] \in Executions
  BY ConstantsAssumption
  DEF PgCancelExecution, CancelExecution, PgInv, PgTyped, TypeOK, ConstantsAssumption
<1>2. /\ execution'[e].status = "cancelled"
      /\ \A x \in Executions : x # e => execution'[x] = execution[x]
      /\ execution' \in [Executions -> ExecutionRow]
  BY <1>1 DEF ExecutionRow, ExecutionStatuses
<1>3. TypeOK'
  BY <1>1, <1>2 DEF PgInv, PgTyped, TypeOK
<1>4. PgTablesOK'
  <2>1. ASSUME NEW t \in Targets
        PROVE  PgRowInv(execution'[ExecutionOf[t]].status, target[t], issued[t])
    <3>1. PgRowInv(execution[ExecutionOf[t]].status, target[t], issued[t])
      BY DEF PgInv, PgTablesOK
    <3>2. CASE ExecutionOf[t] = e
      BY <1>1, <1>2, <3>1, <3>2 DEF PgRowInv
    <3>3. CASE ExecutionOf[t] # e
      BY <1>1, <1>2, <3>1, <3>3
    <3> QED
      BY <3>2, <3>3
  <2>2. \A x \in Executions : execution'[x].status = "failed" => DeadLettered(target, x) # {}
    BY <1>2 DEF PgInv, PgTablesOK
  <2> QED
    BY <1>1, <2>1, <2>2 DEF PgTablesOK, DeadLettered
<1>5. PgReceiptsOK'
  BY <1>1, <1>2 DEF PgInv, PgReceiptsOK, PgTyped, TypeOK, Result
<1>6. Onward
  BY <1>1 DEF Onward, PgInv, PgTyped, TypeOK, TargetRow
<1>7. \A d \in Connections : Spares(conn[d])
  BY <1>1, <1>2, InHand DEF Spares, ExecutionUnlocked
<1>8. /\ \A row \in sweep'.rows : row[2] <= target'[row[1]].attempt
      /\ \A x \in cancelling' : execution'[x].status = "cancelled"
      /\ acked' \subseteq receipts'
  BY <1>1, <1>2 DEF PgInv, PgTyped, TypeOK
<1>9. conn' \in [Connections -> Transaction] /\ conn' = conn
  BY <1>1, InHand DEF PgInv, PgTyped
<1> QED
  BY <1>3, <1>4, <1>5, <1>6, <1>7, <1>8, <1>9, TablesMove

\* The second half of a cancellation: the rows still pending are cancelled.
LEMMA CancelsTheTargets ==
  ASSUME PgInv, NEW e \in Executions, PgCancelTargets(e)
  PROVE  PgInv'
<1>1. /\ execution[e].status = "cancelled"
      /\ target' = CancelRows(target, e)
      /\ cancelling' = cancelling \ {e}
      /\ \A t \in TargetsOf(e) : TargetUnlocked(t)
      /\ UNCHANGED <<execution, receipts, sweep, issued, acked, renewals, restarts, conn>>
      /\ target \in [Targets -> TargetRow]
  BY DEF PgCancelTargets, CancelTargets, PgInv, PgTyped, TypeOK
<1>2. ASSUME NEW t \in Targets
      PROVE  /\ target'[t] \in TargetRow
             /\ target'[t].attempt = target[t].attempt /\ target[t].attempt \in Nat
             /\ ExecutionOf[t] = e => target'[t].status = "cancelled"
             /\ ExecutionOf[t] # e => target'[t] = target[t]
  BY <1>1 DEF CancelRows, TargetsOf, TargetRow, TargetStatuses
<1>3. target' \in [Targets -> TargetRow]
  <2>1. target' = [t \in Targets |-> target'[t]]
    BY <1>1 DEF CancelRows
  <2> QED
    BY <1>2, <2>1
<1>4. TypeOK'
  BY <1>1, <1>3 DEF PgInv, PgTyped, TypeOK
<1>5. PgTablesOK'
  <2>1. ASSUME NEW t \in Targets
        PROVE  PgRowInv(execution[ExecutionOf[t]].status, target'[t], issued[t])
    BY <1>1, <1>2 DEF PgInv, PgTablesOK, PgRowInv
  <2>2. ASSUME NEW x \in Executions, execution[x].status = "failed"
        PROVE  DeadLettered(target', x) # {}
    <3>1. PICK t \in TargetsOf(x) : target[t].status = "dead_letter"
      BY <2>2 DEF PgInv, PgTablesOK, DeadLettered
    <3>2. target'[t] = target[t]
      BY <1>1, <1>2, <2>2, <3>1 DEF TargetsOf
    <3> QED
      BY <3>1, <3>2 DEF DeadLettered
  <2> QED
    BY <1>1, <2>1, <2>2 DEF PgTablesOK, DeadLettered
<1>6. PgReceiptsOK'
  <2>1. \A x \in receipts : x.target \in Targets
    BY DEF PgInv, PgTyped, TypeOK, Result
  <2> QED
    BY <1>1, <1>2, <2>1 DEF PgInv, PgReceiptsOK
<1>7. Onward
  BY <1>1, <1>2 DEF Onward, Settled, Active
<1>8. \A d \in Connections : Spares(conn[d])
  BY <1>1, <1>2, InHand DEF Spares, TargetUnlocked, TargetsOf
<1>9. /\ \A row \in sweep'.rows : row[2] <= target'[row[1]].attempt
      /\ \A x \in cancelling' : execution'[x].status = "cancelled"
      /\ acked' \subseteq receipts'
  <2>1. ASSUME NEW row \in sweep.rows PROVE row[2] <= target'[row[1]].attempt
    <3>1. row \in Targets \X Nat /\ row[2] <= target[row[1]].attempt
      BY DEF PgInv, PgTyped, TypeOK
    <3> QED
      BY <1>2, <3>1
  <2> QED
    BY <1>1, <2>1 DEF PgInv
<1>10. conn' \in [Connections -> Transaction] /\ conn' = conn
  BY <1>1, InHand DEF PgInv, PgTyped
<1> QED
  BY <1>4, <1>5, <1>6, <1>7, <1>8, <1>9, <1>10, TablesMove

(* A renewal, a lease that lapses, a backoff that elapses: one flag of one *)
(* open row.                                                               *)
LEMMA FlagMoves ==
  ASSUME PgInv, NEW t \in Targets, NEW row \in TargetRow,
         target' = [target EXCEPT ![t] = row],
         target[t].status \in {"pending", "running"},
         /\ row.status = target[t].status /\ row.attempt = target[t].attempt
         /\ row.lease = target[t].lease /\ row.runner = target[t].runner,
         TargetUnlocked(t) \/ (target[t].lapsed => row.lapsed),
         UNCHANGED <<execution, receipts, sweep, cancelling, issued, acked, renewals, restarts, conn>>
  PROVE  PgInv'
<1>1. PgRowInv(execution[ExecutionOf[t]].status, row, issued[t])
  <2>1. PgRowInv(execution[ExecutionOf[t]].status, target[t], issued[t])
    BY DEF PgInv, PgTablesOK
  <2> QED
    BY <2>1 DEF PgRowInv
<1>2. RowMoves(t, row, {})
  BY <1>1 DEF RowMoves
<1>3. WaitsForLocks(t, row)
  BY InHand DEF WaitsForLocks, TargetUnlocked, PgInv, PgTyped
<1>4. /\ sweep' \in [phase : {"idle", "organisations", "rows"}, rows : SUBSET (Targets \X Nat)]
      /\ sweep'.rows \subseteq sweep.rows /\ renewals' \in [Targets -> Nat]
      /\ {} \in SUBSET Result
  BY DEF PgInv, PgTyped, TypeOK
<1> QED
  BY <1>2, <1>3, <1>4, OneRowMoves

\* A renewal of the lease that the runner holds.
LEMMA RenewsTheLease ==
  ASSUME PgInv, NEW r \in Runners, NEW t \in Targets, PgRenewLease(r, t)
  PROVE  PgInv'
<1> DEFINE row == [target[t] EXCEPT !.lapsed = FALSE]
<1>1. target[t] \in TargetRow
  BY DEF PgInv, PgTyped, TypeOK
<1>2. /\ row \in TargetRow
      /\ row.status = target[t].status /\ row.attempt = target[t].attempt
      /\ row.lease = target[t].lease /\ row.runner = target[t].runner
  BY <1>1 DEF TargetRow
<1>3. target' = [target EXCEPT ![t] = row]
  BY DEF PgRenewLease
<1> HIDE DEF row
<1> QED
  BY <1>2, <1>3, FlagMoves DEF PgRenewLease, Holds

\* The clock, as on SQLite.
LEMMA TimeMoves ==
  ASSUME PgInv, Clock, UNCHANGED conn
  PROVE  PgInv'
<1>1. PICK t \in Targets : LeaseLapses(t) \/ BackoffElapses(t)
  BY DEF Clock
<1>2. target[t] \in TargetRow
  BY DEF PgInv, PgTyped, TypeOK
<1>3. CASE LeaseLapses(t)
  <2> DEFINE row == [target[t] EXCEPT !.lapsed = TRUE]
  <2>1. /\ row \in TargetRow /\ row.lapsed
        /\ row.status = target[t].status /\ row.attempt = target[t].attempt
        /\ row.lease = target[t].lease /\ row.runner = target[t].runner
    BY <1>2 DEF TargetRow
  <2>2. target' = [target EXCEPT ![t] = row]
    BY <1>3 DEF LeaseLapses
  <2> HIDE DEF row
  <2> QED
    BY <1>3, <2>1, <2>2, FlagMoves DEF LeaseLapses
<1>4. CASE BackoffElapses(t)
  <2> DEFINE row == [target[t] EXCEPT !.due = TRUE]
  <2>1. /\ row \in TargetRow /\ row.lapsed = target[t].lapsed
        /\ row.status = target[t].status /\ row.attempt = target[t].attempt
        /\ row.lease = target[t].lease /\ row.runner = target[t].runner
    BY <1>2 DEF TargetRow
  <2>2. target' = [target EXCEPT ![t] = row]
    BY <1>4 DEF BackoffElapses
  <2> HIDE DEF row
  <2> QED
    BY <1>4, <2>1, <2>2, FlagMoves DEF BackoffElapses
<1> QED
  BY <1>1, <1>3, <1>4

(* The background sweep, statement by statement. *)
LEMMA SweepMoves ==
  ASSUME PgInv, PgSweep
  PROVE  PgInv'
<1>0. /\ sweep \in [phase : {"idle", "organisations", "rows"}, rows : SUBSET (Targets \X Nat)]
      /\ renewals \in [Targets -> Nat]
      /\ \A row \in sweep.rows : row[2] <= target[row[1]].attempt
      /\ acked \subseteq receipts
  BY DEF PgInv, PgTyped, TypeOK
<1>1. CASE SweepOrganisations /\ UNCHANGED conn
  BY <1>0, <1>1, QuietMoves DEF SweepOrganisations, tables
<1>2. CASE SweepSelect /\ UNCHANGED conn
  <2> DEFINE rows == {<<t, target[t].attempt>> : t \in ExpiredRows(execution, target)}
  <2>1. /\ rows \subseteq Targets \X Nat
        /\ \A row \in rows : row[2] <= target[row[1]].attempt
    BY DEF ExpiredRows, PgInv, PgTyped, TypeOK, TargetRow
  <2>2. /\ sweep' = [phase |-> "rows", rows |-> rows]
        /\ UNCHANGED <<execution, target, receipts, cancelling, issued, acked, renewals, restarts, conn>>
    BY <1>2 DEF SweepSelect, tables
  <2> HIDE DEF rows
  <2> QED
    BY <1>0, <2>1, <2>2, QuietMoves
<1>3. ASSUME NEW seen \in sweep.rows, PgSweepRow(seen) PROVE PgInv'
  <2> DEFINE t == seen[1]
             row == ReclaimedRow(target[t], seen[2])
  <2>1. /\ seen \in Targets \X Nat /\ t \in Targets /\ seen[2] \in Nat
        /\ seen[2] <= target[t].attempt
        /\ target[t] \in TargetRow
        /\ PgRowInv(execution[ExecutionOf[t]].status, target[t], issued[t])
        /\ MaxAttempts \in Nat
    BY <1>0, ConstantsAssumption DEF PgInv, PgTyped, TypeOK, PgTablesOK, ConstantsAssumption
  <2>2. /\ target' = Reclaim(target, t, seen[2])
        /\ TargetUnlocked(t)
        /\ sweep' = [sweep EXCEPT !.rows = @ \ {seen}]
        /\ UNCHANGED <<execution, receipts, cancelling, issued, acked, renewals, restarts, conn>>
    BY <1>3 DEF PgSweepRow, SweepRow
  <2>3. /\ sweep' \in [phase : {"idle", "organisations", "rows"}, rows : SUBSET (Targets \X Nat)]
        /\ sweep'.rows \subseteq sweep.rows
    BY <1>0, <2>2
  <2>4. CASE target[t].status # "running"
    <3>1. target' = target
      BY <2>1, <2>2, <2>4 DEF Reclaim, PgInv, PgTyped, TypeOK
    <3> QED
      BY <1>0, <2>2, <2>3, <3>1, QuietMoves
  <2>5. CASE target[t].status = "running"
    <3>1. /\ row \in TargetRow /\ row.attempt = target[t].attempt
          /\ row.status = IF seen[2] >= MaxAttempts THEN "dead_letter" ELSE "pending"
      BY <2>1, ReclaimedRowType
    <3>2. target' = [target EXCEPT ![t] = row]
      BY <2>1, <2>2, <2>5 DEF Reclaim
    <3> HIDE DEF row
    <3>3. PgRowInv(execution[ExecutionOf[t]].status, row, issued[t])
      <4>1. row.status = "dead_letter" => issued[t] = MaxAttempts
        BY <2>1, <3>1 DEF PgRowInv, TargetRow
      <4> QED
        BY <2>1, <2>5, <3>1, <4>1 DEF PgRowInv, Settled
    <3>4. RowMoves(t, row, {})
      BY <2>2, <2>5, <3>1, <3>2, <3>3 DEF RowMoves
    <3>5. WaitsForLocks(t, row)
      BY <2>2, InHand DEF WaitsForLocks, TargetUnlocked, PgInv, PgTyped
    <3>6. renewals' \in [Targets -> Nat] /\ {} \in SUBSET Result
      BY <1>0, <2>2
    <3> HIDE DEF t
    <3> QED
      BY <2>1, <2>3, <3>1, <3>4, <3>5, <3>6, OneRowMoves
  <2> QED
    BY <2>4, <2>5
<1>4. CASE PgSweepFinalize
  <2> DEFINE new == FinalizeReconciled(execution, target)
  <2>1. /\ execution' = new /\ sweep' = NoSweep
        /\ \A e \in Executions : execution'[e] # execution[e] => ExecutionUnlocked(e)
        /\ UNCHANGED <<target, receipts, cancelling, issued, acked, renewals, restarts, conn>>
        /\ execution \in [Executions -> ExecutionRow] /\ target \in [Targets -> TargetRow]
        /\ \A t \in Targets : ExecutionOf[t] \in Executions /\ t \in TargetsOf(ExecutionOf[t])
    BY <1>4, ConstantsAssumption
    DEF PgSweepFinalize, SweepFinalize, PgInv, PgTyped, TypeOK, ConstantsAssumption, TargetsOf
  <2>2. ASSUME NEW e \in Executions
        PROVE  /\ new[e] \in ExecutionRow
               /\ \/ new[e] = execution[e]
                  \/ /\ execution[e].status \in Active /\ new[e].status = "failed"
                     /\ Open(target, e) = {} /\ DeadLettered(target, e) # {}
    BY <2>1 DEF FinalizeReconciled, ExecutionRow, ExecutionStatuses
  <2>3. execution' \in [Executions -> ExecutionRow]
    <3>1. new = [e \in Executions |-> new[e]]
      BY DEF FinalizeReconciled
    <3> QED
      BY <2>1, <2>2, <3>1
  <2> HIDE DEF new
  <2>4. TypeOK'
    BY <1>0, <2>1, <2>3 DEF PgInv, PgTyped, TypeOK, NoSweep
  <2>5. ASSUME NEW t \in Targets
        PROVE  PgRowInv(new[ExecutionOf[t]].status, target[t], issued[t])
    <3>1. PgRowInv(execution[ExecutionOf[t]].status, target[t], issued[t])
      BY DEF PgInv, PgTablesOK
    <3>2. CASE new[ExecutionOf[t]] = execution[ExecutionOf[t]]
      BY <3>1, <3>2
    <3>3. CASE new[ExecutionOf[t]] # execution[ExecutionOf[t]]
      <4>1. /\ execution[ExecutionOf[t]].status \in Active
            /\ new[ExecutionOf[t]].status = "failed"
            /\ target[t].status \notin {"pending", "running"}
        BY <2>1, <2>2, <3>3 DEF Open
      <4> QED
        BY <3>1, <4>1 DEF PgRowInv, Active, Settled
    <3> QED
      BY <3>2, <3>3
  <2>6. PgTablesOK'
    <3>1. \A e \in Executions : new[e].status = "failed" => DeadLettered(target, e) # {}
      BY <2>2 DEF PgInv, PgTablesOK
    <3> QED
      BY <2>1, <2>5, <3>1 DEF PgTablesOK, DeadLettered
  <2>7. PgReceiptsOK'
    <3>1. ASSUME NEW x \in receipts, new[ExecutionOf[x.target]].status # "cancelled"
          PROVE  execution[ExecutionOf[x.target]].status # "cancelled"
      <4>1. x.target \in Targets
        BY DEF PgInv, PgTyped, TypeOK, Result
      <4> QED
        BY <2>1, <2>2, <3>1, <4>1 DEF Active
    <3> QED
      BY <2>1, <3>1 DEF PgInv, PgReceiptsOK
  <2>8. Onward
    BY <2>1 DEF Onward, TargetRow
  <2>9. \A d \in Connections : Spares(conn[d])
    BY <2>1, InHand DEF Spares, ExecutionUnlocked
  <2>10. \A e \in cancelling' : execution'[e].status = "cancelled"
    BY <2>1, <2>2 DEF PgInv, PgTyped, TypeOK, Active
  <2>11. /\ \A row \in sweep'.rows : row[2] <= target'[row[1]].attempt
         /\ acked' \subseteq receipts'
         /\ conn' \in [Connections -> Transaction] /\ conn' = conn
    BY <1>0, <2>1, InHand DEF NoSweep, PgInv, PgTyped
  <2> QED
    BY <2>4, <2>6, <2>7, <2>8, <2>9, <2>10, <2>11, TablesMove
<1> QED
  BY <1>1, <1>2, <1>3, <1>4 DEF PgSweep

(***************************************************************************)
(* The invariant.                                                          *)
(***************************************************************************)
LEMMA PgInitOK == PgInit => PgInv
<1> SUFFICES ASSUME PgInit PROVE PgInv
  OBVIOUS
<1>1. [status |-> "absent", requestedAt |-> 0] \in ExecutionRow
  BY DEF ExecutionRow, ExecutionStatuses
<1>2. /\ AbsentTargetRow \in TargetRow /\ AbsentTargetRow.status = "absent"
      /\ AbsentTargetRow.attempt = 0
  BY DEF AbsentTargetRow, NewTargetRow, TargetRow, TargetStatuses, NoLease
<1>3. \A t \in Targets : ExecutionOf[t] \in Executions
  BY ConstantsAssumption DEF ConstantsAssumption
<1>4. TypeOK
  BY <1>1, <1>2 DEF PgInit, Init, TypeOK, NoSweep
<1>5. PgTyped /\ \A c \in Connections : conn[c] = Idle
  BY <1>4, IdleHoldsNothing DEF PgInit, PgTyped
<1>6. PgTablesOK
  BY <1>1, <1>2, <1>3, ConstantsAssumption
  DEF PgInit, Init, PgTablesOK, PgRowInv, ConstantsAssumption
<1>7. /\ PgReceiptsOK /\ acked \subseteq receipts
      /\ \A row \in sweep.rows : row[2] <= target[row[1]].attempt
      /\ \A e \in cancelling : execution[e].status = "cancelled"
  BY DEF PgInit, Init, PgReceiptsOK, NoSweep
<1>8. LocksOK /\ \A c \in Connections : Consistent(conn[c])
  BY <1>5, IdleHoldsNothing DEF LocksOK
<1> QED
  BY <1>5, <1>6, <1>7, <1>8 DEF PgInv

\* Every step of connections, users, runners and the clock keeps the invariant.
LEMMA PgNextOK == PgInv /\ [PgNext]_pgvars => PgInv'
<1> SUFFICES ASSUME PgInv, [PgNext]_pgvars PROVE PgInv'
  OBVIOUS
<1>0. /\ sweep \in [phase : {"idle", "organisations", "rows"}, rows : SUBSET (Targets \X Nat)]
      /\ \A row \in sweep.rows : row[2] <= target[row[1]].attempt
      /\ acked \subseteq receipts
  BY DEF PgInv, PgTyped, TypeOK
<1>1. CASE UNCHANGED pgvars
  BY <1>0, <1>1, QuietMoves DEF pgvars, vars
<1>2. CASE PgUsers
  BY <1>2, CreatesAnExecution, CancelsAnExecution, CancelsTheTargets DEF PgUsers
<1>3. CASE PgClaims
  BY <1>3, BeginsReconciling, ReclaimsARow, FinalizesItsRows, SelectsAJob, TakesTheJob,
     StartsTheExecution DEF PgClaims
<1>4. ASSUME NEW res \in PossibleResults, ReplayReceipt(res),
             UNCHANGED <<sweep, cancelling, issued, renewals, restarts, conn>>
      PROVE  PgInv'
  BY <1>0, <1>4, QuietMoves DEF ReplayReceipt, ReceiptsFor
<1>5. CASE PgResults
  BY <1>4, <1>5, BeginsAResult, RecordsAResult, CountsTheOpen, DecidesTheExecution DEF PgResults
<1>6. CASE \E r \in Runners, t \in Targets : PgRenewLease(r, t)
  BY <1>6, RenewsTheLease
<1>7. CASE PgSweep
  BY <1>7, SweepMoves
<1>8. ASSUME NEW c \in Connections, Commit(c) \/ Abort(c) PROVE PgInv'
  BY <1>8, CommitsItsRows, RollsBack DEF Abort
<1>9. CASE PgRestart
  BY <1>0, <1>9, QuietMoves DEF PgRestart, tables, NoSweep
<1>10. CASE Clock /\ UNCHANGED conn
  BY <1>10, TimeMoves
<1> QED
  BY <1>1, <1>2, <1>3, <1>5, <1>6, <1>7, <1>8, <1>9, <1>10 DEF PgNext

(* What the tables keep and what each transaction has in hand, however     *)
(* many connections run transactions at once.                              *)
THEOREM PgInvariant == PgSpec => []PgInv
<1> QED
  BY PgInitOK, PgNextOK, PTL DEF PgSpec

(***************************************************************************)
(* What follows from it.                                                   *)
(***************************************************************************)
(* No row ever has two uncommitted versions: the UPDATEs wait for each     *)
(* other, whichever way the transactions interleave.                       *)
THEOREM PgTypeCorrect == PgSpec => []PgTypeOK
<1>1. PgInv => PgTypeOK
  <2> SUFFICES ASSUME PgInv PROVE PgTypeOK
    OBVIOUS
  <2>1. TypeOK
    BY DEF PgInv, PgTyped
  <2>2. ASSUME NEW c \in Connections
        PROVE  /\ \A t \in DOMAIN conn[c].rows : conn[c].rows[t] \in TargetRow /\ TargetFree(c, t)
               /\ \A e \in DOMAIN conn[c].execs :
                    conn[c].execs[e] \in ExecutionRow /\ ExecutionFree(c, e)
    BY InHand, Written_Rows
  <2> QED
    BY <2>1, <2>2 DEF PgTypeOK
<1> QED
  BY <1>1, PgInvariant, PTL

(* max_attempts bounds what reaches a server also when two claims have     *)
(* selected the same row.                                                  *)
THEOREM PgDispatchBound == PgSpec => []DispatchesAreBounded
<1>1. PgInv => DispatchesAreBounded
  BY DEF PgInv, PgTablesOK, PgRowInv, DispatchesAreBounded
<1> QED
  BY <1>1, PgInvariant, PTL

(* Two runners never hold one target. *)
THEOREM PgOneHolder == PgSpec => []HolderIsNewest
<1>1. PgInv => HolderIsNewest
  BY DEF PgInv, PgTablesOK, PgRowInv, HolderIsNewest
<1> QED
  BY <1>1, PgInvariant, PTL

(* A final status agrees with the targets, although the transaction that   *)
(* decides it counted rows others were about to change.                    *)
THEOREM PgVerdictIsRight == PgSpec => []VerdictMatchesTargets
<1>1. PgInv => VerdictMatchesTargets
  <2> SUFFICES ASSUME PgInv, NEW e \in Executions
               PROVE  /\ execution[e].status = "succeeded" =>
                           \A t \in TargetsOf(e) : target[t].status = "succeeded"
                      /\ execution[e].status = "failed" =>
                           Open(target, e) = {} /\ DeadLettered(target, e) # {}
    BY DEF VerdictMatchesTargets
  <2>1. \A t \in TargetsOf(e) : PgRowInv(execution[e].status, target[t], issued[t])
    BY DEF PgInv, PgTablesOK, TargetsOf
  <2> QED
    BY <2>1 DEF PgInv, PgTablesOK, PgRowInv, Open, Settled
<1> QED
  BY <1>1, PgInvariant, PTL

(* A recorded success stays, unless its execution was cancelled under a    *)
(* claim that was under way.                                               *)
THEOREM PgSuccessIsKept == PgSpec => []SuccessIsKeptUnlessCancelled
<1>1. PgInv => SuccessIsKeptUnlessCancelled
  BY DEF PgInv, PgReceiptsOK, SuccessIsKeptUnlessCancelled
<1> QED
  BY <1>1, PgInvariant, PTL

(* An acknowledged result is recorded, and no lease has two of them.       *)
THEOREM PgAcknowledgementIsHonest == PgSpec => []AcknowledgedIsRecorded
<1>1. PgInv => AcknowledgedIsRecorded
  BY DEF PgInv, PgReceiptsOK, AcknowledgedIsRecorded
<1> QED
  BY <1>1, PgInvariant, PTL

(* No work is given up with attempts left, also when the attempt that is   *)
(* compared was read in another transaction's time.                        *)
THEOREM PgNothingGivenUpEarly == PgSpec => []DeadLetterIsExhausted
<1>1. PgInv => DeadLetterIsExhausted
  BY DEF PgInv, PgTablesOK, PgRowInv, DeadLetterIsExhausted
<1> QED
  BY <1>1, PgInvariant, PTL

(* An execution that is decided or cancelled is not changed by any         *)
(* statement: the last write of a transaction included.                    *)
LEMMA DecidedStaysDecided ==
  ASSUME PgInv, [PgNext]_pgvars, NEW e \in Executions, execution[e].status \in Terminal
  PROVE  execution'[e].status = execution[e].status
<1>0. /\ execution \in [Executions -> ExecutionRow]
      /\ execution[e].status \notin Active /\ execution[e].status # "absent"
  BY DEF PgInv, PgTyped, TypeOK, Terminal, Active
<1>1. ASSUME NEW c \in Connections
      PROVE  ExecutionsSeen(c)[e] = execution[e]
  BY <1>0, InHand DEF Consistent, ExecsOK, ExecutionsSeen
<1>2. ASSUME NEW x \in Executions, CreateExecution(x) \/ PgCancelExecution(x)
      PROVE  execution'[e] = execution[e]
  <2>1. execution[x].status \in {"absent", "queued"}
    BY <1>2 DEF CreateExecution, PgCancelExecution, CancelExecution
  <2>2. x # e
    BY <1>0, <2>1 DEF Active
  <2> QED
    BY <1>0, <1>2, <2>2 DEF CreateExecution, PgCancelExecution, CancelExecution
<1>3. ASSUME NEW c \in Connections, StartExecution(c)
      PROVE  execution'[e] = execution[e]
  <2>1. execution' = [ExecutionsSeen(c) EXCEPT ![ExecutionOf[conn[c].job]] = StartedRow(@)]
    BY <1>3 DEF StartExecution
  <2>2. DOMAIN ExecutionsSeen(c) = Executions
    BY DEF ExecutionsSeen
  <2> QED
    BY <1>0, <1>1, <2>1, <2>2 DEF StartedRow
<1>4. ASSUME NEW c \in Connections, DecideExecution(c)
      PROVE  execution'[e] = execution[e]
  <2>1. \/ execution' = execution
        \/ /\ execution[ExecutionOf[conn[c].result.target]].status = "running"
           /\ execution' = [execution EXCEPT ![ExecutionOf[conn[c].result.target]].status =
                              Verdict(TargetsSeen(c), ExecutionOf[conn[c].result.target])]
    BY <1>4 DEF DecideExecution
  <2> QED
    BY <1>0, <2>1 DEF Active
<1>5. ASSUME NEW c \in Connections, Commit(c)
      PROVE  execution'[e] = execution[e]
  BY <1>1, <1>5 DEF Commit
<1>6. ASSUME PgSweepFinalize
      PROVE  execution'[e] = execution[e]
  BY <1>0, <1>6 DEF PgSweepFinalize, SweepFinalize, FinalizeReconciled
<1>7. CASE UNCHANGED execution
  BY <1>7
<1> USE <1>2, <1>3, <1>4, <1>5, <1>6, <1>7
<1>8. CASE PgUsers
  BY <1>8 DEF PgUsers, PgCancelTargets, CancelTargets
<1>9. CASE PgClaims
  BY <1>9 DEF PgClaims, BeginReconcile, ReconcileRow, ReconcileFinalize, SelectJob, TakeJob, vars
<1>10. CASE PgResults
  BY <1>10 DEF PgResults, ReplayReceipt, BeginResult, RecordResult, CountOpen, vars
<1>11. CASE PgSweep
  BY <1>11 DEF PgSweep, SweepOrganisations, SweepSelect, PgSweepRow, SweepRow, tables
<1>12. CASE \/ \E r \in Runners, t \in Targets : PgRenewLease(r, t)
            \/ \E c \in Connections : Commit(c) \/ Abort(c)
            \/ PgRestart
            \/ Clock /\ UNCHANGED conn
  BY <1>12 DEF PgRenewLease, Abort, PgRestart, Clock, LeaseLapses, BackoffElapses, tables, vars
<1>13. CASE UNCHANGED pgvars
  BY <1>13 DEF pgvars, vars
<1> QED
  BY <1>8, <1>9, <1>10, <1>11, <1>12, <1>13 DEF PgNext

(***************************************************************************)
(* A decided execution keeps its verdict whatever connections commit       *)
(* afterwards: every UPDATE of an execution compares the status it waited  *)
(* for, not the one it selected.                                           *)
(***************************************************************************)
THEOREM PgDecisionStands == PgSpec => DecisionStands
<1>1. PgInv /\ [PgNext]_pgvars =>
        [\A e \in Executions :
           execution[e].status \in Terminal => execution'[e].status = execution[e].status]_pgvars
  BY DecidedStaysDecided
<1> QED
  BY <1>1, PgInvariant, PTL DEF PgSpec, DecisionStands

(* A lease is counted only where a claim commits, and that claim has       *)
(* locked a row which was pending or had lapsed, and could not come back   *)
(* to life while it was locked.                                            *)
LEMMA LeasesAreTakenOver ==
  ASSUME PgInv, [PgNext]_pgvars, NEW t \in Targets,
         target[t].status = "running", issued'[t] # issued[t]
  PROVE  target[t].lapsed
<1>1. CASE \E c \in Connections : StartExecution(c)
  <2>1. PICK c \in Connections : StartExecution(c)
    BY <1>1
  <2>2. t = conn[c].job
    BY <2>1 DEF StartExecution, PgInv, PgTyped, TypeOK
  <2>3. Taken(conn[c], t)
    BY <2>1, <2>2, InHand DEF StartExecution, Consistent, JobOK
  <2> QED
    BY <2>3 DEF Taken
<1>2. CASE UNCHANGED issued
  BY <1>2
<1> USE <1>1, <1>2
<1>3. CASE PgUsers
  BY <1>3 DEF PgUsers, CreateExecution, PgCancelExecution, CancelExecution, PgCancelTargets,
              CancelTargets
<1>4. CASE PgClaims
  BY <1>4 DEF PgClaims, BeginReconcile, ReconcileRow, ReconcileFinalize, SelectJob, TakeJob, vars
<1>5. CASE PgResults
  BY <1>5 DEF PgResults, BeginResult, RecordResult, CountOpen, DecideExecution, vars
<1>6. CASE PgSweep
  BY <1>6 DEF PgSweep, SweepOrganisations, SweepSelect, PgSweepRow, SweepRow, PgSweepFinalize,
              SweepFinalize
<1>7. CASE \/ \E r \in Runners, u \in Targets : PgRenewLease(r, u)
           \/ \E c \in Connections : Commit(c) \/ Abort(c)
           \/ PgRestart
           \/ Clock /\ UNCHANGED conn
  BY <1>7 DEF PgRenewLease, Commit, Abort, PgRestart, Clock, LeaseLapses, BackoffElapses, vars
<1>8. CASE UNCHANGED pgvars
  BY <1>8 DEF pgvars, vars
<1> QED
  BY <1>3, <1>4, <1>5, <1>6, <1>7, <1>8 DEF PgNext

(***************************************************************************)
(* A running target is handed to another runner only after its lease has   *)
(* lapsed, also when the lease is renewed between the SELECT and the       *)
(* UPDATE of a claim.                                                      *)
(***************************************************************************)
THEOREM TakeoversAreLawful == PgSpec => TakeoverNeedsLapse
<1>1. PgInv /\ [PgNext]_pgvars =>
        [\A t \in Targets :
           target[t].status = "running" /\ issued'[t] # issued[t] => target[t].lapsed]_pgvars
  BY LeasesAreTakenOver
<1> QED
  BY <1>1, PgInvariant, PTL DEF PgSpec, TakeoverNeedsLapse
=============================================================================
