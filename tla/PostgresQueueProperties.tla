----------------------- MODULE PostgresQueueProperties -----------------------
(***************************************************************************)
(* What still holds of the queue when its transactions overlap, and what   *)
(* no longer does.                                                         *)
(***************************************************************************)
EXTENDS PostgresQueue

(* A connection holds only rows of its own: no row has two uncommitted     *)
(* versions, whatever the statements of the transactions wait for.         *)
PgTypeOK ==
  /\ TypeOK
  /\ \A c \in Connections :
       /\ \A t \in DOMAIN conn[c].rows : conn[c].rows[t] \in TargetRow /\ TargetFree(c, t)
       /\ \A e \in DOMAIN conn[c].execs : conn[c].execs[e] \in ExecutionRow /\ ExecutionFree(c, e)

(* Two runners never hold one target: a running row names the runner of    *)
(* the newest lease handed out for it, although two claims may have        *)
(* selected the same row before either wrote it.                           *)
HolderIsNewest ==
  \A t \in Targets : target[t].status = "running" =>
     /\ target[t].runner \in Runners
     /\ target[t].lease = issued[t]
     /\ issued[t] > 0

(* A status once decided never changes: every UPDATE of an execution       *)
(* compares the status it waited for, not the one it selected.             *)
DecisionStands ==
  [][\A e \in Executions :
       execution[e].status \in Terminal => execution'[e].status = execution[e].status]_pgvars

(* A claim takes a running target over only when its lease has lapsed:     *)
(* also when the lease is renewed between the claim's SELECT and UPDATE.   *)
TakeoverNeedsLapse ==
  [][\A t \in Targets :
       target[t].status = "running" /\ issued'[t] # issued[t] => target[t].lapsed]_pgvars

(* A recorded success stays recorded, unless its execution was cancelled   *)
(* while a claim was under way.                                            *)
SuccessIsKeptUnlessCancelled ==
  \A x \in receipts : x.outcome = "ok" /\ execution[ExecutionOf[x.target]].status # "cancelled" =>
     target[x.target].status = "succeeded" /\ target[x.target].lease = x.lease

(* What the lifecycle in docs/workflow.md and every client that polls for  *)
(* a final status rely on: when every target has succeeded, and no         *)
(* transaction is under way, the execution has.                            *)
SuccessIsReported ==
  \A e \in Executions :
    (/\ \A t \in TargetsOf(e) : target[t].status = "succeeded"
     /\ \A c \in Connections : conn[c] = Idle)
    => execution[e].status = "succeeded"
=============================================================================
