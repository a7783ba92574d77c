-------------------------- MODULE ExecutionContract --------------------------
(***************************************************************************)
(* What the queue promises to whoever submits an execution, with no lease, *)
(* retry, receipt or sweep in sight: a command is dispatched to a server   *)
(* only while its work is open and at most MaxAttempts times, work is      *)
(* settled once, an execution is decided once and from all of its work,    *)
(* and a cancelled execution is one that was never dispatched.             *)
(*                                                                         *)
(* One step may concern several executions, as one transaction of the API  *)
(* does.                                                                   *)
(***************************************************************************)
EXTENDS Integers

CONSTANTS Executions, Targets, ExecutionOf, MaxAttempts

VARIABLES
  status,        \* what an execution shows its requester
  work,          \* "none", "open", "ok" or "dead", per target
  dispatches     \* how often a target's command was handed to a runner

vars == <<status, work, dispatches>>

WorkOf(e) == {t \in Targets : ExecutionOf[t] = e}

Init ==
  /\ status = [e \in Executions |-> "absent"]
  /\ work = [t \in Targets |-> "none"]
  /\ dispatches = [t \in Targets |-> 0]

Request(e) ==
  /\ status[e] = "absent" /\ status'[e] = "queued"
  /\ \A t \in WorkOf(e) : work'[t] = "open"

Start(e) ==
  /\ status[e] = "queued" /\ status'[e] = "running"
  /\ \E t \in WorkOf(e) : dispatches'[t] = 1

Cancel(e) ==
  /\ status[e] = "queued" /\ status'[e] = "cancelled"
  /\ \A t \in WorkOf(e) : dispatches'[t] = 0

Decide(e) ==
  /\ status[e] = "running"
  /\ \/ status'[e] = "succeeded" /\ \A t \in WorkOf(e) : work'[t] = "ok"
     \/ /\ status'[e] = "failed"
        /\ \A t \in WorkOf(e) : work'[t] \in {"ok", "dead"}
        /\ \E t \in WorkOf(e) : work'[t] = "dead"

Settle(t) ==
  /\ work[t] = "open" /\ work'[t] \in {"ok", "dead"}
  /\ status[ExecutionOf[t]] = "running"
  /\ dispatches[t] > 0

Dispatch(t) ==
  /\ work[t] = "open" /\ work'[t] = "open"
  /\ status'[ExecutionOf[t]] = "running"
  /\ dispatches[t] < MaxAttempts
  /\ dispatches'[t] = dispatches[t] + 1

Next ==
  /\ \A e \in Executions :
       \/ status'[e] = status[e]
       \/ Request(e) \/ Start(e) \/ Cancel(e) \/ Decide(e)
  /\ \A t \in Targets :
       \/ work'[t] = work[t]
       \/ Settle(t)
       \/ status[ExecutionOf[t]] = "absent" /\ work[t] = "none" /\ work'[t] = "open"
  /\ \A t \in Targets : dispatches'[t] = dispatches[t] \/ Dispatch(t)

Spec == Init /\ [][Next]_vars
=============================================================================
