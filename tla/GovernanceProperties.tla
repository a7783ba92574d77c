------------------------ MODULE GovernanceProperties ------------------------
(***************************************************************************)
(* What the path from a runbook to a queued execution promises.            *)
(***************************************************************************)
EXTENDS Governance

Made(x) == executions[x] # NoExecution
Asked(a) == approvals[a] # NoApproval

\* Every row has the values of its columns (migrate.go:89-204).
GovernanceTypeOK ==
    /\ runbook \in [status : {"none", "draft", "published", "archived"},
                    current : 0 .. MaxVersions]
    /\ \A v \in VersionIds :
          versions[v] = NoVersion \/ versions[v].status \in {"draft", "published"}
    /\ \A a \in ApprovalIds :
          Asked(a) => /\ approvals[a].status \in {"pending", "approved", "denied"}
                      /\ approvals[a].user \in Users
                      /\ approvals[a].approver \in Users \cup {NoOne}
    /\ \A x \in ExecutionIds :
          Made(x) => /\ executions[x].via \in {"runbook", "command", "approval", "schedule"}
                     /\ executions[x].approval \in 0 .. MaxApprovals
                     /\ executions[x].version \in 0 .. MaxVersions
    /\ writer \in Users \cup {NoOne}

(***************************************************************************)
(* An approval and the execution it allows belong together: an approved    *)
(* request has exactly one execution, with the version, the environment    *)
(* and the requester that were reviewed and not those of today; a pending  *)
(* or denied one has none; and whoever approved is a senior other than the *)
(* requester.  (runbooks.go:735-885: two deciders, an expiry and new       *)
(* versions may come between the request and the decision.)                *)
(***************************************************************************)
ApprovalsAreHonest ==
    /\ \A x \in ExecutionIds : Made(x) /\ executions[x].via = "approval" =>
          LET p == approvals[executions[x].approval]
          IN  /\ p # NoApproval /\ p.status = "approved"
              /\ executions[x].approver = p.approver
              /\ p.approver # p.user /\ MayDecide(p.approver)
              /\ executions[x].user = p.user
              /\ executions[x].version = p.version /\ executions[x].env = p.env
    /\ \A a \in ApprovalIds : Asked(a) =>
          Cardinality({x \in ExecutionIds : Made(x) /\ executions[x].approval = a})
            = IF approvals[a].status = "approved" THEN 1 ELSE 0

(***************************************************************************)
(* Whatever path an execution came by, and whatever its runbook became     *)
(* since: it has the risk of the version that runs; a risk spelled as the  *)
(* rules compare it was reviewed if it runs in production, and is never    *)
(* scheduled; juniors reach production only through a review; raw commands *)
(* are for seniors; and a runbook that asks for an approval was approved.  *)
(* The last does not hold of schedules, which never look at the rule       *)
(* (automation.go:332-355), and of other spellings only RiskIsReviewed     *)
(* speaks.                                                                 *)
(***************************************************************************)
ReviewsFollowTheRules ==
    \A x \in ExecutionIds : Made(x) =>
      LET e == executions[x]
          Reviewed == e.via = "approval"
      IN  /\ e.via = "command" => IsSenior(RoleOf[e.user])
          /\ e.version # 0 => e.risk = versions[e.version].def.risk
          /\ e.env = "production" /\ e.via # "command" /\ e.risk \in {"high", "critical"} => Reviewed
          /\ e.via = "schedule" => e.risk \notin {"high", "critical"}
          /\ e.env = "production" /\ ~IsSenior(RoleOf[e.user]) => Reviewed
          /\ e.risk = "high" /\ ~IsSenior(RoleOf[e.user]) => Reviewed
          /\ e.env = "production" => e.reason
          /\ e.version # 0 /\ e.via # "schedule"
                /\ versions[e.version].def.approval \in {"*", e.env} => Reviewed

(***************************************************************************)
(* A runbook of high or critical risk, however its author spelled it, runs *)
(* in production or on a schedule only after a review.  "High-risk work    *)
(* cannot run unattended without an approval-backed path"                  *)
(* (docs/production-release.md:33), "High and critical risk schedules are  *)
(* rejected from unattended execution" (docs/automation.md:24), and        *)
(* runbooks.go:468 on production.                                          *)
(***************************************************************************)
RiskIsReviewed ==
    \A x \in ExecutionIds : Made(x) =>
      LET e == executions[x]
      IN  /\ e.version # 0
          /\ e.env = "production" \/ e.via = "schedule"
          /\ ToLower(e.risk) \in {"high", "critical"}
          => e.via = "approval"

(***************************************************************************)
(* Of requests that carry one user's key, however many are under way at    *)
(* once, all that are answered with success are answered with the same     *)
(* resource, it exists, and it is that user's.  (executions.go:292,        *)
(* runbooks.go:521 and :593 insert the key after the resource.)  What      *)
(* becomes of a second user is not promised: a key is "scoped to the       *)
(* organisation and actor" (docs/api-reference.md:78), but the table's     *)
(* primary key is the organisation and the key (migrate.go:140), so that   *)
(* another user's request with it is refused with 409.                     *)
(***************************************************************************)
OneResourcePerKey ==
    /\ \A r, s \in answers : r.kind = s.kind /\ r.user = s.user /\ r.key = s.key => r = s
    /\ \A r \in answers :
          CASE r.resource.is = "execution" -> Made(r.resource.id) /\ executions[r.resource.id].user = r.user
            [] r.resource.is = "approval" -> Asked(r.resource.id) /\ approvals[r.resource.id].user = r.user

(***************************************************************************)
(* The current version is the newest one, and no two have one number,      *)
(* although two updates may start from the same version and a publication  *)
(* may end after a newer draft was made.  (Two updates that both insert    *)
(* from one old number need a third version, which the small instance has  *)
(* no room for: there the theorem NewestIsCurrent speaks.)                 *)
(***************************************************************************)
CurrentIsNewest ==
    /\ \A v, w \in VersionIds : versions[v] # NoVersion /\ versions[w] # NoVersion =>
          (versions[v].number = versions[w].number => v = w)
    /\ runbook.status # "none" =>
          \A v \in VersionIds : versions[v] # NoVersion =>
             versions[v].number <= versions[runbook.current].number

(***************************************************************************)
(* What runs is what somebody published: "The runbook exists and is        *)
(* published" (docs/workflow.md:18), "A runbook is versioned and published *)
(* by a senior engineer" (docs/workflow.md:3).  A version somebody is      *)
(* publishing counts as published.                                         *)
(***************************************************************************)
OnlyPublishedVersionsRun ==
    \A x \in ExecutionIds : Made(x) /\ executions[x].version # 0 =>
        executions[x].version \in asked

(***************************************************************************)
(* The handlers go on; a handler waiting for the pool gets its turn (the   *)
(* pool serves its waiters in order, hence SF); and a caller gives up in   *)
(* the end (packages/sdk-go/client/client.go:27).                          *)
(***************************************************************************)
GovernanceFairness ==
    /\ \A c \in Clients : SF_governanceVars(CommitExecution(c) \/ CommitApproval(c) \/ FindKeyTaken(c))
    /\ WF_governanceVars(CallerGivesUp)

GovernanceLiveSpec == GovernanceSpec /\ GovernanceFairness

\* No id is left, within the bounds of the model, for what the request makes.
OutOfIds(c) ==
    \/ requests[c].at = "run" /\ Fresh(ExecutionIds, executions, NoExecution) = {}
    \/ requests[c].at = "ask" /\ Fresh(ApprovalIds, approvals, NoApproval) = {}

(***************************************************************************)
(* Every request is answered in the end: with its resource, from the row   *)
(* of its key, or with 409, also while late approvals block the pool.      *)
(***************************************************************************)
RequestsAreAnswered ==
    \A c \in Clients : requests[c] # Idle ~> requests[c] = Idle \/ OutOfIds(c)
=============================================================================
