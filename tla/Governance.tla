----------------------------- MODULE Governance -----------------------------
(***************************************************************************)
(* How work comes to be queued: the catalogue of runbooks with its         *)
(* versions, requests to run one or a raw command, idempotency keys,       *)
(* approvals and scheduled runs (apps/api/runbooks.go, executions.go and   *)
(* the run itself in automation.go).  One runbook of one organisation.     *)
(*                                                                         *)
(* On SQLite the handlers share one connection (database.go:29): a         *)
(* transaction is one action, a statement outside one is an action of its  *)
(* own, and what a handler read before is kept in editor[e], requests[c]   *)
(* or scheduled until it is used.  A request refused with a 4xx changes    *)
(* nothing and is a stutter, unless what follows depends on it.            *)
(***************************************************************************)
EXTENDS Policy, Handlers, Integers, FiniteSets

CONSTANTS
    Users,          \* members of the organisation
    RoleOf,         \* their roles
    Definitions,    \* contents a version may have
    RunAsks,        \* requests to run it: [user, key, env, reason, inputs]
    CommandAsks,    \* requests to run a raw command: [user, key, env, reason, words]
    Schedules,      \* what schedules of it ask for: [user, env, reason, inputs]
    Keys,           \* idempotency keys
    Editors,        \* handlers of the catalogue under way
    Clients,        \* handlers of run and creation requests under way
    MaxVersions, MaxApprovals, MaxExecutions,   \* bounds
    NoOne, NoKey

ASSUME GovernanceAssumption ==
    /\ RoleOf \in [Users -> Roles]
    /\ NoOne \notin Users
    /\ NoKey \notin Keys
    /\ \A ask \in RunAsks \cup CommandAsks :
          /\ ask.user \in Users /\ ask.key \in Keys \cup {NoKey}
          /\ ask.reason \in BOOLEAN
    /\ \A s \in Schedules :
          s.user \in Users /\ s.reason \in BOOLEAN
    /\ MaxVersions \in Nat \ {0} /\ MaxApprovals \in Nat /\ MaxExecutions \in Nat

VARIABLES
    runbook,        \* its row: status, and the id of the current version
    versions,       \* runbook_versions
    editor,         \* a handler between its SELECT and its UPDATEs
    requests,       \* a run or creation handler between its SELECTs and its transaction
    scheduled,      \* the scheduler's run between its SELECTs and its transaction
    keyed,          \* execution_idempotency and runbook_idempotency
    approvals,      \* approval_requests
    executions,     \* executions, as they were created
    asked,          \* history: versions somebody asked to publish
    writer,         \* who waits for the one connection while holding it
    answers         \* history: successful answers to requests with a key

catalogue == <<runbook, versions, editor, asked>>
work == <<keyed, approvals, executions, answers>>
governanceVars == <<runbook, versions, editor, requests, scheduled, keyed, approvals,
                    executions, asked, writer, answers>>

VersionIds == 1 .. MaxVersions
ApprovalIds == 1 .. MaxApprovals
ExecutionIds == 1 .. MaxExecutions

NoVersion == [status |-> "none"]
NoApproval == [status |-> "none"]
NoExecution == [via |-> "none"]
\* A statement on the pool has to wait while a transaction keeps its connection.
PoolIsFree == writer = NoOne

GovernanceInit ==
    /\ runbook = [status |-> "none", current |-> 0]
    /\ versions = [v \in VersionIds |-> NoVersion]
    /\ editor = [e \in Editors |-> Idle]
    /\ requests = [c \in Clients |-> Idle]
    /\ scheduled = Idle
    /\ keyed = {}
    /\ approvals = [a \in ApprovalIds |-> NoApproval]
    /\ executions = [x \in ExecutionIds |-> NoExecution]
    /\ asked = {}
    /\ writer = NoOne
    /\ answers = {}

-----------------------------------------------------------------------------
(* The catalogue.  Only senior users reach these handlers. *)

CurrentVersion == versions[runbook.current]

\* runbook_versions has UNIQUE (runbook_id, version).
NumberIsFree(n) == \A v \in VersionIds : versions[v] # NoVersion => versions[v].number # n

CreateRunbook ==
    /\ PoolIsFree
    /\ runbook.status = "none"
    /\ \E d \in Definitions :
          /\ Storable(d)
          /\ versions' = [versions EXCEPT ![1] = [status |-> "draft", number |-> 1, def |-> d]]
    /\ runbook' = [status |-> "draft", current |-> 1]
    /\ UNCHANGED <<editor, asked, requests, scheduled, work, writer>>

\* handlePublishRunbook: a SELECT and two UPDATEs, without a transaction.  Neither
\* UPDATE looks at the status of its row again.
ReadToPublish(e) ==
    /\ PoolIsFree
    /\ editor[e] = Idle
    /\ runbook.status # "none"
    /\ editor' = [editor EXCEPT ![e] = [at |-> "publish", version |-> runbook.current]]
    /\ asked' = asked \cup {runbook.current}
    /\ UNCHANGED <<runbook, versions, requests, scheduled, work, writer>>

(* Mutant: the publication also makes the version it read the current one. *)
MarkReadVersion(e) ==
    /\ PoolIsFree
    /\ editor[e].at = "publish"
    /\ runbook' = [status |-> "published", current |-> editor[e].version]
    /\ editor' = [editor EXCEPT ![e].at = "mark"]
    /\ UNCHANGED <<versions, asked, requests, scheduled, work, writer>>

MarkRunbook(e) ==
    /\ PoolIsFree
    /\ editor[e].at = "publish"
    /\ runbook' = [runbook EXCEPT !.status = "published"]
    /\ editor' = [editor EXCEPT ![e].at = "mark"]
    /\ UNCHANGED <<versions, asked, requests, scheduled, work, writer>>

MarkVersion(e) ==
    /\ PoolIsFree
    /\ editor[e].at = "mark"
    /\ versions' = [versions EXCEPT ![editor[e].version].status = "published"]
    /\ editor' = [editor EXCEPT ![e] = Idle]
    /\ UNCHANGED <<runbook, asked, requests, scheduled, work, writer>>

\* handleUpdateRunbook: the SELECT with its check for 'archived', then a transaction
\* that inserts a draft and makes it current.
ReadToUpdate(e) ==
    /\ PoolIsFree
    /\ editor[e] = Idle
    /\ runbook.status \notin {"none", "archived"}
    /\ editor' = [editor EXCEPT ![e] = [at |-> "update", number |-> CurrentVersion.number + 1]]
    /\ UNCHANGED <<runbook, versions, asked, requests, scheduled, work, writer>>

InsertVersion(e) ==
    /\ PoolIsFree
    /\ editor[e].at = "update"
    /\ NumberIsFree(editor[e].number)
    /\ \E v \in Fresh(VersionIds, versions, NoVersion), d \in Definitions :
          /\ Storable(d)
          /\ versions' = [versions EXCEPT
                ![v] = [status |-> "draft", number |-> editor[e].number, def |-> d]]
          /\ runbook' = [status |-> "draft", current |-> v]
    /\ editor' = [editor EXCEPT ![e] = Idle]
    /\ UNCHANGED <<asked, requests, scheduled, work, writer>>

\* A statement fails or the request ends: the handler returns where it is.
EditorStops(e) ==
    /\ editor[e] # Idle
    /\ editor' = [editor EXCEPT ![e] = Idle]
    /\ UNCHANGED <<runbook, versions, asked, requests, scheduled, work, writer>>

ArchiveRunbook ==
    /\ PoolIsFree
    /\ runbook.status \notin {"none", "archived"}
    /\ runbook' = [runbook EXCEPT !.status = "archived"]
    /\ UNCHANGED <<versions, editor, asked, requests, scheduled, work, writer>>

-----------------------------------------------------------------------------
(* Requests.  Both kinds check their idempotency key, read what they need,   *)
(* decide, and then insert everything in one transaction, whose insert of    *)
(* the key may still find it taken.                                          *)

\* The row a replay looks for names the user, the table's key does not.
Mine(kind, u, k) == {r \in keyed : r.kind = kind /\ r.user = u /\ r.key = k}
Taken(kind, k) == \E r \in keyed : r.kind = kind /\ r.key = k

\* handleRunRunbook up to the policy; the targets' environment is read on the way.
\* A dry run stops here.
ReadRun(c) ==
    LET d == CurrentVersion.def
    IN  /\ PoolIsFree
        /\ requests[c] = Idle
        /\ runbook.status = "published"
        /\ \E ask \in RunAsks :
              LET role == RoleOf[ask.user]
                  needsApproval == RunNeedsApproval(d, role, ask.env)
              IN  /\ ask.key # NoKey => Mine("runbook", ask.user, ask.key) = {}
                  /\ role \in d.roles
                  /\ EnvironmentAllowed(d, ask.env)
                  /\ ValidateParams(d, ask.inputs)
                  /\ IF needsApproval
                       THEN ask.reason
                       ELSE CheckRunbookExecution(role, ask.env, d.risk, ask.reason)
                  /\ requests' = [requests EXCEPT ![c] =
                        [at |-> IF needsApproval THEN "ask" ELSE "run",
                         kind |-> "runbook", user |-> ask.user, key |-> ask.key, env |-> ask.env,
                         reason |-> ask.reason, version |-> runbook.current, risk |-> d.risk]]
        /\ UNCHANGED <<catalogue, scheduled, work, writer>>

\* handleCreateExecution up to its transaction.
ReadCommand(c) ==
    /\ PoolIsFree
    /\ requests[c] = Idle
    /\ \E ask \in CommandAsks :
          /\ ask.key # NoKey => Mine("command", ask.user, ask.key) = {}
          /\ CheckExecution(RoleOf[ask.user], ask.env, ClassifyRisk(ask.words), ask.reason)
          /\ requests' = [requests EXCEPT ![c] =
                [at |-> "run", kind |-> "command", user |-> ask.user, key |-> ask.key,
                 env |-> ask.env, reason |-> ask.reason, version |-> 0,
                 risk |-> ClassifyRisk(ask.words)]]
    /\ UNCHANGED <<catalogue, scheduled, work, writer>>

\* What the hash of a payload tells apart.
Payload(r) == [env |-> r.env, reason |-> r.reason, risk |-> IF r.kind = "command" THEN r.risk ELSE "any"]

Answer(r, resource) ==
    [kind |-> r.kind, user |-> r.user, key |-> r.key, payload |-> Payload(r),
     resource |-> resource]

(* Mutant: INSERT OR REPLACE. *)
ReplaceKey(r, resource) ==
    /\ keyed' = {m \in keyed : m.kind # r.kind \/ m.key # r.key} \cup {Answer(r, resource)}
    /\ answers' = answers \cup {Answer(r, resource)}

\* The row of the key, inserted with the resource.
RecordKey(r, resource) ==
    IF r.key = NoKey
      THEN UNCHANGED <<keyed, answers>>
      ELSE /\ ~Taken(r.kind, r.key)
           /\ keyed' = keyed \cup {Answer(r, resource)}
           /\ answers' = answers \cup {Answer(r, resource)}

CommitExecution(c) ==
    LET r == requests[c]
    IN  /\ PoolIsFree
        /\ r.at = "run"
        /\ \E x \in Fresh(ExecutionIds, executions, NoExecution) :
              /\ executions' = [executions EXCEPT ![x] =
                    [via |-> r.kind, user |-> r.user, approver |-> NoOne, approval |-> 0,
                     version |-> r.version, risk |-> r.risk, env |-> r.env, reason |-> r.reason]]
              /\ RecordKey(r, [is |-> "execution", id |-> x])
        /\ requests' = [requests EXCEPT ![c] = Idle]
        /\ UNCHANGED <<catalogue, scheduled, approvals, writer>>

CommitApproval(c) ==
    LET r == requests[c]
    IN  /\ PoolIsFree
        /\ r.at = "ask"
        /\ \E a \in Fresh(ApprovalIds, approvals, NoApproval) :
              /\ approvals' = [approvals EXCEPT ![a] =
                    [status |-> "pending", expired |-> FALSE, user |-> r.user, approver |-> NoOne,
                     version |-> r.version, risk |-> r.risk, env |-> r.env, reason |-> r.reason]]
              /\ RecordKey(r, [is |-> "approval", id |-> a])
        /\ requests' = [requests EXCEPT ![c] = Idle]
        /\ UNCHANGED <<catalogue, scheduled, executions, writer>>

(* Mutant: a row of somebody else is waited for, and not answered with 409. *)
FindOwnKey(c) ==
    LET r == requests[c]
    IN  /\ PoolIsFree
        /\ r # Idle
        /\ r.key # NoKey
        /\ \E m \in Mine(r.kind, r.user, r.key) : answers' = answers \cup {Answer(r, m.resource)}
        /\ requests' = [requests EXCEPT ![c] = Idle]
        /\ UNCHANGED <<catalogue, scheduled, keyed, approvals, executions, writer>>

\* The insert of the key fails: the transaction is rolled back, and the request is
\* answered from the key's row if its user wrote it with the same payload, else 409.
FindKeyTaken(c) ==
    LET r == requests[c]
    IN  /\ PoolIsFree
        /\ r # Idle
        /\ r.key # NoKey
        /\ Taken(r.kind, r.key)
        /\ answers' = answers \cup
              {Answer(r, m.resource) : m \in {m \in Mine(r.kind, r.user, r.key) :
                                                m.payload = Payload(r)}}
        /\ requests' = [requests EXCEPT ![c] = Idle]
        /\ UNCHANGED <<catalogue, scheduled, keyed, approvals, executions, writer>>

-----------------------------------------------------------------------------
(* Approvals. *)

(* Mutant: only the clock is looked at. *)
NotExpired(a) == approvals[a] # NoApproval /\ ~approvals[a].expired

Live(a) == approvals[a].status = "pending" /\ ~approvals[a].expired

MayDecide(u) == IsSenior(RoleOf[u])

\* The decision and the execution it allows are one transaction.
Approve(u, a) ==
    LET p == approvals[a]
    IN  /\ PoolIsFree
        /\ MayDecide(u)
        /\ Live(a)
        /\ p.user # u
        /\ approvals' = [approvals EXCEPT ![a].status = "approved", ![a].approver = u]
        /\ \E x \in Fresh(ExecutionIds, executions, NoExecution) :
              executions' = [executions EXCEPT ![x] =
                [via |-> "approval", user |-> p.user, approver |-> u, approval |-> a,
                 version |-> p.version, risk |-> p.risk, env |-> p.env, reason |-> p.reason]]
        /\ UNCHANGED <<catalogue, requests, scheduled, keyed, writer, answers>>

\* handleApprove when its UPDATE found no row: the transaction is still open when the
\* handler looks for the reason through the pool, whose only connection it holds.
ApproveTooLate(u, a) ==
    /\ PoolIsFree
    /\ MayDecide(u)
    /\ approvals[a] # NoApproval
    /\ ~Live(a)
    /\ approvals[a].user # u
    /\ writer' = u
    /\ UNCHANGED <<catalogue, requests, scheduled, work>>

\* The caller closes its connection (the SDK after thirty seconds): the request's context
\* ends, the SELECT fails, and the transaction is rolled back.
CallerGivesUp ==
    /\ ~PoolIsFree
    /\ writer' = NoOne
    /\ UNCHANGED <<catalogue, requests, scheduled, work>>

(* Mutant: a status the column does not admit. *)
DenyAsRejected(u, a) ==
    /\ PoolIsFree
    /\ MayDecide(u)
    /\ Live(a)
    /\ approvals' = [approvals EXCEPT ![a].status = "rejected", ![a].approver = u]
    /\ UNCHANGED <<catalogue, requests, scheduled, keyed, executions, writer, answers>>

Deny(u, a) ==
    /\ PoolIsFree
    /\ MayDecide(u)
    /\ Live(a)
    /\ approvals' = [approvals EXCEPT ![a].status = "denied", ![a].approver = u]
    /\ UNCHANGED <<catalogue, requests, scheduled, keyed, executions, writer, answers>>

\* The clock passes expires_at.
ApprovalExpires(a) ==
    /\ approvals[a] # NoApproval
    /\ ~approvals[a].expired
    /\ approvals' = [approvals EXCEPT ![a].expired = TRUE]
    /\ UNCHANGED <<catalogue, requests, scheduled, keyed, executions, writer, answers>>

-----------------------------------------------------------------------------
(* A schedule that came due; when it does is the module Scheduler's subject.  *)
(* executeScheduledRun consults neither the roles nor the approval rule, and  *)
(* compares the risk as it is spelled.                                        *)

(* Mutant: only the worst is refused. *)
ScheduleUnlessCritical(d) == d.risk # "critical"

MaySchedule(d) == d.risk \notin {"high", "critical"}

ReadScheduled ==
    LET d == CurrentVersion.def
    IN  /\ PoolIsFree
        /\ scheduled = Idle
        /\ runbook.status = "published"
        /\ MaySchedule(d)
        /\ \E s \in Schedules :
              /\ MayDecide(s.user)        \* who created the schedule
              /\ EnvironmentAllowed(d, s.env)
              /\ s.env = "production" => s.reason
              /\ ValidateParams(d, s.inputs)
              /\ scheduled' = [at |-> "run", user |-> s.user, env |-> s.env, reason |-> s.reason,
                               version |-> runbook.current, risk |-> d.risk]
        /\ UNCHANGED <<catalogue, requests, work, writer>>

CommitScheduled ==
    /\ PoolIsFree
    /\ scheduled # Idle
    /\ \E x \in Fresh(ExecutionIds, executions, NoExecution) :
          executions' = [executions EXCEPT ![x] =
            [via |-> "schedule", user |-> scheduled.user, approver |-> NoOne, approval |-> 0,
             version |-> scheduled.version, risk |-> scheduled.risk,
             env |-> scheduled.env, reason |-> scheduled.reason]]
    /\ scheduled' = Idle
    /\ UNCHANGED <<catalogue, requests, keyed, approvals, writer, answers>>

-----------------------------------------------------------------------------
EditCatalogue ==
    \/ CreateRunbook
    \/ ArchiveRunbook
    \/ \E e \in Editors : \/ ReadToPublish(e) \/ MarkRunbook(e) \/ MarkVersion(e)
                          \/ ReadToUpdate(e) \/ InsertVersion(e) \/ EditorStops(e)

AskForWork ==
    \E c \in Clients : \/ ReadRun(c) \/ ReadCommand(c)
                       \/ CommitExecution(c) \/ CommitApproval(c) \/ FindKeyTaken(c)

Decide ==
    \/ \E u \in Users, a \in ApprovalIds : \/ Approve(u, a) \/ ApproveTooLate(u, a)
                                           \/ Deny(u, a)
    \/ \E a \in ApprovalIds : ApprovalExpires(a)
    \/ CallerGivesUp

RunSchedule == ReadScheduled \/ CommitScheduled

GovernanceNext == EditCatalogue \/ AskForWork \/ Decide \/ RunSchedule

GovernanceSpec == GovernanceInit /\ [][GovernanceNext]_governanceVars
=============================================================================
