-------------------------- MODULE GovernanceProofs --------------------------
(***************************************************************************)
(* The path from a runbook to a queued execution, for any users, roles,    *)
(* definitions, requests and handlers under way. First what rows and       *)
(* handlers look like, the numbers of versions and the keys; then, on top  *)
(* of it, that risky work is reviewed, and that approvals and the          *)
(* executions they allow belong together.                                  *)
(***************************************************************************)
EXTENDS GovernanceProperties, FiniteSetTheorems, TLAPS

Asks == RunAsks \cup CommandAsks \cup Schedules
AskedEnvironments == {ask.env : ask \in Asks}
Someone == Users \cup {NoOne}
Spellings == Risks \cup {d.risk : d \in Definitions}

Version == [status : {"draft", "published"}, number : Nat, def : {d \in Definitions : Storable(d)}]

EditorState ==
    {Idle} \cup [at : {"publish", "mark"}, version : VersionIds] \cup [at : {"update"}, number : Nat]

Request ==
    [at : {"ask", "run"}, kind : {"runbook", "command"}, user : Users, key : Keys \cup {NoKey},
     env : AskedEnvironments, reason : BOOLEAN, version : 0 .. MaxVersions, risk : Spellings]

ScheduledRun ==
    [at : {"run"}, user : Users, env : AskedEnvironments, reason : BOOLEAN,
     version : VersionIds, risk : Spellings]

Approval ==
    [status : {"pending", "approved", "denied"}, expired : BOOLEAN, user : Users,
     approver : Someone, version : 0 .. MaxVersions, risk : Spellings, env : AskedEnvironments,
     reason : BOOLEAN]

Execution ==
    [via : {"runbook", "command", "approval", "schedule"}, user : Users, approver : Someone,
     approval : 0 .. MaxApprovals, version : 0 .. MaxVersions, risk : Spellings,
     env : AskedEnvironments, reason : BOOLEAN]

Exists(v) == v \in VersionIds /\ versions[v] # NoVersion

(***************************************************************************)
(* Rows, and what handlers keep, are well formed; what they name is there. *)
(***************************************************************************)
WellFormed ==
    /\ runbook \in [status : {"none", "draft", "published", "archived"}, current : 0 .. MaxVersions]
    /\ versions \in [VersionIds -> Version \cup {NoVersion}]
    /\ editor \in [Editors -> EditorState]
    /\ requests \in [Clients -> Request \cup {Idle}]
    /\ scheduled \in ScheduledRun \cup {Idle}
    /\ approvals \in [ApprovalIds -> Approval \cup {NoApproval}]
    /\ executions \in [ExecutionIds -> Execution \cup {NoExecution}]
    /\ runbook.status # "none" => Exists(runbook.current)
    /\ \A v \in VersionIds : Exists(v) => runbook.status # "none"
    /\ \A e \in Editors : editor[e].at \in {"publish", "mark"} => Exists(editor[e].version)
    /\ writer \in Someone

USE GovernanceAssumption DEF VersionIds, ApprovalIds, ExecutionIds

\* The tables are well formed, and empty, at the start.
LEMMA WellFormedInit == GovernanceInit => WellFormed
BY DEF GovernanceInit, WellFormed, Exists, EditorState, NoVersion, NoApproval, NoExecution, Idle, Someone

\* What an editor in the middle of a publication holds.
LEMMA EditorShapes ==
    ASSUME NEW state \in EditorState
    PROVE  /\ state.at \in {"publish", "mark"} =>
                 state \in [at : {"publish", "mark"}, version : VersionIds]
           /\ state.at = "update" => state \in [at : {"update"}, number : Nat]
BY DEF EditorState, Idle

(***************************************************************************)
(* The catalogue's handlers.                                               *)
(***************************************************************************)
LEMMA EditingIsWellFormed ==
    ASSUME WellFormed, EditCatalogue
    PROVE  WellFormed'
<1> USE DEF WellFormed, Exists, NoVersion, Idle, work
<1>1. ASSUME CreateRunbook PROVE WellFormed'
    BY <1>1 DEF CreateRunbook, Version
<1>2. ASSUME ArchiveRunbook PROVE WellFormed'
    BY <1>2 DEF ArchiveRunbook
<1>3. ASSUME NEW e \in Editors, ReadToPublish(e) PROVE WellFormed'
    BY <1>3 DEF ReadToPublish, EditorState
<1>4. ASSUME NEW e \in Editors, MarkRunbook(e) PROVE WellFormed'
    <2>1. editor[e] \in [at : {"publish", "mark"}, version : VersionIds]
        BY <1>4, EditorShapes DEF MarkRunbook
    <2>2. /\ [editor[e] EXCEPT !.at = "mark"] \in EditorState
          /\ [editor[e] EXCEPT !.at = "mark"].version = editor[e].version
        BY <2>1 DEF EditorState
    <2>3. editor' = [editor EXCEPT ![e] = [editor[e] EXCEPT !.at = "mark"]]
        BY <1>4 DEF MarkRunbook
    <2>4. Exists(editor[e].version)
        BY <1>4 DEF MarkRunbook
    <2>5. \A f \in Editors : editor'[f].at \in {"publish", "mark"} => Exists(editor'[f].version)
        BY <2>2, <2>3, <2>4
    <2>6. editor' \in [Editors -> EditorState]
        BY <2>2, <2>3
    <2>7. runbook.status # "none"
        BY <2>4
    <2> QED
        BY <1>4, <2>5, <2>6, <2>7 DEF MarkRunbook
<1>5. ASSUME NEW e \in Editors, MarkVersion(e) PROVE WellFormed'
    <2> DEFINE v == editor[e].version
    <2>1. v \in VersionIds /\ versions[v] \in Version
        BY <1>5 DEF MarkVersion
    <2>2. [versions[v] EXCEPT !.status = "published"] \in Version
        BY <2>1 DEF Version
    <2>3. versions' = [versions EXCEPT ![v] = [versions[v] EXCEPT !.status = "published"]]
        BY <1>5 DEF MarkVersion
    <2>4. NoVersion \notin Version
        BY DEF Version
    <2> HIDE DEF v
    <2>5. /\ versions' \in [VersionIds -> Version \cup {NoVersion}]
          /\ \A w \in VersionIds : Exists(w) <=> Exists(w)'
        BY <2>1, <2>2, <2>3, <2>4
    <2> QED
        BY <1>5, <2>5 DEF MarkVersion, EditorState
<1>6. ASSUME NEW e \in Editors, ReadToUpdate(e) PROVE WellFormed'
    BY <1>6 DEF ReadToUpdate, EditorState, Version, CurrentVersion
<1>7. ASSUME NEW e \in Editors, InsertVersion(e) PROVE WellFormed'
    <2>1. editor[e].number \in Nat
        BY <1>7, EditorShapes DEF InsertVersion
    <2>2. PICK v \in Fresh(VersionIds, versions, NoVersion), d \in Definitions :
              /\ Storable(d)
              /\ versions' = [versions EXCEPT
                    ![v] = [status |-> "draft", number |-> editor[e].number, def |-> d]]
              /\ runbook' = [status |-> "draft", current |-> v]
        BY <1>7 DEF InsertVersion
    <2>3. [status |-> "draft", number |-> editor[e].number, def |-> d] \in Version
        BY <2>1, <2>2 DEF Version
    <2>4. v \in VersionIds
        BY DEF Fresh
    <2>5. NoVersion \notin Version
        BY DEF Version
    <2>6. /\ versions' \in [VersionIds -> Version \cup {NoVersion}]
          /\ \A w \in VersionIds : Exists(w) => Exists(w)'
          /\ Exists(v)'
        BY <2>2, <2>3, <2>4, <2>5
    <2> QED
        BY <1>7, <2>2, <2>4, <2>6 DEF InsertVersion, EditorState
<1>8. ASSUME NEW e \in Editors, EditorStops(e) PROVE WellFormed'
    BY <1>8 DEF EditorStops, EditorState
<1> QED
    BY <1>1, <1>2, <1>3, <1>4, <1>5, <1>6, <1>7, <1>8 DEF EditCatalogue

(***************************************************************************)
(* Requests, approvals and runs of schedules.                              *)
(***************************************************************************)
LEMMA Tables ==
    /\ Idle \notin Request /\ Idle \notin ScheduledRun
    /\ NoApproval \notin Approval /\ NoExecution \notin Execution
    /\ NoVersion \notin Version
    /\ \A r \in Request \cup {Idle} : r.at \in {"ask", "run"} => r \in Request
    /\ \A p \in Approval \cup {NoApproval} : p # NoApproval => p \in Approval
BY DEF Request, ScheduledRun, Approval, Execution, Version, Idle, NoApproval, NoExecution, NoVersion

\* The handlers that take a request to run or to review, to its commit.
LEMMA AskingIsWellFormed ==
    ASSUME WellFormed, AskForWork
    PROVE  WellFormed'
<1> USE DEF WellFormed, Exists, work, catalogue
<1>1. ASSUME NEW c \in Clients, ReadRun(c) PROVE WellFormed'
    <2>1. CurrentVersion \in Version /\ runbook.current \in VersionIds
        BY <1>1 DEF ReadRun, CurrentVersion
    <2>2. PICK ask \in RunAsks, at \in {"ask", "run"} :
              requests' = [requests EXCEPT ![c] =
                 [at |-> at, kind |-> "runbook", user |-> ask.user, key |-> ask.key,
                  env |-> ask.env, reason |-> ask.reason, version |-> runbook.current,
                  risk |-> CurrentVersion.def.risk]]
        BY <1>1 DEF ReadRun
    <2>3. CurrentVersion.def.risk \in Spellings
        BY <2>1 DEF Version, Spellings
    <2>4. ask.env \in AskedEnvironments
        BY DEF AskedEnvironments, Asks
    <2>5. [at |-> at, kind |-> "runbook", user |-> ask.user, key |-> ask.key,
           env |-> ask.env, reason |-> ask.reason, version |-> runbook.current,
           risk |-> CurrentVersion.def.risk] \in Request
        BY <2>1, <2>3, <2>4 DEF Request
    <2>6. requests' \in [Clients -> Request \cup {Idle}]
        BY <2>2, <2>5
    <2> QED
        BY <1>1, <2>6 DEF ReadRun
<1>2. ASSUME NEW c \in Clients, ReadCommand(c) PROVE WellFormed'
    <2>1. PICK ask \in CommandAsks :
              requests' = [requests EXCEPT ![c] =
                 [at |-> "run", kind |-> "command", user |-> ask.user, key |-> ask.key,
                  env |-> ask.env, reason |-> ask.reason, version |-> 0,
                  risk |-> ClassifyRisk(ask.words)]]
        BY <1>2 DEF ReadCommand
    <2>2. ClassifyRisk(ask.words) \in Spellings
        BY DEF ClassifyRisk, Risks, Spellings
    <2>3. ask.env \in AskedEnvironments
        BY DEF AskedEnvironments, Asks
    <2>4. [at |-> "run", kind |-> "command", user |-> ask.user, key |-> ask.key,
           env |-> ask.env, reason |-> ask.reason, version |-> 0,
           risk |-> ClassifyRisk(ask.words)] \in Request
        BY <2>2, <2>3 DEF Request
    <2>5. requests' \in [Clients -> Request \cup {Idle}]
        BY <2>1, <2>4
    <2> QED
        BY <1>2, <2>5 DEF ReadCommand
<1>3. ASSUME NEW c \in Clients, CommitExecution(c) PROVE WellFormed'
    <2>1. requests[c] \in Request
        BY <1>3, Tables DEF CommitExecution
    <2>2. PICK x \in Fresh(ExecutionIds, executions, NoExecution) :
              executions' = [executions EXCEPT ![x] =
                 [via |-> requests[c].kind, user |-> requests[c].user, approver |-> NoOne,
                  approval |-> 0, version |-> requests[c].version, risk |-> requests[c].risk,
                  env |-> requests[c].env, reason |-> requests[c].reason]]
        BY <1>3 DEF CommitExecution
    <2>3. [via |-> requests[c].kind, user |-> requests[c].user, approver |-> NoOne,
           approval |-> 0, version |-> requests[c].version, risk |-> requests[c].risk,
           env |-> requests[c].env, reason |-> requests[c].reason] \in Execution
        BY <2>1 DEF Request, Execution, Someone
    <2>4. /\ executions' \in [ExecutionIds -> Execution \cup {NoExecution}]
          /\ requests' \in [Clients -> Request \cup {Idle}]
        BY <1>3, <2>2, <2>3 DEF CommitExecution, Fresh
    <2> QED
        BY <1>3, <2>4 DEF CommitExecution
<1>4. ASSUME NEW c \in Clients, CommitApproval(c) PROVE WellFormed'
    <2>1. requests[c] \in Request
        BY <1>4, Tables DEF CommitApproval
    <2>2. PICK a \in Fresh(ApprovalIds, approvals, NoApproval) :
              approvals' = [approvals EXCEPT ![a] =
                 [status |-> "pending", expired |-> FALSE, user |-> requests[c].user,
                  approver |-> NoOne, version |-> requests[c].version, risk |-> requests[c].risk,
                  env |-> requests[c].env, reason |-> requests[c].reason]]
        BY <1>4 DEF CommitApproval
    <2>3. [status |-> "pending", expired |-> FALSE, user |-> requests[c].user,
           approver |-> NoOne, version |-> requests[c].version, risk |-> requests[c].risk,
           env |-> requests[c].env, reason |-> requests[c].reason] \in Approval
        BY <2>1 DEF Request, Approval, Someone
    <2>4. /\ approvals' \in [ApprovalIds -> Approval \cup {NoApproval}]
          /\ requests' \in [Clients -> Request \cup {Idle}]
        BY <1>4, <2>2, <2>3 DEF CommitApproval, Fresh
    <2> QED
        BY <1>4, <2>4 DEF CommitApproval
<1>5. ASSUME NEW c \in Clients, FindKeyTaken(c) PROVE WellFormed'
    BY <1>5 DEF FindKeyTaken
<1> QED
    BY <1>1, <1>2, <1>3, <1>4, <1>5 DEF AskForWork

\* What a decision makes of a request.
LEMMA DecidedApprovals ==
    ASSUME WellFormed, NEW a \in ApprovalIds, approvals[a] # NoApproval,
           NEW status \in {"pending", "approved", "denied"}, NEW who \in Someone, NEW late \in BOOLEAN
    PROVE  /\ approvals[a] \in Approval
           /\ [approvals[a] EXCEPT !.status = status, !.approver = who] \in Approval
           /\ [approvals[a] EXCEPT !.expired = late] \in Approval
<1>1. approvals[a] \in Approval
    BY Tables DEF WellFormed
<1>2. \A p \in Approval : /\ [p EXCEPT !.status = status, !.approver = who] \in Approval
                          /\ [p EXCEPT !.expired = late] \in Approval
    BY DEF Approval
<1> QED
    BY <1>1, <1>2

\* The handlers that decide a review, and its expiry.
LEMMA DecidingIsWellFormed ==
    ASSUME WellFormed, Decide
    PROVE  WellFormed'
<1> USE DEF WellFormed, Exists, work, catalogue, Someone
<1>1. ASSUME NEW u \in Users, NEW a \in ApprovalIds, Approve(u, a) PROVE WellFormed'
    <2>1. approvals[a] # NoApproval
        BY <1>1 DEF Approve, Live, NoApproval
    <2>2. /\ approvals[a] \in Approval
          /\ [approvals[a] EXCEPT !.status = "approved", !.approver = u] \in Approval
        BY <2>1, DecidedApprovals
    <2>3. approvals' = [approvals EXCEPT
              ![a] = [approvals[a] EXCEPT !.status = "approved", !.approver = u]]
        BY <1>1 DEF Approve
    <2>4. PICK x \in Fresh(ExecutionIds, executions, NoExecution) :
              executions' = [executions EXCEPT ![x] =
                [via |-> "approval", user |-> approvals[a].user, approver |-> u, approval |-> a,
                 version |-> approvals[a].version, risk |-> approvals[a].risk,
                 env |-> approvals[a].env, reason |-> approvals[a].reason]]
        BY <1>1 DEF Approve
    <2>5. [via |-> "approval", user |-> approvals[a].user, approver |-> u, approval |-> a,
           version |-> approvals[a].version, risk |-> approvals[a].risk,
           env |-> approvals[a].env, reason |-> approvals[a].reason] \in Execution
        BY <2>2 DEF Approval, Execution
    <2>6. /\ approvals' \in [ApprovalIds -> Approval \cup {NoApproval}]
          /\ executions' \in [ExecutionIds -> Execution \cup {NoExecution}]
        BY <2>2, <2>3, <2>4, <2>5 DEF Fresh
    <2> QED
        BY <1>1, <2>6 DEF Approve
<1>2. ASSUME NEW u \in Users, NEW a \in ApprovalIds, ApproveTooLate(u, a) PROVE WellFormed'
    BY <1>2 DEF ApproveTooLate
<1>3. ASSUME NEW u \in Users, NEW a \in ApprovalIds, Deny(u, a) PROVE WellFormed'
    <2>1. approvals[a] # NoApproval
        BY <1>3 DEF Deny, Live, NoApproval
    <2>2. approvals' = [approvals EXCEPT
              ![a] = [approvals[a] EXCEPT !.status = "denied", !.approver = u]]
        BY <1>3 DEF Deny
    <2>3. approvals' \in [ApprovalIds -> Approval \cup {NoApproval}]
        BY <2>1, <2>2, DecidedApprovals
    <2> QED
        BY <1>3, <2>3 DEF Deny
<1>4. ASSUME NEW a \in ApprovalIds, ApprovalExpires(a) PROVE WellFormed'
    <2>1. approvals' = [approvals EXCEPT ![a] = [approvals[a] EXCEPT !.expired = TRUE]]
        BY <1>4 DEF ApprovalExpires
    <2>2. approvals' \in [ApprovalIds -> Approval \cup {NoApproval}]
        BY <1>4, <2>1, DecidedApprovals DEF ApprovalExpires
    <2> QED
        BY <1>4, <2>2 DEF ApprovalExpires
<1>5. ASSUME CallerGivesUp PROVE WellFormed'
    BY <1>5 DEF CallerGivesUp
<1> QED
    BY <1>1, <1>2, <1>3, <1>4, <1>5 DEF Decide

\* The scheduler's read of a runbook and the run it makes.
LEMMA SchedulingIsWellFormed ==
    ASSUME WellFormed, RunSchedule
    PROVE  WellFormed'
<1> USE DEF WellFormed, Exists, work, catalogue
<1>1. ASSUME ReadScheduled PROVE WellFormed'
    <2>1. CurrentVersion \in Version /\ runbook.current \in VersionIds
        BY <1>1 DEF ReadScheduled, CurrentVersion
    <2>2. CurrentVersion.def.risk \in Spellings
        BY <2>1 DEF Version, Spellings
    <2>3. PICK s \in Schedules :
              scheduled' = [at |-> "run", user |-> s.user, env |-> s.env, reason |-> s.reason,
                            version |-> runbook.current, risk |-> CurrentVersion.def.risk]
        BY <1>1 DEF ReadScheduled
    <2>4. s.env \in AskedEnvironments
        BY DEF AskedEnvironments, Asks
    <2>5. scheduled' \in ScheduledRun
        BY <2>1, <2>2, <2>3, <2>4 DEF ScheduledRun
    <2> QED
        BY <1>1, <2>5 DEF ReadScheduled
<1>2. ASSUME CommitScheduled PROVE WellFormed'
    <2>1. PICK x \in Fresh(ExecutionIds, executions, NoExecution) :
              executions' = [executions EXCEPT ![x] =
                [via |-> "schedule", user |-> scheduled.user, approver |-> NoOne, approval |-> 0,
                 version |-> scheduled.version, risk |-> scheduled.risk,
                 env |-> scheduled.env, reason |-> scheduled.reason]]
        BY <1>2 DEF CommitScheduled
    <2>2. scheduled \in ScheduledRun
        BY <1>2 DEF CommitScheduled
    <2>3. [via |-> "schedule", user |-> scheduled.user, approver |-> NoOne, approval |-> 0,
           version |-> scheduled.version, risk |-> scheduled.risk,
           env |-> scheduled.env, reason |-> scheduled.reason] \in Execution
        BY <2>2 DEF ScheduledRun, Execution, Someone
    <2>4. executions' \in [ExecutionIds -> Execution \cup {NoExecution}]
        BY <2>1, <2>3 DEF Fresh
    <2> QED
        BY <1>2, <2>4 DEF CommitScheduled
<1> QED
    BY <1>1, <1>2 DEF RunSchedule

(***************************************************************************)
(* Rows are well formed in every reachable state.                          *)
(***************************************************************************)
THEOREM GovernanceIsWellFormed == GovernanceSpec => []WellFormed
<1>1. ASSUME WellFormed, [GovernanceNext]_governanceVars PROVE WellFormed'
    <2>1. CASE UNCHANGED governanceVars
        BY <1>1, <2>1 DEF WellFormed, Exists, governanceVars
    <2> QED
        BY <1>1, <2>1, EditingIsWellFormed, AskingIsWellFormed, DecidingIsWellFormed,
           SchedulingIsWellFormed DEF GovernanceNext
<1> QED
    BY WellFormedInit, <1>1, PTL DEF GovernanceSpec

(***************************************************************************)
(* The columns of the tables (migrate.go:89-204).                          *)
(***************************************************************************)
THEOREM GovernanceTypes == GovernanceSpec => []GovernanceTypeOK
<1>1. WellFormed => GovernanceTypeOK
    BY DEF WellFormed, GovernanceTypeOK, Version, Approval, Execution, Someone, Made, Asked
<1> QED
    BY <1>1, GovernanceIsWellFormed, PTL

(***************************************************************************)
(* Version numbers.  An editor's number is at most one beyond the current  *)
(* version's, and no number up to that one is free: of two editors that    *)
(* read the same version, the second finds its number taken.               *)
(***************************************************************************)
Number(v) == versions[v].number

Numbered ==
    /\ \A v, w \in VersionIds : Exists(v) /\ Exists(w) /\ Number(v) = Number(w) => v = w
    /\ runbook.status # "none" =>
          /\ \A v \in VersionIds : Exists(v) => Number(v) <= Number(runbook.current)
          /\ \A n \in 1 .. Number(runbook.current) :
                \E v \in VersionIds : Exists(v) /\ Number(v) = n
    /\ \A e \in Editors : editor[e].at = "update" =>
          /\ runbook.status # "none"
          /\ editor[e].number \in 1 .. (Number(runbook.current) + 1)

\* Versions keep their numbers, and the current one keeps the highest, through every
\* step.
LEMMA NumberedStep ==
    ASSUME WellFormed, Numbered, [GovernanceNext]_governanceVars
    PROVE  Numbered'
<1> USE DEF Numbered, Number, Exists
<1>0. \A v \in VersionIds : Exists(v) => versions[v] \in Version /\ versions[v].number \in Nat
    <2>1. \A r \in Version : r.number \in Nat
        BY DEF Version
    <2>2. \A v \in VersionIds : Exists(v) => versions[v] \in Version
        BY SMTT(30) DEF WellFormed
    <2> QED
        BY <2>1, <2>2
<1>1. ASSUME CreateRunbook PROVE Numbered'
    <2>1. \A v \in VersionIds : versions[v] = NoVersion
        BY <1>1 DEF CreateRunbook, WellFormed
    <2>2. PICK d \in Definitions :
              versions' = [versions EXCEPT ![1] = [status |-> "draft", number |-> 1, def |-> d]]
        BY <1>1 DEF CreateRunbook
    <2>3. /\ \A v \in VersionIds : versions'[v] # NoVersion => v = 1
          /\ versions'[1] = [status |-> "draft", number |-> 1, def |-> d]
          /\ versions'[1] # NoVersion
        BY <2>1, <2>2 DEF WellFormed, NoVersion
    <2>4. \A e \in Editors : editor[e].at # "update"
        BY <1>1 DEF CreateRunbook
    <2> QED
        BY <1>1, <2>3, <2>4 DEF CreateRunbook
<1>2. ASSUME ArchiveRunbook PROVE Numbered'
    BY <1>2 DEF ArchiveRunbook, WellFormed
<1>3. ASSUME NEW e \in Editors, ReadToPublish(e) PROVE Numbered'
    BY <1>3 DEF ReadToPublish, WellFormed
<1>4. ASSUME NEW e \in Editors, MarkRunbook(e) PROVE Numbered'
    <2>1. runbook.status # "none" /\ runbook'.current = runbook.current
        BY <1>4 DEF MarkRunbook, WellFormed
    <2>2. \A f \in Editors : editor'[f].at = "update" => editor'[f] = editor[f]
        <3>1. editor[e] \in [at : {"publish", "mark"}, version : VersionIds]
            BY <1>4, EditorShapes DEF MarkRunbook, WellFormed
        <3> QED
            BY <1>4, <3>1 DEF MarkRunbook, WellFormed
    <2> QED
        BY <1>4, <2>1, <2>2 DEF MarkRunbook
<1>5. ASSUME NEW e \in Editors, MarkVersion(e) PROVE Numbered'
    <2> DEFINE v == editor[e].version
    <2>1. v \in VersionIds /\ versions[v] \in Version
        BY <1>5, <1>0 DEF MarkVersion, WellFormed
    <2>2. versions' = [versions EXCEPT ![v] = [versions[v] EXCEPT !.status = "published"]]
        BY <1>5 DEF MarkVersion
    <2>3. [versions[v] EXCEPT !.status = "published"] # NoVersion
        BY <2>1 DEF Version, NoVersion
    <2>4. [versions[v] EXCEPT !.status = "published"].number = versions[v].number
        BY <2>1 DEF Version
    <2>5. versions[v] # NoVersion
        BY <2>1, Tables
    <2> HIDE DEF v
    <2>6. \A w \in VersionIds : /\ (versions'[w] # NoVersion) <=> (versions[w] # NoVersion)
                                /\ versions'[w].number = versions[w].number
        BY <2>1, <2>2, <2>3, <2>4, <2>5 DEF WellFormed
    <2>7. runbook.status # "none" => runbook.current \in VersionIds
        BY DEF WellFormed
    <2>8. /\ runbook' = runbook
          /\ \A f \in Editors : editor'[f].at = "update" => editor'[f] = editor[f]
        BY <1>5 DEF MarkVersion, WellFormed, Idle
    <2> QED
        BY <2>6, <2>7, <2>8
<1>6. ASSUME NEW e \in Editors, ReadToUpdate(e) PROVE Numbered'
    <2> DEFINE last == versions[runbook.current].number
    <2>1. last \in Nat /\ runbook.status # "none"
        BY <1>0, <1>6 DEF ReadToUpdate, WellFormed
    <2>2. editor' = [editor EXCEPT ![e] = [at |-> "update", number |-> last + 1]]
        BY <1>6 DEF ReadToUpdate, CurrentVersion
    <2>3. \A f \in Editors : editor[f].at = "update" => editor[f].number \in 1 .. (last + 1)
        BY DEF last
    <2>4. \A f \in Editors : editor'[f] = editor[f] \/ editor'[f].number = last + 1
        BY <2>2 DEF WellFormed
    <2>5. last' = last
        BY <1>6 DEF ReadToUpdate
    <2> HIDE DEF last
    <2>6. \A f \in Editors : editor'[f].at = "update" => editor'[f].number \in 1 .. (last + 1)
        BY <2>1, <2>3, <2>4
    <2> QED
        BY <1>6, <2>1, <2>5, <2>6 DEF ReadToUpdate, last
<1>7. ASSUME NEW e \in Editors, InsertVersion(e) PROVE Numbered'
    <2> DEFINE n == editor[e].number
               last == versions[runbook.current].number
    <2>1. PICK v \in Fresh(VersionIds, versions, NoVersion), d \in Definitions :
              /\ versions' = [versions EXCEPT ![v] = [status |-> "draft", number |-> n, def |-> d]]
              /\ runbook' = [status |-> "draft", current |-> v]
        BY <1>7 DEF InsertVersion
    <2>2. /\ v \in VersionIds /\ versions[v] = NoVersion
          /\ runbook.current \in VersionIds /\ last \in Nat
          /\ runbook.status # "none"
        BY <1>7, <1>0 DEF InsertVersion, WellFormed, Fresh
    <2>3. n = last + 1
        <3>1. n \in 1 .. (last + 1)
            BY <1>7 DEF InsertVersion
        <3>2. n \notin 1 .. last
            BY <1>7, <2>2 DEF InsertVersion, NumberIsFree
        <3>3. last \in Nat
            BY <2>2
        <3> HIDE DEF n, last
        <3> QED
            BY <3>1, <3>2, <3>3
    <2>4. [status |-> "draft", number |-> n, def |-> d] # NoVersion
        BY DEF NoVersion
    <2>5. /\ \A w \in VersionIds : w # v => versions'[w] = versions[w]
          /\ versions'[v] # NoVersion /\ versions'[v].number = last + 1
        BY <2>1, <2>2, <2>3, <2>4 DEF WellFormed
    <2>6. /\ \A f \in Editors : editor'[f].at = "update" => editor'[f] = editor[f]
          /\ runbook'.current = v /\ runbook'.status # "none"
        BY <1>7, <2>1 DEF InsertVersion, WellFormed, Idle
    <2> HIDE DEF n, last
    <2>7. \A w \in VersionIds : versions[w] # NoVersion =>
              w # v /\ versions[w].number \in Nat /\ versions[w].number <= last
        BY <1>0, <2>2 DEF last
    <2>8. \A i \in 1 .. (last + 1) : \E w \in VersionIds :
              versions'[w] # NoVersion /\ versions'[w].number = i
        <3> TAKE i \in 1 .. (last + 1)
        <3>1. CASE i = last + 1
            BY <2>2, <2>5, <3>1
        <3>2. CASE i # last + 1
            <4>1. i \in 1 .. last
                BY <2>2, <3>2
            <4>2. PICK w \in VersionIds : versions[w] # NoVersion /\ versions[w].number = i
                BY <2>2, <4>1 DEF last
            <4> QED
                BY <2>5, <2>7, <4>2
        <3> QED
            BY <3>1, <3>2
    <2>9. \A w \in VersionIds : versions'[w] # NoVersion =>
              /\ versions'[w].number <= last + 1
              /\ versions'[w].number = last + 1 => w = v
        BY <2>2, <2>5, <2>7
    <2>10. \A u, w \in VersionIds :
              (versions'[u] # NoVersion /\ versions'[w] # NoVersion
               /\ versions'[u].number = versions'[w].number) => u = w
        BY <2>5, <2>9
    <2>11. \A f \in Editors : editor'[f].at = "update" => editor'[f].number \in 1 .. (last + 1 + 1)
        <3>1. \A f \in Editors : editor[f].at = "update" => editor[f].number \in 1 .. (last + 1)
            BY DEF last
        <3>2. last \in Nat
            BY <2>2
        <3> QED
            BY <2>6, <3>1, <3>2
    <2>12. versions'[runbook'.current].number = last + 1
        BY <2>5, <2>6
    <2> QED
        BY <2>6, <2>8, <2>9, <2>10, <2>11, <2>12
<1>8. ASSUME NEW e \in Editors, EditorStops(e) PROVE Numbered'
    BY <1>8 DEF EditorStops, WellFormed, Idle
<1>9. CASE UNCHANGED catalogue
    BY <1>9 DEF catalogue
<1>10. AskForWork \/ Decide \/ RunSchedule \/ UNCHANGED governanceVars => UNCHANGED catalogue
    BY DEF AskForWork, Decide, RunSchedule, ReadRun, ReadCommand, CommitExecution, CommitApproval,
           FindKeyTaken, Approve, ApproveTooLate, Deny, ApprovalExpires, CallerGivesUp,
           ReadScheduled, CommitScheduled, governanceVars, catalogue
<1> QED
    BY <1>1, <1>2, <1>3, <1>4, <1>5, <1>6, <1>7, <1>8, <1>9, <1>10 DEF GovernanceNext, EditCatalogue

(***************************************************************************)
(* The current version has the highest number, and numbers are unique,     *)
(* whatever editors read before (runbooks.go:302-345).                     *)
(***************************************************************************)
THEOREM NewestIsCurrent == GovernanceSpec => []CurrentIsNewest
<1>1. GovernanceInit => Numbered
    BY DEF GovernanceInit, Numbered, Exists, Idle
<1>2. Numbered => CurrentIsNewest
    BY DEF Numbered, Number, Exists, CurrentIsNewest
<1> QED
    BY <1>1, <1>2, NumberedStep, GovernanceIsWellFormed, PTL DEF GovernanceSpec

(***************************************************************************)
(* Idempotency keys.  Every answer is a row of the key tables, a row is    *)
(* all that a key of its kind has, and what it names was made for its      *)
(* user.                                                                   *)
(***************************************************************************)
Names(m) ==
    CASE m.resource.is = "execution" ->
            m.resource.id \in ExecutionIds /\ Made(m.resource.id) /\ executions[m.resource.id].user = m.user
      [] m.resource.is = "approval" ->
            m.resource.id \in ApprovalIds /\ Asked(m.resource.id) /\ approvals[m.resource.id].user = m.user

KeysAreKept ==
    /\ answers \subseteq keyed
    /\ \A m, n \in keyed : m.kind = n.kind /\ m.key = n.key => m = n
    /\ \A m \in keyed :
          /\ m = [kind |-> m.kind, user |-> m.user, key |-> m.key, payload |-> m.payload,
                  resource |-> m.resource]
          /\ m.resource.is \in {"execution", "approval"}
          /\ Names(m)

\* Rows of executions and approvals stay, with their users.
RowsStay ==
    /\ \A x \in ExecutionIds : Made(x) => Made(x)' /\ executions'[x].user = executions[x].user
    /\ \A a \in ApprovalIds : Asked(a) => Asked(a)' /\ approvals'[a].user = approvals[a].user

\* A step that records no key, and keeps the rows, keeps what every key names.
LEMMA KeysUnchanged ==
    ASSUME KeysAreKept, RowsStay, UNCHANGED <<keyed, answers>>
    PROVE  KeysAreKept'
<1>1. \A m \in keyed : Names(m)'
    <2> TAKE m \in keyed
    <2>1. CASE m.resource.is = "execution"
        BY <2>1 DEF KeysAreKept, Names, RowsStay
    <2>2. CASE m.resource.is = "approval"
        BY <2>2 DEF KeysAreKept, Names, RowsStay
    <2> QED
        BY <2>1, <2>2 DEF KeysAreKept
<1> QED
    BY <1>1 DEF KeysAreKept

\* A key recorded together with the row it names.
LEMMA KeyInserted ==
    ASSUME KeysAreKept, RowsStay, NEW r, NEW resource,
           RecordKey(r, resource), resource.is \in {"execution", "approval"},
           Names(Answer(r, resource))'
    PROVE  KeysAreKept'
<1>1. CASE r.key = NoKey
    BY <1>1, KeysUnchanged DEF RecordKey
<1>2. CASE r.key # NoKey
    <2> DEFINE new == Answer(r, resource)
    <2>1. /\ keyed' = keyed \cup {new}
          /\ answers' = answers \cup {new}
          /\ ~Taken(r.kind, r.key)
        BY <1>2 DEF RecordKey
    <2>2. /\ new = [kind |-> new.kind, user |-> new.user, key |-> new.key,
                    payload |-> new.payload, resource |-> new.resource]
          /\ new.kind = r.kind /\ new.key = r.key
          /\ new.resource.is \in {"execution", "approval"}
        BY DEF Answer
    <2>3. \A m \in keyed : m.kind # new.kind \/ m.key # new.key
        BY <2>1, <2>2 DEF Taken
    <2>4. \A m \in keyed : Names(m)'
        <3> TAKE m \in keyed
        <3>1. CASE m.resource.is = "execution"
            BY <3>1 DEF KeysAreKept, Names, RowsStay
        <3>2. CASE m.resource.is = "approval"
            BY <3>2 DEF KeysAreKept, Names, RowsStay
        <3> QED
            BY <3>1, <3>2 DEF KeysAreKept
    <2>5. Names(new)'
        BY DEF Answer
    <2> HIDE DEF new
    <2> QED
        BY <2>1, <2>2, <2>3, <2>4, <2>5 DEF KeysAreKept
<1> QED
    BY <1>1, <1>2

\* Every step keeps each key with one row, made by its owner's request.
LEMMA KeysStep ==
    ASSUME WellFormed, KeysAreKept, [GovernanceNext]_governanceVars
    PROVE  KeysAreKept'
<1> USE DEF work, Made, Asked
<1>1. ASSUME NEW c \in Clients, CommitExecution(c) PROVE KeysAreKept'
    <2>0. PICK r : r = requests[c]
        OBVIOUS
    <2>1. PICK x \in Fresh(ExecutionIds, executions, NoExecution) :
              /\ executions' = [executions EXCEPT ![x] =
                    [via |-> r.kind, user |-> r.user, approver |-> NoOne,
                     approval |-> 0, version |-> r.version, risk |-> r.risk,
                     env |-> r.env, reason |-> r.reason]]
              /\ RecordKey(r, [is |-> "execution", id |-> x])
        BY <1>1, <2>0 DEF CommitExecution
    <2>2. x \in ExecutionIds /\ executions[x] = NoExecution
        BY DEF Fresh
    <2>4. RowsStay
        BY <1>1, <2>1, <2>2 DEF CommitExecution, RowsStay, WellFormed
    <2>5. /\ executions'[x].user = r.user
          /\ executions'[x] # NoExecution
        BY <2>1, <2>2 DEF WellFormed, NoExecution
    <2>6. Names(Answer(r, [is |-> "execution", id |-> x]))'
        BY <2>2, <2>5 DEF Names, Answer
    <2> QED
        BY <2>1, <2>4, <2>6, KeyInserted
<1>2. ASSUME NEW c \in Clients, CommitApproval(c) PROVE KeysAreKept'
    <2>0. PICK r : r = requests[c]
        OBVIOUS
    <2>1. PICK a \in Fresh(ApprovalIds, approvals, NoApproval) :
              /\ approvals' = [approvals EXCEPT ![a] =
                    [status |-> "pending", expired |-> FALSE, user |-> r.user,
                     approver |-> NoOne, version |-> r.version, risk |-> r.risk,
                     env |-> r.env, reason |-> r.reason]]
              /\ RecordKey(r, [is |-> "approval", id |-> a])
        BY <1>2, <2>0 DEF CommitApproval
    <2>2. a \in ApprovalIds /\ approvals[a] = NoApproval
        BY DEF Fresh
    <2>4. RowsStay
        BY <1>2, <2>1, <2>2 DEF CommitApproval, RowsStay, WellFormed
    <2>5. /\ approvals'[a].user = r.user
          /\ approvals'[a] # NoApproval
        BY <2>1, <2>2 DEF WellFormed, NoApproval
    <2>6. Names(Answer(r, [is |-> "approval", id |-> a]))'
        BY <2>2, <2>5 DEF Names, Answer
    <2> QED
        BY <2>1, <2>4, <2>6, KeyInserted
<1>3. ASSUME NEW c \in Clients, FindKeyTaken(c) PROVE KeysAreKept'
    <2>1. answers' \subseteq keyed
        <3>1. \A m \in Mine(requests[c].kind, requests[c].user, requests[c].key) :
                  m.payload = Payload(requests[c]) => Answer(requests[c], m.resource) = m
            BY DEF Mine, Answer, KeysAreKept
        <3> QED
            BY <1>3, <3>1 DEF FindKeyTaken, Mine, KeysAreKept
    <2> QED
        BY <1>3, <2>1 DEF FindKeyTaken, KeysAreKept, Names
<1>4. ASSUME NEW u \in Users, NEW a \in ApprovalIds, Approve(u, a) PROVE KeysAreKept'
    <2>1. approvals[a] # NoApproval
        BY <1>4 DEF Approve, Live, NoApproval
    <2>2. approvals[a] \in Approval
        BY <2>1, Tables DEF WellFormed
    <2>3. approvals' = [approvals EXCEPT
              ![a] = [approvals[a] EXCEPT !.status = "approved", !.approver = u]]
        BY <1>4 DEF Approve
    <2>4. /\ [approvals[a] EXCEPT !.status = "approved", !.approver = u] # NoApproval
          /\ [approvals[a] EXCEPT !.status = "approved", !.approver = u].user = approvals[a].user
        BY <2>2 DEF Approval, NoApproval
    <2>5. PICK x \in Fresh(ExecutionIds, executions, NoExecution) :
              \E e : executions' = [executions EXCEPT ![x] = e]
        BY <1>4 DEF Approve
    <2>6. RowsStay
        BY <2>3, <2>4, <2>5, <1>4 DEF RowsStay, WellFormed, Fresh, Approve
    <2> QED
        BY <1>4, <2>6, KeysUnchanged DEF Approve
<1>5. ASSUME NEW u \in Users, NEW a \in ApprovalIds, Deny(u, a) PROVE KeysAreKept'
    <2>1. approvals[a] # NoApproval
        BY <1>5 DEF Deny, Live, NoApproval
    <2>2. approvals[a] \in Approval
        BY <2>1, Tables DEF WellFormed
    <2>3. approvals' = [approvals EXCEPT
              ![a] = [approvals[a] EXCEPT !.status = "denied", !.approver = u]]
        BY <1>5 DEF Deny
    <2>4. /\ [approvals[a] EXCEPT !.status = "denied", !.approver = u] # NoApproval
          /\ [approvals[a] EXCEPT !.status = "denied", !.approver = u].user = approvals[a].user
        BY <2>2 DEF Approval, NoApproval
    <2>5. RowsStay
        BY <1>5, <2>3, <2>4 DEF RowsStay, WellFormed, Deny
    <2> QED
        BY <1>5, <2>5, KeysUnchanged DEF Deny
<1>6. ASSUME NEW a \in ApprovalIds, ApprovalExpires(a) PROVE KeysAreKept'
    <2>1. approvals[a] \in Approval
        BY <1>6, Tables DEF WellFormed, ApprovalExpires
    <2>2. approvals' = [approvals EXCEPT ![a] = [approvals[a] EXCEPT !.expired = TRUE]]
        BY <1>6 DEF ApprovalExpires
    <2>3. /\ [approvals[a] EXCEPT !.expired = TRUE] # NoApproval
          /\ [approvals[a] EXCEPT !.expired = TRUE].user = approvals[a].user
        BY <2>1 DEF Approval, NoApproval
    <2>4. RowsStay
        BY <1>6, <2>2, <2>3 DEF RowsStay, WellFormed, ApprovalExpires
    <2> QED
        BY <1>6, <2>4, KeysUnchanged DEF ApprovalExpires
<1>7. ASSUME CommitScheduled PROVE KeysAreKept'
    <2>1. PICK x \in Fresh(ExecutionIds, executions, NoExecution) :
              executions' = [executions EXCEPT ![x] =
                [via |-> "schedule", user |-> scheduled.user, approver |-> NoOne, approval |-> 0,
                 version |-> scheduled.version, risk |-> scheduled.risk,
                 env |-> scheduled.env, reason |-> scheduled.reason]]
        BY <1>7 DEF CommitScheduled
    <2>2. RowsStay
        BY <1>7, <2>1 DEF CommitScheduled, RowsStay, WellFormed, Fresh
    <2> QED
        BY <1>7, <2>2, KeysUnchanged DEF CommitScheduled
<1>8. CASE UNCHANGED work
    BY <1>8 DEF KeysAreKept, Names
<1>9. /\ EditCatalogue \/ ReadScheduled \/ UNCHANGED governanceVars => UNCHANGED work
      /\ \A c \in Clients : ReadRun(c) \/ ReadCommand(c) => UNCHANGED work
      /\ \A u \in Users, a \in ApprovalIds : ApproveTooLate(u, a) => UNCHANGED work
      /\ CallerGivesUp => UNCHANGED work
    BY DEF EditCatalogue, CreateRunbook, ArchiveRunbook, ReadToPublish, MarkRunbook, MarkVersion,
           ReadToUpdate, InsertVersion, EditorStops, ReadScheduled, ReadRun, ReadCommand,
           ApproveTooLate, CallerGivesUp, governanceVars
<1> QED
    BY <1>1, <1>2, <1>3, <1>4, <1>5, <1>6, <1>7, <1>8, <1>9
       DEF GovernanceNext, AskForWork, Decide, RunSchedule

(***************************************************************************)
(* One user's key has one resource, however many requests carry it at once *)
(* (executions.go:292, runbooks.go:521 and :593).                          *)
(***************************************************************************)
THEOREM KeysNameOneResource == GovernanceSpec => []OneResourcePerKey
<1>1. GovernanceInit => KeysAreKept
    BY DEF GovernanceInit, KeysAreKept
<1>2. KeysAreKept => OneResourcePerKey
    <2> SUFFICES ASSUME KeysAreKept PROVE OneResourcePerKey
        OBVIOUS
    <2>1. \A r, s \in answers : r.kind = s.kind /\ r.user = s.user /\ r.key = s.key => r = s
        BY DEF KeysAreKept
    <2>2. \A r \in answers : Names(r) /\ r.resource.is \in {"execution", "approval"}
        BY DEF KeysAreKept
    <2> QED
        BY <2>1, <2>2 DEF Names, OneResourcePerKey
<1> QED
    BY <1>1, <1>2, KeysStep, GovernanceIsWellFormed, PTL DEF GovernanceSpec

-----------------------------------------------------------------------------
(* Reviews and approvals. *)

(***************************************************************************)
(* Reviews.  What an execution without a review may be, and what a handler *)
(* holds that is about to create one; the definition of a version stays.   *)
(***************************************************************************)
OfItsVersion(r) == r.version # 0 => Exists(r.version) /\ r.risk = versions[r.version].def.risk

\* What a request for a review says, and the execution that comes of it.
Reasoned(r) == r.reason /\ OfItsVersion(r)

Unreviewed(via, r) ==
    /\ via = "command" => IsSenior(RoleOf[r.user]) /\ r.version = 0
    /\ via # "command" /\ r.env = "production" => r.risk \notin {"high", "critical"}
    /\ r.env = "production" => IsSenior(RoleOf[r.user]) /\ r.reason
    /\ r.risk = "high" => IsSenior(RoleOf[r.user])
    /\ via = "schedule" => r.risk \notin {"high", "critical"}
    /\ via # "command" => Exists(r.version)
    /\ OfItsVersion(r)
    /\ via = "runbook" => versions[r.version].def.approval \notin {"*", r.env}

ReviewedOrAllowed(e) == IF e.via = "approval" THEN Reasoned(e) ELSE Unreviewed(e.via, e)

ReviewsAreKept ==
    /\ \A c \in Clients : requests[c].at = "run" => Unreviewed(requests[c].kind, requests[c])
    /\ \A c \in Clients : requests[c].at = "ask" => Reasoned(requests[c])
    /\ scheduled # Idle => Unreviewed("schedule", scheduled)
    /\ \A a \in ApprovalIds : Asked(a) => Reasoned(approvals[a])
    /\ \A x \in ExecutionIds : Made(x) => ReviewedOrAllowed(executions[x])

DefinitionsStay ==
    \A v \in VersionIds : Exists(v) => Exists(v)' /\ versions'[v].def = versions[v].def

\* No edit of the catalogue changes the definition of a version that exists.
LEMMA EditingKeepsDefinitions ==
    ASSUME WellFormed, EditCatalogue
    PROVE  DefinitionsStay /\ UNCHANGED <<requests, scheduled, work>>
<1> USE DEF DefinitionsStay, Exists
<1>1. ASSUME CreateRunbook PROVE DefinitionsStay
    <2>1. \A v \in VersionIds : versions[v] = NoVersion
        BY <1>1 DEF CreateRunbook, WellFormed
    <2> QED
        BY <2>1
<1>2. ASSUME NEW e \in Editors, MarkVersion(e) PROVE DefinitionsStay
    <2> DEFINE v == editor[e].version
    <2>1. v \in VersionIds /\ versions[v] \in Version
        BY <1>2, Tables DEF MarkVersion, WellFormed
    <2>2. versions' = [versions EXCEPT ![v] = [versions[v] EXCEPT !.status = "published"]]
        BY <1>2 DEF MarkVersion
    <2>3. /\ [versions[v] EXCEPT !.status = "published"] # NoVersion
          /\ [versions[v] EXCEPT !.status = "published"].def = versions[v].def
        BY <2>1 DEF Version, NoVersion
    <2> HIDE DEF v
    <2> QED
        BY <2>1, <2>2, <2>3 DEF WellFormed
<1>3. ASSUME NEW e \in Editors, InsertVersion(e) PROVE DefinitionsStay
    <2>1. PICK v \in Fresh(VersionIds, versions, NoVersion) :
              \E version : versions' = [versions EXCEPT ![v] = version]
        BY <1>3 DEF InsertVersion
    <2> QED
        BY <2>1 DEF Fresh, WellFormed
<1>4. ASSUME UNCHANGED versions PROVE DefinitionsStay
    BY <1>4
<1>5. DefinitionsStay
    BY <1>1, <1>2, <1>3, <1>4
       DEF EditCatalogue, ArchiveRunbook, ReadToPublish, MarkRunbook, ReadToUpdate, EditorStops
<1>6. UNCHANGED <<requests, scheduled, work>>
    BY DEF EditCatalogue, CreateRunbook, ArchiveRunbook, ReadToPublish, MarkRunbook, MarkVersion,
           ReadToUpdate, InsertVersion, EditorStops
<1> QED
    BY <1>5, <1>6

\* What was allowed stays allowed as versions come and are published.
LEMMA AllowedStays ==
    ASSUME DefinitionsStay, NEW via, NEW r
    PROVE  /\ Unreviewed(via, r) => Unreviewed(via, r)'
           /\ Reasoned(r) => Reasoned(r)'
BY DEF DefinitionsStay, OfItsVersion, Reasoned, Unreviewed, Exists

\* Steps that leave requests and rows alone keep what was allowed to run without a
\* review.
LEMMA ReviewsUnchanged ==
    ASSUME ReviewsAreKept, DefinitionsStay, UNCHANGED <<requests, scheduled, work>>
    PROVE  ReviewsAreKept'
<1> USE DEF ReviewsAreKept, work, Made, Asked
<1>1. ASSUME NEW c \in Clients, requests[c].at = "run"
      PROVE  Unreviewed(requests[c].kind, requests[c])'
    <2>1. PICK r : r = requests[c]
        OBVIOUS
    <2>2. Unreviewed(r.kind, r)'
        BY <1>1, <2>1, AllowedStays
    <2> QED
        BY <2>1, <2>2 DEF Reasoned, OfItsVersion, Unreviewed
<1>2. ASSUME scheduled # Idle PROVE Unreviewed("schedule", scheduled)'
    <2>1. PICK r : r = scheduled
        OBVIOUS
    <2>2. Unreviewed("schedule", r)'
        BY <1>2, <2>1, AllowedStays
    <2> QED
        BY <2>1, <2>2 DEF Reasoned, OfItsVersion, Unreviewed
<1>3. ASSUME NEW x \in ExecutionIds, Made(x) PROVE ReviewedOrAllowed(executions[x])'
    <2>1. PICK e : e = executions[x]
        OBVIOUS
    <2>2. CASE e.via = "approval"
        <3>1. Reasoned(e)'
            BY <1>3, <2>1, <2>2, AllowedStays DEF ReviewedOrAllowed
        <3> QED
            BY <2>1, <2>2, <3>1 DEF Reasoned, OfItsVersion, ReviewedOrAllowed
    <2>3. CASE e.via # "approval"
        <3>1. Unreviewed(e.via, e)'
            BY <1>3, <2>1, <2>3, AllowedStays DEF ReviewedOrAllowed
        <3> QED
            BY <2>1, <2>3, <3>1 DEF Reasoned, OfItsVersion, ReviewedOrAllowed, Unreviewed
    <2> QED
        BY <2>2, <2>3
<1>4. ASSUME NEW c \in Clients, requests[c].at = "ask" PROVE Reasoned(requests[c])'
    <2>1. PICK r : r = requests[c]
        OBVIOUS
    <2>2. Reasoned(r)'
        BY <1>4, <2>1, AllowedStays
    <2> QED
        BY <2>1, <2>2 DEF Reasoned, OfItsVersion
<1>5. ASSUME NEW a \in ApprovalIds, Asked(a) PROVE Reasoned(approvals[a])'
    <2>1. PICK p : p = approvals[a]
        OBVIOUS
    <2>2. Reasoned(p)'
        BY <1>5, <2>1, AllowedStays
    <2> QED
        BY <2>1, <2>2 DEF Reasoned, OfItsVersion
<1> QED
    BY <1>1, <1>2, <1>3, <1>4, <1>5

\* Every step keeps it that what runs unreviewed was allowed to.
LEMMA ReviewsStep ==
    ASSUME WellFormed, ReviewsAreKept, [GovernanceNext]_governanceVars
    PROVE  ReviewsAreKept'
<1> USE DEF ReviewsAreKept, Made, Asked, work, catalogue
<1>1. ASSUME EditCatalogue PROVE ReviewsAreKept'
    BY <1>1, EditingKeepsDefinitions, ReviewsUnchanged
<1>2. ASSUME NEW c \in Clients, ReadRun(c) PROVE ReviewsAreKept'
    <2> DEFINE d == CurrentVersion.def
    <2>1. PICK ask \in RunAsks :
              LET role == RoleOf[ask.user]
                  needsApproval == RunNeedsApproval(d, role, ask.env)
              IN  /\ IF needsApproval
                       THEN ask.reason
                       ELSE CheckRunbookExecution(role, ask.env, d.risk, ask.reason)
                  /\ requests' = [requests EXCEPT ![c] =
                        [at |-> IF needsApproval THEN "ask" ELSE "run",
                         kind |-> "runbook", user |-> ask.user, key |-> ask.key, env |-> ask.env,
                         reason |-> ask.reason, version |-> runbook.current, risk |-> d.risk]]
        BY <1>2 DEF ReadRun
    <2>2. Exists(runbook.current)
        BY <1>2 DEF ReadRun, WellFormed
    <2>3. requests'[c] = [at |-> IF RunNeedsApproval(d, RoleOf[ask.user], ask.env) THEN "ask" ELSE "run",
                          kind |-> "runbook", user |-> ask.user, key |-> ask.key, env |-> ask.env,
                          reason |-> ask.reason, version |-> runbook.current, risk |-> d.risk]
        BY <2>1 DEF WellFormed
    <2>4. /\ requests'[c].at = "ask" => requests'[c].reason
          /\ OfItsVersion(requests'[c])
        BY <2>1, <2>2, <2>3 DEF OfItsVersion, CurrentVersion
    <2>5. requests'[c].at = "run" => Unreviewed("runbook", requests'[c])
        BY <2>1, <2>2, <2>3
           DEF Reasoned, OfItsVersion, Unreviewed, RunNeedsApproval, NeedsApproval, CheckRunbookExecution, CurrentVersion
    <2>6. requests'[c].kind = "runbook"
        BY <2>3
    <2>7. \A b \in Clients : b # c => requests'[b] = requests[b]
        BY <2>1 DEF WellFormed
    <2>8. UNCHANGED <<versions, scheduled, approvals, executions>>
        BY <1>2 DEF ReadRun
    <2> HIDE DEF d
    <2> QED
        BY <2>4, <2>5, <2>6, <2>7, <2>8 DEF Reasoned, OfItsVersion, Unreviewed, Exists, ReviewedOrAllowed
<1>3. ASSUME NEW c \in Clients, ReadCommand(c) PROVE ReviewsAreKept'
    <2>1. PICK ask \in CommandAsks :
              /\ CheckExecution(RoleOf[ask.user], ask.env, ClassifyRisk(ask.words), ask.reason)
              /\ requests' = [requests EXCEPT ![c] =
                    [at |-> "run", kind |-> "command", user |-> ask.user, key |-> ask.key,
                     env |-> ask.env, reason |-> ask.reason, version |-> 0,
                     risk |-> ClassifyRisk(ask.words)]]
        BY <1>3 DEF ReadCommand
    <2>2. requests'[c] = [at |-> "run", kind |-> "command", user |-> ask.user, key |-> ask.key,
                          env |-> ask.env, reason |-> ask.reason, version |-> 0,
                          risk |-> ClassifyRisk(ask.words)]
        BY <2>1 DEF WellFormed
    <2>3. Unreviewed("command", requests'[c])
        BY <2>1, <2>2 DEF Reasoned, OfItsVersion, Unreviewed, CheckExecution, CheckRunbookExecution
    <2>4. requests'[c].kind = "command" /\ requests'[c].at = "run"
        BY <2>2
    <2>5. \A b \in Clients : b # c => requests'[b] = requests[b]
        BY <2>1 DEF WellFormed
    <2>6. UNCHANGED <<versions, scheduled, approvals, executions>>
        BY <1>3 DEF ReadCommand
    <2> QED
        BY <2>3, <2>4, <2>5, <2>6 DEF Reasoned, OfItsVersion, Unreviewed, Exists, ReviewedOrAllowed
<1>4. ASSUME NEW c \in Clients, CommitExecution(c) PROVE ReviewsAreKept'
    <2>1. requests[c] \in Request
        BY <1>4, Tables DEF CommitExecution, WellFormed
    <2>2. PICK x \in Fresh(ExecutionIds, executions, NoExecution) :
              executions' = [executions EXCEPT ![x] =
                    [via |-> requests[c].kind, user |-> requests[c].user, approver |-> NoOne,
                     approval |-> 0, version |-> requests[c].version, risk |-> requests[c].risk,
                     env |-> requests[c].env, reason |-> requests[c].reason]]
        BY <1>4 DEF CommitExecution
    <2>3. executions'[x] = [via |-> requests[c].kind, user |-> requests[c].user, approver |-> NoOne,
                            approval |-> 0, version |-> requests[c].version,
                            risk |-> requests[c].risk, env |-> requests[c].env,
                            reason |-> requests[c].reason]
        BY <2>2 DEF WellFormed, Fresh
    <2>4. ReviewedOrAllowed(executions'[x])
        BY <1>4, <2>1, <2>3 DEF Reasoned, OfItsVersion, ReviewedOrAllowed, Unreviewed, CommitExecution, Request
    <2>5. /\ \A y \in ExecutionIds : y # x => executions'[y] = executions[y]
          /\ \A b \in Clients : requests'[b] = requests[b] \/ requests'[b] = Idle
          /\ UNCHANGED <<versions, scheduled, approvals>>
        BY <1>4, <2>2 DEF CommitExecution, WellFormed
    <2> QED
        BY <2>4, <2>5 DEF Reasoned, OfItsVersion, Unreviewed, Exists, ReviewedOrAllowed, Idle
<1>5. ASSUME NEW c \in Clients, CommitApproval(c) PROVE ReviewsAreKept'
    <2>1. PICK a \in Fresh(ApprovalIds, approvals, NoApproval) :
              approvals' = [approvals EXCEPT ![a] =
                    [status |-> "pending", expired |-> FALSE, user |-> requests[c].user,
                     approver |-> NoOne, version |-> requests[c].version, risk |-> requests[c].risk,
                     env |-> requests[c].env, reason |-> requests[c].reason]]
        BY <1>5 DEF CommitApproval
    <2>2. approvals'[a] = [status |-> "pending", expired |-> FALSE, user |-> requests[c].user,
                           approver |-> NoOne, version |-> requests[c].version,
                           risk |-> requests[c].risk, env |-> requests[c].env,
                           reason |-> requests[c].reason]
        BY <2>1 DEF WellFormed, Fresh
    <2>3. Reasoned(requests[c])
        BY <1>5 DEF CommitApproval
    <2>4. Reasoned(approvals'[a])
        BY <2>2, <2>3 DEF Reasoned, OfItsVersion
    <2>5. /\ \A b \in ApprovalIds : b # a => approvals'[b] = approvals[b]
          /\ \A b \in Clients : requests'[b] = requests[b] \/ requests'[b] = Idle
          /\ UNCHANGED <<versions, scheduled, executions>>
        BY <1>5, <2>1 DEF CommitApproval, WellFormed
    <2> QED
        BY <2>4, <2>5 DEF Reasoned, OfItsVersion, Unreviewed, Exists, ReviewedOrAllowed, Idle
<1>6. ASSUME NEW c \in Clients, FindKeyTaken(c) PROVE ReviewsAreKept'
    <2>1. /\ \A b \in Clients : requests'[b] = requests[b] \/ requests'[b] = Idle
          /\ UNCHANGED <<versions, scheduled, approvals, executions>>
        BY <1>6 DEF FindKeyTaken, WellFormed
    <2> QED
        BY <2>1 DEF Reasoned, OfItsVersion, Unreviewed, Exists, ReviewedOrAllowed, Idle
<1>7. ASSUME NEW u \in Users, NEW a \in ApprovalIds, Approve(u, a) PROVE ReviewsAreKept'
    <2>1. approvals[a] # NoApproval
        BY <1>7 DEF Approve, Live, NoApproval
    <2>2. approvals[a] \in Approval /\ Reasoned(approvals[a])
        BY <2>1, Tables DEF WellFormed
    <2>3. approvals' = [approvals EXCEPT
              ![a] = [approvals[a] EXCEPT !.status = "approved", !.approver = u]]
        BY <1>7 DEF Approve
    <2>4. Reasoned([approvals[a] EXCEPT !.status = "approved", !.approver = u])
        BY <2>2 DEF Approval, Reasoned, OfItsVersion
    <2>5. \A b \in ApprovalIds : approvals'[b] # NoApproval => Reasoned(approvals'[b])
        BY <2>3, <2>4 DEF WellFormed
    <2>6. PICK x \in Fresh(ExecutionIds, executions, NoExecution) :
              executions' = [executions EXCEPT ![x] =
                [via |-> "approval", user |-> approvals[a].user, approver |-> u, approval |-> a,
                 version |-> approvals[a].version, risk |-> approvals[a].risk,
                 env |-> approvals[a].env, reason |-> approvals[a].reason]]
        BY <1>7 DEF Approve
    <2>7. executions'[x].via = "approval" /\ Reasoned(executions'[x])
        BY <2>2, <2>6 DEF Fresh, WellFormed, Reasoned, OfItsVersion
    <2>8. /\ \A y \in ExecutionIds : y # x => executions'[y] = executions[y]
          /\ UNCHANGED <<versions, requests, scheduled>>
        BY <1>7, <2>6 DEF Approve, WellFormed
    <2> QED
        BY <2>5, <2>7, <2>8 DEF Reasoned, OfItsVersion, Unreviewed, Exists, ReviewedOrAllowed
<1>8. ASSUME NEW u \in Users, NEW a \in ApprovalIds, Deny(u, a) PROVE ReviewsAreKept'
    <2>1. approvals[a] # NoApproval
        BY <1>8 DEF Deny, Live, NoApproval
    <2>2. approvals[a] \in Approval /\ Reasoned(approvals[a])
        BY <2>1, Tables DEF WellFormed
    <2>3. approvals' = [approvals EXCEPT
              ![a] = [approvals[a] EXCEPT !.status = "denied", !.approver = u]]
        BY <1>8 DEF Deny
    <2>4. Reasoned([approvals[a] EXCEPT !.status = "denied", !.approver = u])
        BY <2>2 DEF Approval, Reasoned, OfItsVersion
    <2>5. \A b \in ApprovalIds : approvals'[b] # NoApproval => Reasoned(approvals'[b])
        BY <2>3, <2>4 DEF WellFormed
    <2>6. UNCHANGED <<versions, requests, scheduled, executions>>
        BY <1>8 DEF Deny
    <2> QED
        BY <2>5, <2>6 DEF Reasoned, OfItsVersion, Unreviewed, Exists, ReviewedOrAllowed
<1>9. ASSUME NEW a \in ApprovalIds, ApprovalExpires(a) PROVE ReviewsAreKept'
    <2>1. approvals[a] \in Approval /\ Reasoned(approvals[a])
        BY <1>9, Tables DEF WellFormed, ApprovalExpires
    <2>2. approvals' = [approvals EXCEPT ![a] = [approvals[a] EXCEPT !.expired = TRUE]]
        BY <1>9 DEF ApprovalExpires
    <2>3. Reasoned([approvals[a] EXCEPT !.expired = TRUE])
        BY <2>1 DEF Approval, Reasoned, OfItsVersion
    <2>4. \A b \in ApprovalIds : approvals'[b] # NoApproval => Reasoned(approvals'[b])
        BY <2>2, <2>3 DEF WellFormed
    <2>5. UNCHANGED <<versions, requests, scheduled, executions>>
        BY <1>9 DEF ApprovalExpires
    <2> QED
        BY <2>4, <2>5 DEF Reasoned, OfItsVersion, Unreviewed, Exists, ReviewedOrAllowed
<1>10. ASSUME ReadScheduled PROVE ReviewsAreKept'
    <2> DEFINE d == CurrentVersion.def
    <2>1. PICK s \in Schedules :
              /\ MayDecide(s.user)
              /\ s.env = "production" => s.reason
              /\ scheduled' = [at |-> "run", user |-> s.user, env |-> s.env, reason |-> s.reason,
                               version |-> runbook.current, risk |-> d.risk]
        BY <1>10 DEF ReadScheduled
    <2>2. Exists(runbook.current) /\ MaySchedule(d)
        BY <1>10 DEF ReadScheduled, WellFormed
    <2>3. Unreviewed("schedule", scheduled')
        BY <2>1, <2>2 DEF OfItsVersion, Unreviewed, MayDecide, MaySchedule, CurrentVersion
    <2>4. UNCHANGED <<versions, requests, approvals, executions>>
        BY <1>10 DEF ReadScheduled
    <2> HIDE DEF d
    <2> QED
        BY <2>3, <2>4 DEF Reasoned, OfItsVersion, Unreviewed, Exists, ReviewedOrAllowed
<1>11. ASSUME CommitScheduled PROVE ReviewsAreKept'
    <2>1. PICK x \in Fresh(ExecutionIds, executions, NoExecution) :
              executions' = [executions EXCEPT ![x] =
                [via |-> "schedule", user |-> scheduled.user, approver |-> NoOne, approval |-> 0,
                 version |-> scheduled.version, risk |-> scheduled.risk,
                 env |-> scheduled.env, reason |-> scheduled.reason]]
        BY <1>11 DEF CommitScheduled
    <2>2. executions'[x] = [via |-> "schedule", user |-> scheduled.user, approver |-> NoOne,
                            approval |-> 0, version |-> scheduled.version,
                            risk |-> scheduled.risk, env |-> scheduled.env,
                            reason |-> scheduled.reason]
        BY <2>1 DEF WellFormed, Fresh
    <2>3. ReviewedOrAllowed(executions'[x])
        BY <1>11, <2>2 DEF Reasoned, OfItsVersion, ReviewedOrAllowed, Unreviewed, CommitScheduled
    <2>4. /\ \A y \in ExecutionIds : y # x => executions'[y] = executions[y]
          /\ UNCHANGED <<versions, requests, approvals>>
          /\ scheduled' = Idle
        BY <1>11, <2>1 DEF CommitScheduled, WellFormed
    <2> QED
        BY <2>3, <2>4 DEF Reasoned, OfItsVersion, Unreviewed, Exists, ReviewedOrAllowed
<1>12. ASSUME UNCHANGED <<versions, requests, scheduled, work>> PROVE ReviewsAreKept'
    BY <1>12 DEF Reasoned, OfItsVersion, Unreviewed, Exists, ReviewedOrAllowed
<1>13. /\ \A u \in Users, a \in ApprovalIds :
              ApproveTooLate(u, a) => UNCHANGED <<versions, requests, scheduled, work>>
       /\ CallerGivesUp \/ UNCHANGED governanceVars
              => UNCHANGED <<versions, requests, scheduled, work>>
    BY DEF ApproveTooLate, CallerGivesUp, governanceVars
<1> QED
    BY <1>1, <1>2, <1>3, <1>4, <1>5, <1>6, <1>7, <1>8, <1>9, <1>10, <1>11, <1>12, <1>13
       DEF GovernanceNext, AskForWork, Decide, RunSchedule

(***************************************************************************)
(* Whatever path an execution came by, and for definitions of any          *)
(* spelling: it has the risk of the version that runs, and what the rules, *)
(* which compare that spelling, want reviewed or refused was               *)
(* (runbooks.go:407-520, executions.go:149-300, automation.go:326-355).    *)
(***************************************************************************)
THEOREM ReviewsFollow == GovernanceSpec => []ReviewsFollowTheRules
<1>1. GovernanceInit => ReviewsAreKept
    BY DEF GovernanceInit, ReviewsAreKept, Made, Asked, Idle
<1>2. WellFormed /\ ReviewsAreKept => ReviewsFollowTheRules
    <2>1. ASSUME WellFormed, NEW x \in ExecutionIds, Made(x)
          PROVE  executions[x].via \in {"runbook", "command", "approval", "schedule"}
        BY <2>1 DEF WellFormed, Made, Execution
    <2> QED
        BY <2>1 DEF ReviewsAreKept, ReviewsFollowTheRules, ReviewedOrAllowed, Unreviewed,
                    OfItsVersion, Reasoned
<1> QED
    BY <1>1, <1>2, ReviewsStep, GovernanceIsWellFormed, PTL DEF GovernanceSpec

(***************************************************************************)
(* Approvals.  An approved request has an execution of its own.            *)
(***************************************************************************)
Allows(x, a) == Made(x) /\ executions[x].via = "approval" /\ executions[x].approval = a

ApprovalsAreKept ==
    /\ \A x \in ExecutionIds : Made(x) =>
          IF executions[x].via = "approval"
            THEN executions[x].approval \in ApprovalIds
            ELSE executions[x].approval = 0
    /\ \A x, y \in ExecutionIds, a \in ApprovalIds : Allows(x, a) /\ Allows(y, a) => x = y
    /\ \A a \in ApprovalIds : approvals[a].status = "approved" =>
          /\ approvals[a].approver # approvals[a].user
          /\ MayDecide(approvals[a].approver)
          /\ \E x \in ExecutionIds : Allows(x, a)
    /\ \A x \in ExecutionIds, a \in ApprovalIds : Allows(x, a) =>
          /\ approvals[a].status = "approved"
          /\ executions[x].approver = approvals[a].approver
          /\ executions[x].user = approvals[a].user
          /\ executions[x].version = approvals[a].version
          /\ executions[x].env = approvals[a].env

(***************************************************************************)
(* The three ways the two tables change.                                   *)
(***************************************************************************)
LEMMA ExecutionWithoutApproval ==
    ASSUME WellFormed, ApprovalsAreKept,
           NEW x \in Fresh(ExecutionIds, executions, NoExecution),
           NEW e, e # NoExecution, e.via # "approval", e.approval = 0,
           executions' = [executions EXCEPT ![x] = e], UNCHANGED approvals
    PROVE  ApprovalsAreKept'
<1>1. /\ executions'[x] = e /\ executions[x] = NoExecution
      /\ \A y \in ExecutionIds : y # x => executions'[y] = executions[y]
    BY DEF WellFormed, Fresh
<1>2. \A y \in ExecutionIds, a \in ApprovalIds : Allows(y, a)' <=> (Allows(y, a) /\ y # x)
    BY <1>1 DEF Allows, Made
<1>3. \A y \in ExecutionIds, a \in ApprovalIds : Allows(y, a) => y # x
    BY <1>1 DEF Allows, Made
<1> QED
    BY <1>1, <1>2, <1>3 DEF ApprovalsAreKept, Made

\* Made and Allows of the next state, where only a request changes.
LEMMA ApprovalChanges ==
    ASSUME WellFormed, ApprovalsAreKept, UNCHANGED executions,
           NEW a \in ApprovalIds, NEW p, approvals' = [approvals EXCEPT ![a] = p],
           \/ approvals[a].status # "approved" /\ p.status # "approved"
           \/ /\ p.status = approvals[a].status /\ p.user = approvals[a].user
              /\ p.approver = approvals[a].approver /\ p.version = approvals[a].version
              /\ p.env = approvals[a].env
    PROVE  ApprovalsAreKept'
<1>1. /\ approvals'[a] = p
      /\ \A b \in ApprovalIds : b # a => approvals'[b] = approvals[b]
    BY DEF WellFormed
<1>2. \A y \in ExecutionIds, b \in ApprovalIds : Allows(y, b)' <=> Allows(y, b)
    BY DEF Allows, Made
<1>3. CASE approvals[a].status # "approved" /\ p.status # "approved"
    <2>1. \A x \in ExecutionIds : ~Allows(x, a)
        BY <1>3 DEF ApprovalsAreKept
    <2> QED
        BY <1>1, <1>2, <1>3, <2>1 DEF ApprovalsAreKept, Made
<1>4. CASE /\ p.status = approvals[a].status /\ p.user = approvals[a].user
           /\ p.approver = approvals[a].approver /\ p.version = approvals[a].version
           /\ p.env = approvals[a].env
    BY <1>1, <1>2, <1>4 DEF ApprovalsAreKept, Made
<1> QED
    BY <1>3, <1>4

\* An approval makes the one execution that was asked for, under another user's name.
LEMMA RequestApproved ==
    ASSUME WellFormed, ApprovalsAreKept, NEW u \in Users, NEW a \in ApprovalIds, Approve(u, a)
    PROVE  ApprovalsAreKept'
<1>1. approvals[a] # NoApproval /\ approvals[a].status = "pending"
    BY DEF Approve, Live, NoApproval
<1>2. approvals[a] \in Approval
    BY <1>1, Tables DEF WellFormed
<1>3. PICK x \in Fresh(ExecutionIds, executions, NoExecution) :
          executions' = [executions EXCEPT ![x] =
            [via |-> "approval", user |-> approvals[a].user, approver |-> u, approval |-> a,
             version |-> approvals[a].version, risk |-> approvals[a].risk,
             env |-> approvals[a].env, reason |-> approvals[a].reason]]
    BY DEF Approve
<1>4. approvals' = [approvals EXCEPT
          ![a] = [approvals[a] EXCEPT !.status = "approved", !.approver = u]]
    BY DEF Approve
<1> DEFINE e == [via |-> "approval", user |-> approvals[a].user, approver |-> u, approval |-> a,
                 version |-> approvals[a].version, risk |-> approvals[a].risk,
                 env |-> approvals[a].env, reason |-> approvals[a].reason]
           p == [approvals[a] EXCEPT !.status = "approved", !.approver = u]
<1>5. /\ e # NoExecution /\ e.via = "approval" /\ e.approval = a
      /\ e.approver = u /\ e.user = approvals[a].user /\ e.version = approvals[a].version
      /\ e.env = approvals[a].env
    BY DEF NoExecution
<1>6. /\ p.status = "approved" /\ p.approver = u /\ p.user = approvals[a].user
      /\ p.version = approvals[a].version /\ p.env = approvals[a].env
    BY <1>2 DEF Approval
<1>7. p.user # u /\ MayDecide(u)
    BY <1>6 DEF Approve
<1> HIDE DEF e, p
<1>8. /\ executions'[x] = e /\ executions[x] = NoExecution /\ x \in ExecutionIds
      /\ \A y \in ExecutionIds : y # x => executions'[y] = executions[y]
    BY <1>3 DEF WellFormed, Fresh, e
<1>9. /\ approvals'[a] = p
      /\ \A b \in ApprovalIds : b # a => approvals'[b] = approvals[b]
    BY <1>4 DEF WellFormed, p
<1>10. \A y \in ExecutionIds : ~Allows(y, a)
    BY <1>1 DEF ApprovalsAreKept
<1>11. \A b \in ApprovalIds : ~Allows(x, b)
    BY <1>8 DEF Allows, Made
<1>12. \A y \in ExecutionIds, b \in ApprovalIds :
           Allows(y, b)' <=> (Allows(y, b) \/ (y = x /\ b = a))
    BY <1>5, <1>8, <1>11 DEF Allows, Made
<1>13. \A b \in ApprovalIds : approvals'[b].status = "approved" =>
          /\ approvals'[b].approver # approvals'[b].user
          /\ MayDecide(approvals'[b].approver)
          /\ \E y \in ExecutionIds : Allows(y, b)'
    BY <1>6, <1>7, <1>8, <1>9, <1>12 DEF ApprovalsAreKept
<1>14. \A y \in ExecutionIds, b \in ApprovalIds : Allows(y, b)' =>
          /\ approvals'[b].status = "approved"
          /\ executions'[y].approver = approvals'[b].approver
          /\ executions'[y].user = approvals'[b].user
          /\ executions'[y].version = approvals'[b].version
          /\ executions'[y].env = approvals'[b].env
    BY <1>5, <1>6, <1>8, <1>9, <1>10, <1>11, <1>12 DEF ApprovalsAreKept
<1>15. \A y \in ExecutionIds : executions'[y] # NoExecution =>
          IF executions'[y].via = "approval"
            THEN executions'[y].approval \in ApprovalIds
            ELSE executions'[y].approval = 0
    BY <1>5, <1>8 DEF ApprovalsAreKept, Made
<1>16. \A y, z \in ExecutionIds, b \in ApprovalIds : Allows(y, b)' /\ Allows(z, b)' => y = z
    BY <1>10, <1>11, <1>12 DEF ApprovalsAreKept
<1> QED
    BY <1>13, <1>14, <1>15, <1>16 DEF ApprovalsAreKept, Made, MayDecide

\* Every step keeps decided approvals, and the executions that rest on them, as they
\* are.
LEMMA ApprovalsStep ==
    ASSUME WellFormed, ApprovalsAreKept, [GovernanceNext]_governanceVars
    PROVE  ApprovalsAreKept'
<1> USE DEF work, catalogue
<1>1. ASSUME NEW c \in Clients, CommitExecution(c) PROVE ApprovalsAreKept'
    <2>1. requests[c] \in Request /\ requests[c].at = "run"
        BY <1>1, Tables DEF CommitExecution, WellFormed
    <2>2. PICK x \in Fresh(ExecutionIds, executions, NoExecution) :
              executions' = [executions EXCEPT ![x] =
                    [via |-> requests[c].kind, user |-> requests[c].user, approver |-> NoOne,
                     approval |-> 0, version |-> requests[c].version, risk |-> requests[c].risk,
                     env |-> requests[c].env, reason |-> requests[c].reason]]
        BY <1>1 DEF CommitExecution
    <2>3. PICK e : e = [via |-> requests[c].kind, user |-> requests[c].user, approver |-> NoOne,
                        approval |-> 0, version |-> requests[c].version, risk |-> requests[c].risk,
                        env |-> requests[c].env, reason |-> requests[c].reason]
        OBVIOUS
    <2>4. e # NoExecution /\ e.via # "approval" /\ e.approval = 0
        BY <2>1, <2>3 DEF NoExecution, Request
    <2>5. executions' = [executions EXCEPT ![x] = e] /\ UNCHANGED approvals
        BY <1>1, <2>2, <2>3 DEF CommitExecution
    <2> QED
        BY <2>4, <2>5, ExecutionWithoutApproval
<1>2. ASSUME CommitScheduled PROVE ApprovalsAreKept'
    <2>1. PICK x \in Fresh(ExecutionIds, executions, NoExecution) :
              executions' = [executions EXCEPT ![x] =
                [via |-> "schedule", user |-> scheduled.user, approver |-> NoOne, approval |-> 0,
                 version |-> scheduled.version, risk |-> scheduled.risk,
                 env |-> scheduled.env, reason |-> scheduled.reason]]
        BY <1>2 DEF CommitScheduled
    <2>2. PICK e : e = [via |-> "schedule", user |-> scheduled.user, approver |-> NoOne,
                        approval |-> 0, version |-> scheduled.version, risk |-> scheduled.risk,
                        env |-> scheduled.env, reason |-> scheduled.reason]
        OBVIOUS
    <2>3. e # NoExecution /\ e.via # "approval" /\ e.approval = 0
        BY <2>2 DEF NoExecution
    <2>4. executions' = [executions EXCEPT ![x] = e] /\ UNCHANGED approvals
        BY <1>2, <2>1, <2>2 DEF CommitScheduled
    <2> QED
        BY <2>3, <2>4, ExecutionWithoutApproval
<1>3. ASSUME NEW c \in Clients, CommitApproval(c) PROVE ApprovalsAreKept'
    <2>1. PICK a \in Fresh(ApprovalIds, approvals, NoApproval) :
              approvals' = [approvals EXCEPT ![a] =
                    [status |-> "pending", expired |-> FALSE, user |-> requests[c].user,
                     approver |-> NoOne, version |-> requests[c].version, risk |-> requests[c].risk,
                     env |-> requests[c].env, reason |-> requests[c].reason]]
        BY <1>3 DEF CommitApproval
    <2>2. PICK p : p = [status |-> "pending", expired |-> FALSE, user |-> requests[c].user,
                        approver |-> NoOne, version |-> requests[c].version,
                        risk |-> requests[c].risk, env |-> requests[c].env,
                        reason |-> requests[c].reason]
        OBVIOUS
    <2>3. a \in ApprovalIds /\ approvals[a].status # "approved" /\ p.status # "approved"
        BY <2>2 DEF Fresh, NoApproval
    <2>4. approvals' = [approvals EXCEPT ![a] = p] /\ UNCHANGED executions
        BY <1>3, <2>1, <2>2 DEF CommitApproval
    <2> QED
        BY <2>3, <2>4, ApprovalChanges
<1>4. ASSUME NEW u \in Users, NEW a \in ApprovalIds, Deny(u, a) PROVE ApprovalsAreKept'
    <2>1. approvals[a] # NoApproval /\ approvals[a].status = "pending"
        BY <1>4 DEF Deny, Live, NoApproval
    <2>2. approvals[a] \in Approval
        BY <2>1, Tables DEF WellFormed
    <2>3. PICK p : p = [approvals[a] EXCEPT !.status = "denied", !.approver = u]
        OBVIOUS
    <2>4. p.status = "denied"
        BY <2>2, <2>3 DEF Approval
    <2>5. approvals' = [approvals EXCEPT ![a] = p] /\ UNCHANGED executions
        BY <1>4, <2>3 DEF Deny
    <2> QED
        BY <2>1, <2>4, <2>5, ApprovalChanges
<1>5. ASSUME NEW a \in ApprovalIds, ApprovalExpires(a) PROVE ApprovalsAreKept'
    <2>1. approvals[a] \in Approval
        BY <1>5, Tables DEF WellFormed, ApprovalExpires
    <2>2. PICK p : p = [approvals[a] EXCEPT !.expired = TRUE]
        OBVIOUS
    <2>3. /\ p.status = approvals[a].status /\ p.user = approvals[a].user
          /\ p.approver = approvals[a].approver /\ p.version = approvals[a].version
          /\ p.env = approvals[a].env
        BY <2>1, <2>2 DEF Approval
    <2>4. approvals' = [approvals EXCEPT ![a] = p] /\ UNCHANGED executions
        BY <1>5, <2>2 DEF ApprovalExpires
    <2> QED
        BY <2>3, <2>4, ApprovalChanges
<1>6. ASSUME UNCHANGED <<approvals, executions>> PROVE ApprovalsAreKept'
    BY <1>6 DEF ApprovalsAreKept, Allows, Made
<1>7. /\ EditCatalogue \/ ReadScheduled \/ CallerGivesUp \/ UNCHANGED governanceVars
             => UNCHANGED <<approvals, executions>>
      /\ \A c \in Clients : ReadRun(c) \/ ReadCommand(c) \/ FindKeyTaken(c)
             => UNCHANGED <<approvals, executions>>
      /\ \A u \in Users, a \in ApprovalIds : ApproveTooLate(u, a)
             => UNCHANGED <<approvals, executions>>
    BY DEF EditCatalogue, CreateRunbook, ArchiveRunbook, ReadToPublish, MarkRunbook, MarkVersion,
           ReadToUpdate, InsertVersion, EditorStops, ReadScheduled, ReadRun, ReadCommand,
           FindKeyTaken, ApproveTooLate, CallerGivesUp, governanceVars
<1> QED
    BY <1>1, <1>2, <1>3, <1>4, <1>5, <1>6, <1>7, RequestApproved
       DEF GovernanceNext, AskForWork, Decide, RunSchedule

(***************************************************************************)
(* One decision, one execution: approved requests have exactly one         *)
(* execution, as reviewed, and others none (runbooks.go:735-885).          *)
(***************************************************************************)
THEOREM DecisionsAreHonest == GovernanceSpec => []ApprovalsAreHonest
<1>1. GovernanceInit => ApprovalsAreKept
    BY DEF GovernanceInit, ApprovalsAreKept, Made, Allows, NoApproval
<1>2. WellFormed /\ ApprovalsAreKept => ApprovalsAreHonest
    <2> SUFFICES ASSUME WellFormed, ApprovalsAreKept PROVE ApprovalsAreHonest
        OBVIOUS
    <2>1. ASSUME NEW x \in ExecutionIds, Made(x), executions[x].via = "approval"
          PROVE  LET p == approvals[executions[x].approval]
                 IN  /\ p # NoApproval /\ p.status = "approved"
                     /\ executions[x].approver = p.approver
                     /\ p.approver # p.user /\ MayDecide(p.approver)
                     /\ executions[x].user = p.user
                     /\ executions[x].version = p.version /\ executions[x].env = p.env
        <3>1. PICK a \in ApprovalIds : a = executions[x].approval
            BY <2>1 DEF ApprovalsAreKept
        <3>2. Allows(x, a)
            BY <2>1, <3>1 DEF Allows
        <3> QED
            BY <3>1, <3>2 DEF ApprovalsAreKept, NoApproval
    <2>2. ASSUME NEW a \in ApprovalIds
          PROVE  Cardinality({x \in ExecutionIds : Made(x) /\ executions[x].approval = a})
                    = IF approvals[a].status = "approved" THEN 1 ELSE 0
        <3> DEFINE S == {x \in ExecutionIds : Made(x) /\ executions[x].approval = a}
        <3>1. \A x \in ExecutionIds : x \in S <=> Allows(x, a)
            BY DEF ApprovalsAreKept, Allows, ApprovalIds
        <3>2. CASE approvals[a].status = "approved"
            <4>1. PICK x \in ExecutionIds : Allows(x, a)
                BY <3>2 DEF ApprovalsAreKept
            <4>2. \A y \in ExecutionIds : y \in S => y = x
                BY <3>1, <4>1 DEF ApprovalsAreKept
            <4>3. S = {x}
                BY <3>1, <4>1, <4>2
            <4> QED
                BY <3>2, <4>3, FS_Singleton
        <3>3. CASE approvals[a].status # "approved"
            <4>1. S = {}
                BY <3>1, <3>3 DEF ApprovalsAreKept
            <4> QED
                BY <3>3, <4>1, FS_EmptySet
        <3> QED
            BY <3>2, <3>3
    <2> QED
        BY <2>1, <2>2 DEF ApprovalsAreHonest
<1> QED
    BY <1>1, <1>2, ApprovalsStep, GovernanceIsWellFormed, PTL DEF GovernanceSpec
=============================================================================
