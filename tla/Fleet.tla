------------------------------- MODULE Fleet --------------------------------
(***************************************************************************)
(* Runners and their credentials (apps/api/runners.go, the runner half of  *)
(* auth.go, and the runner's side of a claim in jobs.go).                  *)
(*                                                                         *)
(* No handler here uses a transaction but the claim.  Every statement is   *)
(* an action, and calls[c] keeps what handler c has read and done so far.  *)
(***************************************************************************)
EXTENDS Handlers

CONSTANTS
    RunnerIds, CredentialIds,   \* 1 .. n
    Calls,                      \* handlers under way
    NoRunner                    \* of a bootstrap credential

ASSUME FleetAssumption ==
    /\ RunnerIds \subseteq Nat /\ CredentialIds \subseteq Nat
    /\ NoRunner \notin RunnerIds

VARIABLES
    runners,        \* their status
    scopes,         \* runners with a row in runner_scopes
    credentials,    \* the rows of runner_credentials that are neither revoked nor expired
    calls,
    revoked,        \* history: runners whose revocation was answered with 200
    trespassed      \* history: runners that claimed a job after that

fleetVars == <<runners, scopes, credentials, calls, revoked, trespassed>>

NoCredential == [runner |-> NoRunner, live |-> FALSE]

FleetInit ==
    /\ runners = [r \in RunnerIds |-> "none"]
    /\ scopes = {}
    /\ credentials = [k \in CredentialIds |-> NoCredential]
    /\ calls = [c \in Calls |-> Idle]
    /\ revoked = {} /\ trespassed = {}

Goes(c, call) == calls' = [calls EXCEPT ![c] = call]

-----------------------------------------------------------------------------
(* Handlers for privileged users. *)

CreateManagedRunner ==
    /\ \E r \in Fresh(RunnerIds, runners, "none") :
          runners' = [runners EXCEPT ![r] = "pending"]
    /\ UNCHANGED <<scopes, credentials, calls, revoked, trespassed>>

UpdateRunner(r) ==
    /\ runners[r] \notin {"none", "revoked"}
    /\ \E status \in {"active", "paused"} : runners' = [runners EXCEPT ![r] = status]
    /\ UNCHANGED <<scopes, credentials, calls, revoked, trespassed>>

RevokeRunner(c, r) ==
    /\ calls[c] = Idle
    /\ runners[r] \notin {"none", "revoked"}
    /\ runners' = [runners EXCEPT ![r] = "revoked"]
    /\ Goes(c, [at |-> "revoke", runner |-> r])
    /\ UNCHANGED <<scopes, credentials, revoked, trespassed>>

\* What both a revocation and a replacement do to the credentials of r.
WithoutCredentials(r) ==
    [k \in CredentialIds |-> IF credentials[k].runner = r
                               THEN NoCredential
                               ELSE credentials[k]]

RevokeCredentials(c) ==
    /\ calls[c].at = "revoke"
    /\ credentials' = WithoutCredentials(calls[c].runner)
    /\ revoked' = revoked \cup {calls[c].runner}
    /\ Goes(c, Idle)
    /\ UNCHANGED <<runners, scopes, trespassed>>

-----------------------------------------------------------------------------
(* createRunnerCredential: look, revoke the old ones, insert the new one.    *)
(* Rotation and the registration token start here with a runner; a           *)
(* registration ends here.                                                   *)

StartIssue(c, r) ==
    /\ calls[c] = Idle
    /\ runners[r] # "none"
    /\ Goes(c, [at |-> "issue", runner |-> r])
    /\ UNCHANGED <<runners, scopes, credentials, revoked, trespassed>>

IssueBootstrap ==
    /\ \E k \in Fresh(CredentialIds, credentials, NoCredential) :
          credentials' = [credentials EXCEPT ![k] = [runner |-> NoRunner, live |-> TRUE]]
    /\ UNCHANGED <<runners, scopes, calls, revoked, trespassed>>

(* Mutant: the status is not looked at. *)
LookForRunnerOnly(c) ==
    /\ calls[c].at = "issue"
    /\ Goes(c, [calls[c] EXCEPT !.at = "replace"])
    /\ UNCHANGED <<runners, scopes, credentials, revoked, trespassed>>

LookAtStatus(c) ==
    /\ calls[c].at = "issue"
    /\ Goes(c, IF runners[calls[c].runner] = "revoked"
                 THEN Idle
                 ELSE [calls[c] EXCEPT !.at = "replace"])
    /\ UNCHANGED <<runners, scopes, credentials, revoked, trespassed>>

RevokePrevious(c) ==
    /\ calls[c].at = "replace"
    /\ credentials' = WithoutCredentials(calls[c].runner)
    /\ Goes(c, [calls[c] EXCEPT !.at = "insert"])
    /\ UNCHANGED <<runners, scopes, revoked, trespassed>>

InsertCredential(c) ==
    /\ calls[c].at = "insert"
    /\ \E k \in Fresh(CredentialIds, credentials, NoCredential) :
          credentials' = [credentials EXCEPT ![k] = [runner |-> calls[c].runner, live |-> TRUE]]
    /\ Goes(c, Idle)
    /\ UNCHANGED <<runners, scopes, revoked, trespassed>>

-----------------------------------------------------------------------------
(* Calls of runners.  authenticateRunnerCredential is two SELECTs: the       *)
(* credential, and for a bound one the status of its runner.                 *)

Purposes == {"register", "heartbeat", "claim"}

PresentCredential(c, k) ==
    /\ calls[c] = Idle
    /\ credentials[k].live
    /\ \E purpose \in Purposes :
          IF credentials[k].runner = NoRunner
            THEN purpose = "register" /\ Goes(c, [at |-> "enrol"])
            ELSE Goes(c, [at |-> "identify", runner |-> credentials[k].runner, purpose |-> purpose])
    /\ UNCHANGED <<runners, scopes, credentials, revoked, trespassed>>

Identify(c) ==
    /\ calls[c].at = "identify"
    /\ Goes(c, IF runners[calls[c].runner] = "revoked"
                 THEN Idle
                 ELSE [at |-> calls[c].purpose, runner |-> calls[c].runner])
    /\ UNCHANGED <<runners, scopes, credentials, revoked, trespassed>>

\* A bootstrap credential: a new runner each time.
Enrol(c) ==
    /\ calls[c].at = "enrol"
    /\ \E r \in Fresh(RunnerIds, runners, "none") :
          /\ runners' = [runners EXCEPT ![r] = "active"]
          /\ Goes(c, [at |-> "scope", runner |-> r])
    /\ UNCHANGED <<scopes, credentials, revoked, trespassed>>

RegisterAgain(c) ==
    /\ calls[c].at = "register"
    /\ LET r == calls[c].runner
       IN  IF runners[r] = "revoked"
             THEN Goes(c, Idle) /\ UNCHANGED runners
             ELSE Goes(c, [at |-> "scope", runner |-> r])
                  /\ runners' = [runners EXCEPT ![r] = "active"]
    /\ UNCHANGED <<scopes, credentials, revoked, trespassed>>

AssignScope(c) ==
    /\ calls[c].at = "scope"
    /\ scopes' = scopes \cup {calls[c].runner}
    /\ Goes(c, [calls[c] EXCEPT !.at = "issue"])
    /\ UNCHANGED <<runners, credentials, revoked, trespassed>>

\* The UPDATE of a heartbeat asks for nothing of the status.
Heartbeat(c) ==
    /\ calls[c].at = "heartbeat"
    /\ runners' = [runners EXCEPT ![calls[c].runner] = "active"]
    /\ Goes(c, Idle)
    /\ UNCHANGED <<scopes, credentials, revoked, trespassed>>

\* The claim's own SELECT asks for an active runner with a scope, in the transaction.
Claim(c) ==
    /\ calls[c].at = "claim"
    /\ LET r == calls[c].runner
       IN  trespassed' = IF runners[r] = "active" /\ r \in scopes /\ r \in revoked
                           THEN trespassed \cup {r}
                           ELSE trespassed
    /\ Goes(c, Idle)
    /\ UNCHANGED <<runners, scopes, credentials, revoked>>

-----------------------------------------------------------------------------
CredentialExpires(k) ==
    /\ credentials[k].live
    /\ credentials' = [credentials EXCEPT ![k] = NoCredential]
    /\ UNCHANGED <<runners, scopes, calls, revoked, trespassed>>

\* A statement fails or the request ends: the handler returns where it is.
CallFails(c) ==
    /\ calls[c] # Idle
    /\ Goes(c, Idle)
    /\ UNCHANGED <<runners, scopes, credentials, revoked, trespassed>>

Manage ==
    \/ CreateManagedRunner
    \/ IssueBootstrap
    \/ \E r \in RunnerIds : UpdateRunner(r)
    \/ \E c \in Calls, r \in RunnerIds : RevokeRunner(c, r) \/ StartIssue(c, r)

ServeRunners ==
    \E c \in Calls : \/ \E k \in CredentialIds : PresentCredential(c, k)
                     \/ Identify(c) \/ Enrol(c) \/ RegisterAgain(c) \/ AssignScope(c)
                     \/ Heartbeat(c) \/ Claim(c)

ManageCredentials ==
    \/ \E c \in Calls : \/ RevokeCredentials(c) \/ LookAtStatus(c) \/ RevokePrevious(c)
                        \/ InsertCredential(c) \/ CallFails(c)
    \/ \E k \in CredentialIds : CredentialExpires(k)

FleetNext == Manage \/ ServeRunners \/ ManageCredentials

FleetSpec == FleetInit /\ [][FleetNext]_fleetVars
=============================================================================
