------------------------- MODULE ControlPlaneProofs -------------------------
(***************************************************************************)
(* The parts of the API and the terminal around the queue: revocation is   *)
(* final, due slots are claimed once and pauses hold, requests are decided *)
(* on what servers were, and a second press does what its prompt named;    *)
(* for any runners, credentials, schedules, schedulers, servers, requests  *)
(* and rows.                                                               *)
(***************************************************************************)
EXTENDS FleetProperties, SchedulerProperties, Inventory, Terminal, TLAPS

(* Runners and their credentials. *)

Steps == {"revoke", "issue", "replace", "insert", "scope", "register", "heartbeat", "claim"}

Call == {Idle, [at |-> "enrol"]}
        \cup [at : Steps, runner : RunnerIds]
        \cup [at : {"identify"}, runner : RunnerIds, purpose : Purposes]

(***************************************************************************)
(* What the proofs need besides the types: a runner that a handler or a    *)
(* credential names has a row.                                             *)
(***************************************************************************)
FleetInvariant ==
    /\ FleetTypeOK
    /\ calls \in [Calls -> Call]
    /\ \A c \in Calls, r \in RunnerIds : Holds(c, r) => runners[r] # "none"
    /\ \A k \in CredentialIds :
          credentials[k].runner # NoRunner => runners[credentials[k].runner] # "none"

USE FleetAssumption

(***************************************************************************)
(* What a handler under way looks like, by the step it is at.              *)
(***************************************************************************)
LEMMA CallShapes ==
    ASSUME NEW call \in Call
    PROVE  /\ call.at \in Steps => call \in [at : Steps, runner : RunnerIds]
           /\ call.at = "identify" =>
                 call \in [at : {"identify"}, runner : RunnerIds, purpose : Purposes]
           /\ call.at \notin Steps \cup {"identify"} => call = Idle \/ call = [at |-> "enrol"]
BY DEF Call, Steps, Idle, Purposes

(***************************************************************************)
(* Every step keeps it.                                                    *)
(***************************************************************************)
LEMMA FleetInvariantStep ==
    ASSUME FleetInvariant, [FleetNext]_fleetVars
    PROVE  FleetInvariant'
<1> USE DEF FleetInvariant, FleetTypeOK, Holds, Goes, Idle, NoCredential, Fresh
<1>1. ASSUME CreateManagedRunner PROVE FleetInvariant'
    BY <1>1 DEF CreateManagedRunner
<1>2. ASSUME IssueBootstrap PROVE FleetInvariant'
    BY <1>2 DEF IssueBootstrap
<1>3. ASSUME NEW r \in RunnerIds, UpdateRunner(r) PROVE FleetInvariant'
    BY <1>3 DEF UpdateRunner
<1>4. ASSUME NEW c \in Calls, NEW r \in RunnerIds, RevokeRunner(c, r) PROVE FleetInvariant'
    BY <1>4 DEF RevokeRunner, Call, Steps
<1>5. ASSUME NEW c \in Calls, NEW r \in RunnerIds, StartIssue(c, r) PROVE FleetInvariant'
    BY <1>5 DEF StartIssue, Call, Steps
<1>6. ASSUME NEW c \in Calls, NEW k \in CredentialIds, PresentCredential(c, k) PROVE FleetInvariant'
    BY <1>6 DEF PresentCredential, Call, Steps, Purposes
<1>7. ASSUME NEW c \in Calls, Identify(c) PROVE FleetInvariant'
    BY <1>7, CallShapes DEF Identify, Call, Steps, Purposes
<1>8. ASSUME NEW c \in Calls, Enrol(c) PROVE FleetInvariant'
    BY <1>8, CallShapes DEF Enrol, Call, Steps
<1>9. ASSUME NEW c \in Calls, RegisterAgain(c) PROVE FleetInvariant'
    <2>1. calls[c] \in [at : Steps, runner : RunnerIds]
        BY <1>9, CallShapes DEF RegisterAgain, Steps
    <2>2. CASE runners[calls[c].runner] = "revoked"
        BY <1>9, <2>1, <2>2 DEF RegisterAgain, Call
    <2>3. CASE runners[calls[c].runner] # "revoked"
        <3> DEFINE r == calls[c].runner
        <3>1. /\ r \in RunnerIds
              /\ runners' = [runners EXCEPT ![r] = "active"]
              /\ calls' = [calls EXCEPT ![c] = [at |-> "scope", runner |-> r]]
              /\ UNCHANGED <<scopes, credentials>>
            BY <1>9, <2>1, <2>3 DEF RegisterAgain
        <3>2. [at |-> "scope", runner |-> r] \in Call
            BY <3>1 DEF Call, Steps
        <3> HIDE DEF r
        <3> QED
            BY <3>1, <3>2
    <2> QED
        BY <2>2, <2>3
<1>10. ASSUME NEW c \in Calls, AssignScope(c) PROVE FleetInvariant'
    BY <1>10, CallShapes DEF AssignScope, Call, Steps
<1>11. ASSUME NEW c \in Calls, Heartbeat(c) PROVE FleetInvariant'
    <2>1. calls[c].runner \in RunnerIds
        BY <1>11, CallShapes DEF Heartbeat, Steps
    <2> QED
        BY <1>11, <2>1 DEF Heartbeat, Call
<1>12. ASSUME NEW c \in Calls, Claim(c) PROVE FleetInvariant'
    BY <1>12, CallShapes DEF Claim, Call, Steps
<1>13. ASSUME NEW c \in Calls, RevokeCredentials(c) PROVE FleetInvariant'
    BY <1>13, CallShapes DEF RevokeCredentials, Call, Steps, WithoutCredentials
<1>14. ASSUME NEW c \in Calls, LookAtStatus(c) PROVE FleetInvariant'
    BY <1>14, CallShapes DEF LookAtStatus, Call, Steps
<1>15. ASSUME NEW c \in Calls, RevokePrevious(c) PROVE FleetInvariant'
    BY <1>15, CallShapes DEF RevokePrevious, Call, Steps, WithoutCredentials
<1>16. ASSUME NEW c \in Calls, InsertCredential(c) PROVE FleetInvariant'
    <2>1. calls[c] \in [at : Steps, runner : RunnerIds]
        BY <1>16, CallShapes DEF InsertCredential, Steps
    <2>2. PICK k \in CredentialIds :
              credentials' = [credentials EXCEPT ![k] = [runner |-> calls[c].runner, live |-> TRUE]]
        BY <1>16 DEF InsertCredential
    <2>3. runners[calls[c].runner] # "none"
        BY <1>16, <2>1 DEF InsertCredential
    <2> QED
        BY <1>16, <2>1, <2>2, <2>3 DEF InsertCredential, Call
<1>17. ASSUME NEW c \in Calls, CallFails(c) PROVE FleetInvariant'
    BY <1>17 DEF CallFails, Call, Steps
<1>18. ASSUME NEW k \in CredentialIds, CredentialExpires(k) PROVE FleetInvariant'
    BY <1>18 DEF CredentialExpires
<1>19. CASE UNCHANGED fleetVars
    BY <1>19 DEF fleetVars
<1> QED
    BY <1>1, <1>2, <1>3, <1>4, <1>5, <1>6, <1>7, <1>8, <1>9, <1>10, <1>11, <1>12, <1>13, <1>14, <1>15, <1>16, <1>17, <1>18, <1>19
       DEF FleetNext, Manage, ServeRunners, ManageCredentials

(***************************************************************************)
(* No step lets a runner back in.  A handler that still knows it is about  *)
(* to look at its status; every other handler is about another runner, and *)
(* so is every credential.                                                 *)
(***************************************************************************)
LEMMA LockedOutStep ==
    ASSUME FleetInvariant, [FleetNext]_fleetVars, NEW r \in RunnerIds, LockedOut(r)
    PROVE  LockedOut(r)'
<1> USE DEF FleetInvariant, FleetTypeOK, LockedOut, Holds, Goes, Idle, NoCredential, Fresh
<1>0. \A c \in Calls : calls[c].at \in Steps \ {"issue"} => calls[c].runner \in RunnerIds \ {r}
    <2> TAKE c \in Calls
    <2> HAVE calls[c].at \in Steps \ {"issue"}
    <2>1. calls[c].runner \in RunnerIds
        BY CallShapes
    <2>2. calls[c] # Idle /\ calls[c].at # "enrol"
        BY DEF Steps
    <2>3. calls[c].runner # r
        BY <2>2
    <2> QED
        BY <2>1, <2>3
<1>1. ASSUME CreateManagedRunner PROVE LockedOut(r)'
    BY <1>0, <1>1 DEF CreateManagedRunner, Steps
<1>2. ASSUME IssueBootstrap PROVE LockedOut(r)'
    BY <1>0, <1>2 DEF IssueBootstrap, Steps
<1>3. ASSUME NEW s \in RunnerIds, UpdateRunner(s) PROVE LockedOut(r)'
    BY <1>0, <1>3 DEF UpdateRunner, Steps
<1>4. ASSUME NEW c \in Calls, NEW s \in RunnerIds, RevokeRunner(c, s) PROVE LockedOut(r)'
    BY <1>0, <1>4 DEF RevokeRunner, Steps
<1>5. ASSUME NEW c \in Calls, NEW s \in RunnerIds, StartIssue(c, s) PROVE LockedOut(r)'
    BY <1>0, <1>5 DEF StartIssue, Steps
<1>6. ASSUME NEW c \in Calls, NEW k \in CredentialIds, PresentCredential(c, k) PROVE LockedOut(r)'
    BY <1>0, <1>6 DEF PresentCredential, Purposes, Steps
<1>7. ASSUME NEW c \in Calls, Identify(c) PROVE LockedOut(r)'
    BY <1>0, <1>7 DEF Identify, Purposes, Steps
<1>8. ASSUME NEW c \in Calls, Enrol(c) PROVE LockedOut(r)'
    BY <1>0, <1>8 DEF Enrol, Steps
<1>9. ASSUME NEW c \in Calls, RegisterAgain(c) PROVE LockedOut(r)'
    BY <1>0, <1>9 DEF RegisterAgain, Steps
<1>10. ASSUME NEW c \in Calls, AssignScope(c) PROVE LockedOut(r)'
    BY <1>0, <1>10 DEF AssignScope, Steps
<1>11. ASSUME NEW c \in Calls, Heartbeat(c) PROVE LockedOut(r)'
    BY <1>0, <1>11 DEF Heartbeat, Steps
<1>12. ASSUME NEW c \in Calls, Claim(c) PROVE LockedOut(r)'
    BY <1>0, <1>12 DEF Claim, Steps
<1>13. ASSUME NEW c \in Calls, RevokeCredentials(c) PROVE LockedOut(r)'
    BY <1>0, <1>13 DEF RevokeCredentials, WithoutCredentials, Steps
<1>14. ASSUME NEW c \in Calls, LookAtStatus(c) PROVE LockedOut(r)'
    BY <1>0, <1>14 DEF LookAtStatus, Steps
<1>15. ASSUME NEW c \in Calls, RevokePrevious(c) PROVE LockedOut(r)'
    BY <1>0, <1>15 DEF RevokePrevious, WithoutCredentials, Steps
<1>16. ASSUME NEW c \in Calls, InsertCredential(c) PROVE LockedOut(r)'
    BY <1>0, <1>16 DEF InsertCredential, Steps
<1>17. ASSUME NEW c \in Calls, CallFails(c) PROVE LockedOut(r)'
    BY <1>0, <1>17 DEF CallFails, Steps
<1>18. ASSUME NEW k \in CredentialIds, CredentialExpires(k) PROVE LockedOut(r)'
    BY <1>0, <1>18 DEF CredentialExpires, Steps
<1>19. CASE UNCHANGED fleetVars
    BY <1>19 DEF fleetVars
<1> QED
    BY <1>1, <1>2, <1>3, <1>4, <1>5, <1>6, <1>7, <1>8, <1>9, <1>10, <1>11, <1>12, <1>13, <1>14, <1>15, <1>16, <1>17, <1>18, <1>19
       DEF FleetNext, Manage, ServeRunners, ManageCredentials

(***************************************************************************)
(* The rows of runners, scopes and credentials are well formed in every    *)
(* reachable state.                                                        *)
(***************************************************************************)
THEOREM FleetIsWellFormed == FleetSpec => []FleetInvariant
<1>1. FleetInit => FleetInvariant
    BY DEF FleetInit, FleetInvariant, FleetTypeOK, Holds, NoCredential, Call, Idle
<1> QED
    BY <1>1, FleetInvariantStep, PTL DEF FleetSpec

(***************************************************************************)
(* A revocation whose handlers are done is final, whatever rotation,       *)
(* update, heartbeat or registration is asked for afterwards.              *)
(***************************************************************************)
THEOREM RevocationIsFinal == FleetSpec => RevocationHolds
<1>1. ASSUME FleetInvariant, [FleetNext]_fleetVars
      PROVE  [\A r \in RunnerIds : LockedOut(r) => LockedOut(r)']_fleetVars
    BY <1>1, LockedOutStep
<1> QED
    BY <1>1, FleetIsWellFormed, PTL DEF FleetSpec, RevocationHolds

-----------------------------------------------------------------------------
(* Schedules. *)

(***************************************************************************)
(* What a cycle keeps: the rows it selected, with their next_run_at.       *)
(***************************************************************************)
DueRows == UNION {[S -> Nat] : S \in SUBSET ScheduleIds}

CycleState ==
    {Idle}
    \cup [at : {"pauses"}, orgs : SUBSET Organisations, paused : SUBSET Organisations]
    \cup [at : {"loop"}, due : DueRows]
    \cup [at : {"claim", "execute"}, schedule : ScheduleIds, due : DueRows]

RowsAreTyped ==
    /\ now \in Nat
    /\ DOMAIN schedules \subseteq ScheduleIds
    /\ schedules \in [DOMAIN schedules -> [next : Nat, enabled : BOOLEAN]]
    /\ paused \subseteq Organisations
    /\ cycles \in [Schedulers -> CycleState]
    /\ late \in [Organisations -> [Schedulers -> Nat]]
    /\ slots \subseteq ScheduleIds \X Nat
    /\ disturbances \in Nat

(***************************************************************************)
(* A claim under way is about a row of the batch, and rows stay; what was  *)
(* claimed lies before next_run_at; a scheduler that has started a run of  *)
(* a paused organisation is not about to start another one.                *)
(***************************************************************************)
ClaimsNameRows ==
    \A p \in Schedulers : cycles[p].at \in {"claim", "execute"} =>
        /\ cycles[p].schedule \in DOMAIN cycles[p].due

SlotsArePast ==
    \A slot \in slots :
        /\ slot[1] \in DOMAIN schedules
        /\ schedules[slot[1]].next > slot[2]

RunsUnderPause ==
    \A o \in paused, p \in Schedulers :
        /\ late[o][p] <= 1
        /\ cycles[p].at \in {"claim", "execute"} /\ OwnerOf[cycles[p].schedule] = o => late[o][p] = 0

SchedulerInvariant ==
    RowsAreTyped /\ ClaimsNameRows /\ SlotsArePast /\ RunsUnderPause

-----------------------------------------------------------------------------
\* The first multiple of a period after a given span.
LEMMA Division ==
    ASSUME NEW a \in Nat, NEW d \in Nat, d > 0
    PROVE  d * (a \div d + 1) > a /\ d * (a \div d + 1) \in Nat
<1>1. a \div d \in Int /\ a % d \in Int /\ a = d * (a \div d) + (a % d) /\ a % d < d /\ a % d >= 0
    BY SMT
<1>2. d * (a \div d + 1) = d * (a \div d) + d
    BY <1>1
<1> QED
    BY <1>1, <1>2

\* The next run computed for a schedule lies after the moment it is computed for
\* (automation.go:306), so a claimed slot is never claimed again.
LEMMA NextIsLater ==
    ASSUME NEW next \in Nat, NEW time \in Nat, SchedulerAssumption
    PROVE  NextAfter(next, time) \in Nat /\ NextAfter(next, time) > time
<1>1. CASE next > time
    BY <1>1 DEF NextAfter
<1>2. CASE ~ next > time
    <2>1. time - next \in Nat /\ Interval \in Nat /\ Interval > 0
        BY <1>2 DEF SchedulerAssumption
    <2>2. /\ Interval * ((time - next) \div Interval + 1) > time - next
          /\ Interval * ((time - next) \div Interval + 1) \in Nat
        BY <2>1, Division
    <2> QED
        BY <1>2, <2>2 DEF NextAfter
<1> QED
    BY <1>1, <1>2

\* What is left of a batch of due rows is a batch, and a cycle without rows left is
\* idle.
LEMMA RestOfBatch ==
    ASSUME NEW due \in DueRows, NEW s
    PROVE  /\ Without(due, s) \in DueRows
           /\ StillDue(due) \in CycleState
           /\ StillDue(due).at \in {"idle", "loop"}
<1>1. PICK S \in SUBSET ScheduleIds : due \in [S -> Nat]
    BY DEF DueRows
<1>2. Without(due, s) \in [S \ {s} -> Nat] /\ S \ {s} \in SUBSET ScheduleIds
    BY <1>1 DEF Without
<1>3. Without(due, s) \in DueRows
    BY <1>2 DEF DueRows
<1> QED
    BY <1>3 DEF StillDue, CycleState, Idle

(***************************************************************************)
(* A step of one cycle that neither starts a run nor comes to claim a row. *)
(***************************************************************************)
LEMMA QuietCycle ==
    ASSUME SchedulerInvariant, NEW p \in Schedulers, NEW cycle \in CycleState,
           Proceeds(p, cycle), cycle.at \notin {"claim", "execute"},
           UNCHANGED <<now, schedules, paused, slots, late>>, disturbances' \in Nat
    PROVE  SchedulerInvariant'
<1>1. /\ cycles' \in [Schedulers -> CycleState]
      /\ cycles'[p] = cycle
      /\ \A q \in Schedulers : q # p => cycles'[q] = cycles[q]
    BY DEF SchedulerInvariant, RowsAreTyped, Proceeds
<1>2. RowsAreTyped'
    BY <1>1 DEF SchedulerInvariant, RowsAreTyped
<1>3. ClaimsNameRows'
    BY <1>1 DEF SchedulerInvariant, ClaimsNameRows
<1>4. SlotsArePast'
    BY DEF SchedulerInvariant, SlotsArePast
<1>5. RunsUnderPause'
    BY <1>1 DEF SchedulerInvariant, RunsUnderPause
<1> QED
    BY <1>2, <1>3, <1>4, <1>5 DEF SchedulerInvariant

\* The steps of a scheduler's cycle, and its stop between two of them.
LEMMA CycleSteps ==
    ASSUME SchedulerInvariant, NEW p \in Schedulers, Cycle(p) \/ CycleStops(p)
    PROVE  SchedulerInvariant'
<1> USE SchedulerAssumption
<1>0. cycles[p] \in CycleState /\ cycles \in [Schedulers -> CycleState] /\ disturbances \in Nat
    BY DEF SchedulerInvariant, RowsAreTyped
<1>1. CASE StartCycle(p)
    <2> DEFINE orgs == {OwnerOf[s] : s \in {s \in ScheduleIds : IsDue(s)}}
               cycle == [at |-> "pauses", orgs |-> orgs, paused |-> {}]
    <2>1. orgs \subseteq Organisations
        BY DEF SchedulerAssumption
    <2>2. cycle \in CycleState
        BY <2>1 DEF CycleState
    <2>3. Proceeds(p, cycle) /\ UNCHANGED <<now, schedules, paused, slots, late, disturbances>>
        BY <1>1 DEF StartCycle
    <2>4. cycle.at = "pauses"
        OBVIOUS
    <2> HIDE DEF cycle
    <2> QED
        BY <1>0, <2>2, <2>3, <2>4, QuietCycle
<1>2. CASE ReadPause(p)
    <2>1. PICK o \in cycles[p].orgs :
              Proceeds(p, [cycles[p] EXCEPT !.orgs = @ \ {o}, !.paused = @ \cup (paused \cap {o})])
        BY <1>2 DEF ReadPause
    <2> DEFINE cycle == [cycles[p] EXCEPT !.orgs = @ \ {o}, !.paused = @ \cup (paused \cap {o})]
    <2>2. cycles[p] \in [at : {"pauses"}, orgs : SUBSET Organisations, paused : SUBSET Organisations]
        BY <1>0, <1>2 DEF ReadPause, CycleState, Idle
    <2>3. cycle \in [at : {"pauses"}, orgs : SUBSET Organisations, paused : SUBSET Organisations]
        BY <2>1, <2>2
    <2>4. cycle \in CycleState /\ cycle.at = "pauses"
        BY <2>3 DEF CycleState
    <2>5. UNCHANGED <<now, schedules, paused, slots, late, disturbances>>
        BY <1>2 DEF ReadPause
    <2> HIDE DEF cycle
    <2> QED
        BY <1>0, <2>1, <2>4, <2>5, QuietCycle DEF cycle
<1>3. CASE SelectDue(p)
    <2>1. PICK b \in Batches :
              Proceeds(p, StillDue([s \in {s \in b : OwnerOf[s] \notin cycles[p].paused} |->
                                       schedules[s].next]))
        BY <1>3 DEF SelectDue
    <2> DEFINE kept == {s \in b : OwnerOf[s] \notin cycles[p].paused}
               due == [s \in kept |-> schedules[s].next]
    <2>2. b \subseteq {s \in ScheduleIds : IsDue(s)}
        BY DEF Batches, Earliest
    <2>3. \A s \in kept : s \in ScheduleIds /\ schedules[s].next \in Nat
        BY <2>2 DEF IsDue, SchedulerInvariant, RowsAreTyped
    <2>4. due \in [kept -> Nat] /\ kept \in SUBSET ScheduleIds
        BY <2>3
    <2>5. due \in DueRows
        BY <2>4 DEF DueRows
    <2>6. UNCHANGED <<now, schedules, paused, slots, late, disturbances>>
        BY <1>3 DEF SelectDue
    <2> HIDE DEF due
    <2>7. StillDue(due) \in CycleState /\ StillDue(due).at \notin {"claim", "execute"}
        BY <2>5, RestOfBatch
    <2> QED
        BY <1>0, <2>1, <2>6, <2>7, QuietCycle DEF due
<1>4. CASE CheckPause(p)
    <2>1. PICK s \in ScheduleIds :
            /\ IsFirst(s, cycles[p].due)
            /\ Proceeds(p, IF IsPaused(OwnerOf[s])
                             THEN StillDue(Without(cycles[p].due, s))
                             ELSE [at |-> "claim", schedule |-> s, due |-> cycles[p].due])
        BY <1>4 DEF CheckPause
    <2>2. UNCHANGED <<now, schedules, paused, slots, late, disturbances>>
        BY <1>4 DEF CheckPause
    <2>3. cycles[p].due \in DueRows
        BY <1>0, <1>4 DEF CheckPause, CycleState, Idle
    <2>4. CASE IsPaused(OwnerOf[s])
        <3>1. Without(cycles[p].due, s) \in DueRows
            BY <2>3, RestOfBatch
        <3>2. /\ StillDue(Without(cycles[p].due, s)) \in CycleState
              /\ StillDue(Without(cycles[p].due, s)).at \notin {"claim", "execute"}
            BY <3>1, RestOfBatch
        <3> QED
            BY <1>0, <2>1, <2>2, <2>4, <3>2, QuietCycle
    <2>5. CASE ~ IsPaused(OwnerOf[s])
        <3> DEFINE cycle == [at |-> "claim", schedule |-> s, due |-> cycles[p].due]
        <3>1. cycle \in CycleState
            BY <2>3 DEF CycleState
        <3>2. /\ cycles' \in [Schedulers -> CycleState]
              /\ cycles'[p].at = "claim" /\ cycles'[p].schedule = s /\ cycles'[p].due = cycles[p].due
              /\ \A q \in Schedulers : q # p => cycles'[q] = cycles[q]
            BY <1>0, <2>1, <2>5, <3>1 DEF Proceeds
        <3>3. RowsAreTyped'
            BY <2>2, <3>2 DEF SchedulerInvariant, RowsAreTyped
        <3>4. ClaimsNameRows'
            BY <2>1, <3>2 DEF SchedulerInvariant, ClaimsNameRows, IsFirst
        <3>5. SlotsArePast'
            BY <2>2 DEF SchedulerInvariant, SlotsArePast
        <3>6. RunsUnderPause'
            BY <2>2, <2>5, <3>2 DEF SchedulerInvariant, RunsUnderPause, IsPaused
        <3> QED
            BY <3>3, <3>4, <3>5, <3>6 DEF SchedulerInvariant
    <2> QED
        BY <2>4, <2>5
<1>5. CASE ClaimDue(p)
    <2> DEFINE s == cycles[p].schedule
               due == cycles[p].due
    <2>1. /\ cycles[p] \in [at : {"claim", "execute"}, schedule : ScheduleIds, due : DueRows]
          /\ s \in ScheduleIds /\ due \in DueRows
        BY <1>0, <1>5 DEF ClaimDue, CycleState, Idle
    <2>2. s \in DOMAIN due
        BY <1>5 DEF ClaimDue, SchedulerInvariant, ClaimsNameRows
    <2>3. CASE ~ IsDue(s)
        <3>1. Without(due, s) \in DueRows
            BY <2>1, RestOfBatch
        <3>2. /\ StillDue(Without(due, s)) \in CycleState
              /\ StillDue(Without(due, s)).at \notin {"claim", "execute"}
            BY <3>1, RestOfBatch
        <3>3. /\ Proceeds(p, StillDue(Without(due, s)))
              /\ UNCHANGED <<now, schedules, paused, slots, late, disturbances>>
            BY <1>5, <2>3 DEF ClaimDue
        <3> QED
            BY <1>0, <3>2, <3>3, QuietCycle
    <2>4. CASE IsDue(s)
        <3> DEFINE next == NextAfter(due[s], now)
                   cycle == [cycles[p] EXCEPT !.at = "execute"]
        <3>1. due[s] \in Nat /\ now \in Nat
            BY <2>1, <2>2 DEF DueRows, SchedulerInvariant, RowsAreTyped
        <3>2. next \in Nat /\ next > now
            BY <3>1, NextIsLater
        <3> HIDE DEF next
        <3>3. /\ s \in DOMAIN schedules
              /\ schedules \in [DOMAIN schedules -> [next : Nat, enabled : BOOLEAN]]
              /\ schedules[s].next \in Nat /\ schedules[s].next <= now
            BY <2>4 DEF IsDue, SchedulerInvariant, RowsAreTyped
        <3>4. /\ schedules' = [schedules EXCEPT ![s].next = next]
              /\ slots' = slots \cup {<<s, schedules[s].next>>}
              /\ Proceeds(p, cycle)
              /\ UNCHANGED <<now, paused, late, disturbances>>
            BY <1>5, <2>4 DEF ClaimDue, next
        <3>5. /\ schedules' \in [DOMAIN schedules -> [next : Nat, enabled : BOOLEAN]]
              /\ DOMAIN schedules' = DOMAIN schedules
              /\ schedules'[s].next = next
              /\ \A t \in DOMAIN schedules : t # s => schedules'[t] = schedules[t]
            BY <3>2, <3>3, <3>4
        <3>6. /\ cycle \in CycleState /\ cycle.schedule = s /\ cycle.due = due
            BY <2>1 DEF CycleState
        <3>7. /\ cycles' \in [Schedulers -> CycleState]
              /\ cycles'[p].schedule = s /\ cycles'[p].due = due
              /\ \A q \in Schedulers : q # p => cycles'[q] = cycles[q]
            BY <1>0, <3>4, <3>6 DEF Proceeds
        <3>8. RowsAreTyped'
            BY <3>4, <3>5, <3>7 DEF SchedulerInvariant, RowsAreTyped
        <3>9. ClaimsNameRows'
            BY <2>2, <3>7 DEF SchedulerInvariant, ClaimsNameRows
        <3>10. \A slot \in slots : slot[1] \in DOMAIN schedules' /\ schedules'[slot[1]].next > slot[2]
            <4> SUFFICES ASSUME NEW slot \in slots
                         PROVE  slot[1] \in DOMAIN schedules' /\ schedules'[slot[1]].next > slot[2]
                OBVIOUS
            <4>1. slot[1] \in DOMAIN schedules /\ schedules[slot[1]].next > slot[2] /\ slot[2] \in Nat
                BY DEF SchedulerInvariant, SlotsArePast, RowsAreTyped
            <4> QED
                BY <4>1, <3>1, <3>2, <3>3, <3>5
        <3>11. SlotsArePast'
            BY <3>1, <3>2, <3>3, <3>4, <3>5, <3>10 DEF SlotsArePast
        <3>12. RunsUnderPause'
            BY <1>5, <3>4, <3>7 DEF SchedulerInvariant, RunsUnderPause, ClaimDue
        <3> QED
            BY <3>8, <3>9, <3>11, <3>12 DEF SchedulerInvariant
    <2> QED
        BY <2>3, <2>4
<1>6. CASE Execute(p)
    <2> DEFINE s == cycles[p].schedule
               due == cycles[p].due
               rest == StillDue(Without(due, s))
               o == OwnerOf[s]
    <2>1. s \in ScheduleIds /\ due \in DueRows
        BY <1>0, <1>6 DEF Execute, CycleState, Idle
    <2>2. Without(due, s) \in DueRows
        BY <2>1, RestOfBatch
    <2>3. rest \in CycleState /\ rest.at \notin {"claim", "execute"}
        BY <2>2, RestOfBatch
    <2>4. /\ cycles[p].at = "execute"
          /\ Proceeds(p, rest)
          /\ UNCHANGED <<now, schedules, paused, slots, disturbances>>
          /\ \/ late' = [late EXCEPT ![o][p] = @ + 1] /\ o \in paused
             \/ late' = late
        BY <1>6 DEF Execute
    <2> HIDE DEF rest
    <2>5. CASE late' = late
        BY <1>0, <2>3, <2>4, <2>5, QuietCycle
    <2>6. CASE late' = [late EXCEPT ![o][p] = @ + 1] /\ o \in paused
        <3>1. /\ cycles' \in [Schedulers -> CycleState]
              /\ cycles'[p] = rest
              /\ \A q \in Schedulers : q # p => cycles'[q] = cycles[q]
            BY <1>0, <2>3, <2>4 DEF Proceeds
        <3>2. o \in Organisations /\ late \in [Organisations -> [Schedulers -> Nat]]
            BY <2>1 DEF SchedulerAssumption, SchedulerInvariant, RowsAreTyped
        <3>3. late[o][p] = 0
            BY <2>4, <2>6 DEF SchedulerInvariant, RunsUnderPause
        <3>4. /\ late' \in [Organisations -> [Schedulers -> Nat]]
              /\ late'[o][p] = 1
              /\ \A a \in Organisations, q \in Schedulers :
                    a # o \/ q # p => late'[a][q] = late[a][q]
            BY <2>6, <3>2, <3>3
        <3>5. RowsAreTyped'
            BY <2>4, <3>1, <3>4 DEF SchedulerInvariant, RowsAreTyped
        <3>6. ClaimsNameRows'
            BY <2>3, <3>1 DEF SchedulerInvariant, ClaimsNameRows
        <3>7. SlotsArePast'
            BY <2>4 DEF SchedulerInvariant, SlotsArePast
        <3>8. RunsUnderPause'
            <4> SUFFICES ASSUME NEW a \in paused, NEW q \in Schedulers
                         PROVE  /\ late'[a][q] <= 1
                                /\ cycles'[q].at \in {"claim", "execute"}
                                   /\ OwnerOf[cycles'[q].schedule] = a => late'[a][q] = 0
                BY <2>4 DEF RunsUnderPause
            <4>1. a \in Organisations
                BY DEF SchedulerInvariant, RowsAreTyped
            <4>2. CASE q = p
                BY <2>3, <3>1, <3>4, <4>1, <4>2 DEF SchedulerInvariant, RunsUnderPause
            <4>3. CASE q # p
                BY <3>1, <3>4, <4>1, <4>3 DEF SchedulerInvariant, RunsUnderPause
            <4> QED
                BY <4>2, <4>3
        <3> QED
            BY <3>5, <3>6, <3>7, <3>8 DEF SchedulerInvariant
    <2> QED
        BY <2>4, <2>5, <2>6
<1>7. CASE CycleStops(p)
    <2>1. Idle \in CycleState /\ Idle.at = "idle"
        BY DEF CycleState, Idle
    <2>2. /\ Proceeds(p, Idle) /\ disturbances' \in Nat
          /\ UNCHANGED <<now, schedules, paused, slots, late>>
        BY <1>0, <1>7 DEF CycleStops
    <2> QED
        BY <2>1, <2>2, QuietCycle
<1> QED
    BY <1>1, <1>2, <1>3, <1>4, <1>5, <1>6, <1>7 DEF Cycle

\* Pauses, edits of schedules and the clock.
LEMMA OtherSteps ==
    ASSUME SchedulerInvariant,
           \/ \E o \in Organisations : PauseAutomation(o) \/ ResumeAutomation(o)
           \/ \E s \in ScheduleIds : CreateSchedule(s) \/ DisableSchedule(s)
           \/ Tick
    PROVE  SchedulerInvariant'
<1>0. RowsAreTyped /\ ClaimsNameRows /\ SlotsArePast /\ RunsUnderPause
    BY DEF SchedulerInvariant
<1> USE SchedulerAssumption
<1>1. ASSUME NEW o \in Organisations, PauseAutomation(o) \/ ResumeAutomation(o)
      PROVE  SchedulerInvariant'
    <2>1. /\ paused' = paused \cup {o} \/ paused' = paused \ {o}
          /\ late' = [late EXCEPT ![o] = NoneLate]
          /\ disturbances' \in Nat
          /\ UNCHANGED <<now, schedules, cycles, slots>>
        BY <1>0, <1>1 DEF PauseAutomation, ResumeAutomation, RowsAreTyped
    <2>2. /\ late' \in [Organisations -> [Schedulers -> Nat]]
          /\ \A q \in Schedulers : late'[o][q] = 0
          /\ \A a \in Organisations : a # o => late'[a] = late[a]
        BY <1>0, <2>1 DEF RowsAreTyped, NoneLate
    <2>3. RowsAreTyped'
        BY <1>0, <2>1, <2>2 DEF RowsAreTyped
    <2>4. ClaimsNameRows' /\ SlotsArePast'
        BY <1>0, <2>1 DEF ClaimsNameRows, SlotsArePast
    <2>5. RunsUnderPause'
        <3> SUFFICES ASSUME NEW a \in paused', NEW q \in Schedulers
                     PROVE  /\ late'[a][q] <= 1
                            /\ cycles[q].at \in {"claim", "execute"}
                               /\ OwnerOf[cycles[q].schedule] = a => late'[a][q] = 0
            BY <2>1 DEF RunsUnderPause
        <3>1. CASE a = o
            BY <2>2, <3>1
        <3>2. CASE a # o
            BY <1>0, <2>1, <2>2, <3>2 DEF RunsUnderPause, RowsAreTyped
        <3> QED
            BY <3>1, <3>2
    <2> QED
        BY <2>3, <2>4, <2>5 DEF SchedulerInvariant
<1>2. ASSUME NEW s \in ScheduleIds, CreateSchedule(s)
      PROVE  SchedulerInvariant'
    <2>1. PICK next \in {now + Interval} \cup FirstTimes :
              schedules' = [t \in DOMAIN schedules \cup {s} |->
                              IF t = s THEN Scheduled(next) ELSE schedules[t]]
        BY <1>2 DEF CreateSchedule
    <2>2. /\ s \notin DOMAIN schedules
          /\ UNCHANGED <<now, paused, cycles, slots, late, disturbances>>
        BY <1>2 DEF CreateSchedule
    <2>3. next \in Nat
        BY <1>0, <2>1 DEF SchedulerAssumption, RowsAreTyped
    <2>4. Scheduled(next) \in [next : Nat, enabled : BOOLEAN]
        BY <2>3 DEF Scheduled
    <2>5. /\ DOMAIN schedules' = DOMAIN schedules \cup {s}
          /\ schedules' \in [DOMAIN schedules' -> [next : Nat, enabled : BOOLEAN]]
          /\ \A t \in DOMAIN schedules : schedules'[t] = schedules[t]
        BY <1>0, <2>1, <2>2, <2>4 DEF RowsAreTyped
    <2>6. RowsAreTyped'
        BY <1>0, <2>2, <2>5 DEF RowsAreTyped
    <2>7. ClaimsNameRows' /\ RunsUnderPause'
        BY <1>0, <2>2 DEF ClaimsNameRows, RunsUnderPause
    <2>8. SlotsArePast'
        BY <1>0, <2>2, <2>5 DEF SlotsArePast
    <2> QED
        BY <2>6, <2>7, <2>8 DEF SchedulerInvariant
<1>3. ASSUME NEW s \in ScheduleIds, DisableSchedule(s)
      PROVE  SchedulerInvariant'
    <2>1. /\ schedules' = [schedules EXCEPT ![s].enabled = FALSE]
          /\ s \in DOMAIN schedules
          /\ disturbances' \in Nat
          /\ UNCHANGED <<now, paused, cycles, slots, late>>
        BY <1>0, <1>3 DEF DisableSchedule, RowsAreTyped
    <2>2. /\ DOMAIN schedules' = DOMAIN schedules
          /\ schedules' \in [DOMAIN schedules -> [next : Nat, enabled : BOOLEAN]]
          /\ \A t \in DOMAIN schedules : schedules'[t].next = schedules[t].next
        BY <1>0, <2>1 DEF RowsAreTyped
    <2>3. RowsAreTyped'
        BY <1>0, <2>1, <2>2 DEF RowsAreTyped
    <2>4. ClaimsNameRows' /\ RunsUnderPause'
        BY <1>0, <2>1 DEF ClaimsNameRows, RunsUnderPause
    <2>5. SlotsArePast'
        BY <1>0, <2>1, <2>2 DEF SlotsArePast
    <2> QED
        BY <2>3, <2>4, <2>5 DEF SchedulerInvariant
<1>4. CASE Tick
    BY <1>0, <1>4 DEF Tick, SchedulerInvariant, RowsAreTyped, ClaimsNameRows, SlotsArePast, RunsUnderPause
<1> QED
    BY <1>1, <1>2, <1>3, <1>4

-----------------------------------------------------------------------------
(***************************************************************************)
(* The invariant of the scheduler, for any number of processes, schedules  *)
(* and organisations, any interval and any batch.                          *)
(***************************************************************************)
THEOREM SchedulerIsSafe == SchedulerSpec => []SchedulerInvariant
<1>1. SchedulerInit => SchedulerInvariant
    <2> SUFFICES ASSUME SchedulerInit PROVE SchedulerInvariant
        OBVIOUS
    <2> USE SchedulerAssumption DEF SchedulerInit
    <2>1. RowsAreTyped
        BY DEF RowsAreTyped, SchedulerAssumption, Scheduled, NoneLate, CycleState, Idle
    <2>2. ClaimsNameRows /\ SlotsArePast /\ RunsUnderPause
        BY DEF ClaimsNameRows, SlotsArePast, RunsUnderPause, Idle
    <2> QED
        BY <2>1, <2>2 DEF SchedulerInvariant
<1>2. SchedulerInvariant /\ [SchedulerNext]_schedulerVars => SchedulerInvariant'
    <2> SUFFICES ASSUME SchedulerInvariant, [SchedulerNext]_schedulerVars
                 PROVE  SchedulerInvariant'
        OBVIOUS
    <2>1. CASE \E p \in Schedulers : Cycle(p) \/ CycleStops(p)
        BY <2>1, CycleSteps
    <2>2. CASE \/ \E o \in Organisations : PauseAutomation(o) \/ ResumeAutomation(o)
               \/ \E s \in ScheduleIds : CreateSchedule(s) \/ DisableSchedule(s)
               \/ Tick
        BY <2>2, OtherSteps
    <2>3. CASE UNCHANGED schedulerVars
        BY <2>3 DEF schedulerVars, SchedulerInvariant, RowsAreTyped, ClaimsNameRows, SlotsArePast,
                    RunsUnderPause
    <2> QED
        BY <2>1, <2>2, <2>3 DEF SchedulerNext
<1> QED
    BY <1>1, <1>2, PTL DEF SchedulerSpec

(***************************************************************************)
(* A slot is claimed once, by whichever schedulers read it                 *)
(* (automation.go:306-307).                                                *)
(***************************************************************************)
THEOREM SlotsAreClaimedOnce == SchedulerSpec => []SlotsMoveOn
<1>1. SchedulerInvariant => SlotsMoveOn
    BY DEF SchedulerInvariant, SlotsArePast, SlotsMoveOn
<1> QED
    BY <1>1, SchedulerIsSafe, PTL

(***************************************************************************)
(* A pause lets through at most the one run that each scheduler had        *)
(* checked before (automation.go:295-315).                                 *)
(***************************************************************************)
THEOREM PausesHold == SchedulerSpec => []PauseHolds
<1>1. SchedulerInvariant => PauseHolds
    BY DEF SchedulerInvariant, RunsUnderPause, PauseHolds
<1> QED
    BY <1>1, SchedulerIsSafe, PTL

-----------------------------------------------------------------------------
(* The inventory. *)

ServerRow == {NoServer} \cup [status : {"active", "archived"}, environment : Stages, tagged : BOOLEAN]

Snapshot == UNION {[S -> Stages] : S \in SUBSET Servers}

Lookup ==
    {Idle} \cup [at : {"environment", "snapshot"}, targets : SUBSET Servers, todo : SUBSET Servers,
                 environment : Stages \cup {"none"}, snapshot : Snapshot]

Queued == [environment : Stages \cup {"none"}, snapshot : Snapshot]

InventoryIsTyped ==
    /\ servers \in [Servers -> ServerRow]
    /\ half \subseteq {"tag", "check"} \X Servers
    /\ lookups \in [Lookups -> Lookup]
    /\ queued \in [Lookups -> Queued]
    /\ been \in [Lookups -> [Servers -> SUBSET Stages]]

(***************************************************************************)
(* While a request is under way, been has the environment of every server  *)
(* that is there; so whatever the request reads, or has read, is in it.    *)
(***************************************************************************)
ReadsWhatWas(l) ==
    LET lookup == lookups[l]
    IN  lookup # Idle =>
            /\ queued[l] = Unqueued
            /\ \A s \in Servers : There(s) => servers[s].environment \in been[l][s]
            /\ \A s \in lookup.targets : There(s)
            /\ lookup.todo \subseteq lookup.targets
            /\ lookup.at = "environment" =>
                  /\ DOMAIN lookup.snapshot = {}
                  /\ \A s \in lookup.targets \ lookup.todo : lookup.environment \in been[l][s]
            /\ lookup.at = "snapshot" =>
                  /\ DOMAIN lookup.snapshot = lookup.targets \ lookup.todo
                  /\ \A s \in lookup.targets : lookup.environment \in been[l][s]
                  /\ \A s \in DOMAIN lookup.snapshot : lookup.snapshot[s] \in been[l][s]

InventoryInvariant ==
    /\ InventoryIsTyped
    /\ \A step \in half : There(step[2])
    /\ \A l \in Lookups : ReadsWhatWas(l)
    /\ \A l \in Lookups : \A s \in DOMAIN queued[l].snapshot : There(s)
    /\ DecidedOnWhatWas

(***************************************************************************)
(* An edit of one server: it may appear or move, and it does not vanish.   *)
(***************************************************************************)
LEMMA EditKeepsReads ==
    ASSUME InventoryInvariant, servers' \in [Servers -> ServerRow],
           \A s \in Servers : There(s) => servers'[s] # NoServer,
           \A s \in Servers : servers'[s] # NoServer =>
               \/ There(s) /\ servers'[s].environment = servers[s].environment
               \/ \A l \in Lookups : lookups[l] # Idle => servers'[s].environment \in been'[l][s],
           \A l \in Lookups : lookups[l] = Idle => been'[l] = been[l],
           been' \in [Lookups -> [Servers -> SUBSET Stages]],
           \A l \in Lookups, s \in Servers : been[l][s] \subseteq been'[l][s],
           half' \subseteq {"tag", "check"} \X Servers,
           \A step \in half' : servers'[step[2]] # NoServer,
           UNCHANGED <<lookups, queued>>
    PROVE  InventoryInvariant'
<1>1. InventoryIsTyped'
    BY DEF InventoryInvariant, InventoryIsTyped
<1>2. ASSUME NEW l \in Lookups PROVE ReadsWhatWas(l)'
    <2>1. ReadsWhatWas(l) /\ lookups[l] \in Lookup
        BY DEF InventoryInvariant, InventoryIsTyped
    <2>2. lookups[l] # Idle => lookups[l].targets \subseteq Servers
        BY <2>1 DEF Lookup
    <2> QED
        BY <2>1, <2>2 DEF ReadsWhatWas, There
<1>3. /\ \A step \in half' : There(step[2])'
      /\ \A l \in Lookups : \A s \in DOMAIN queued'[l].snapshot : There(s)'
    BY DEF InventoryInvariant, There, InventoryIsTyped, Queued, Snapshot
<1>4. DecidedOnWhatWas'
    BY DEF InventoryInvariant, DecidedOnWhatWas
<1> QED
    BY <1>1, <1>2, <1>3, <1>4 DEF InventoryInvariant

\* Edits of the inventory by other requests, whole or half done, take nothing from what
\* a lookup has read.
LEMMA EditsKeepReads ==
    ASSUME InventoryInvariant, EditServers
    PROVE  InventoryInvariant'
<1>0. /\ servers \in [Servers -> ServerRow]
      /\ been \in [Lookups -> [Servers -> SUBSET Stages]]
      /\ half \subseteq {"tag", "check"} \X Servers
      /\ \A step \in half : There(step[2])
    BY DEF InventoryInvariant, InventoryIsTyped
<1>1. ASSUME NEW s \in Servers, NEW environment \in Stages, Seen(s, environment)
      PROVE  /\ been' \in [Lookups -> [Servers -> SUBSET Stages]]
             /\ \A l \in Lookups : lookups[l] = Idle => been'[l] = been[l]
             /\ \A l \in Lookups : lookups[l] # Idle => environment \in been'[l][s]
             /\ \A l \in Lookups, x \in Servers : been[l][x] \subseteq been'[l][x]
    BY <1>0, <1>1 DEF Seen
<1>2. ASSUME NEW s \in Servers, AddServer(s) PROVE InventoryInvariant'
    <2>1. PICK environment \in Stages : \E tagged \in BOOLEAN :
              /\ servers' = [servers EXCEPT ![s] =
                    [status |-> "active", environment |-> environment, tagged |-> FALSE]]
              /\ half' = IF tagged THEN half \cup {<<"tag", s>>} ELSE half
              /\ Seen(s, environment)
        BY <1>2 DEF AddServer
    <2>2. [status |-> "active", environment |-> environment, tagged |-> FALSE] \in ServerRow \ {NoServer}
        BY DEF ServerRow, NoServer
    <2>3. /\ servers' \in [Servers -> ServerRow] /\ servers'[s] # NoServer
          /\ servers'[s].environment = environment
          /\ \A x \in Servers : x # s => servers'[x] = servers[x]
        BY <1>0, <2>1, <2>2
    <2>4. /\ half' \subseteq {"tag", "check"} \X Servers
          /\ \A step \in half' : servers'[step[2]] # NoServer
        BY <1>0, <2>1, <2>3 DEF There
    <2>5. UNCHANGED <<lookups, queued>>
        BY <1>2 DEF AddServer
    <2> QED
        BY <1>1, <2>1, <2>3, <2>4, <2>5, EditKeepsReads DEF There
<1>3. ASSUME NEW s \in Servers, UpdateServer(s) PROVE InventoryInvariant'
    <2>1. PICK environment \in Stages : \E tagged \in BOOLEAN :
              /\ servers' = [servers EXCEPT ![s].environment = environment, ![s].tagged = tagged]
              /\ Seen(s, environment)
        BY <1>3 DEF UpdateServer
    <2>2. There(s) /\ UNCHANGED <<half, lookups, queued>>
        BY <1>3 DEF UpdateServer
    <2>3. /\ servers' \in [Servers -> ServerRow] /\ servers'[s] # NoServer
          /\ servers'[s].environment = environment
          /\ \A x \in Servers : x # s => servers'[x] = servers[x]
        <3>1. servers[s] \in ServerRow \ {NoServer}
            BY <1>0, <2>2 DEF There
        <3>2. ASSUME NEW row \in ServerRow \ {NoServer}, NEW t \in BOOLEAN
              PROVE  /\ [row EXCEPT !.environment = environment, !.tagged = t] \in ServerRow
                     /\ [row EXCEPT !.environment = environment, !.tagged = t] # NoServer
                     /\ [row EXCEPT !.environment = environment, !.tagged = t].environment = environment
            BY DEF ServerRow, NoServer
        <3>3. PICK t \in BOOLEAN :
                  servers' = [servers EXCEPT ![s] = [servers[s] EXCEPT !.environment = environment,
                                                                       !.tagged = t]]
            BY <1>0, <2>1
        <3> QED
            BY <1>0, <3>1, <3>2, <3>3
    <2> QED
        BY <1>0, <1>1, <2>1, <2>2, <2>3, EditKeepsReads DEF There
<1>4. ASSUME NEW s \in Servers, NEW field \in {"tag", "check", "archive"},
             There(s), servers' \in [Servers -> ServerRow],
             servers'[s] # NoServer, servers'[s].environment = servers[s].environment,
             \A x \in Servers : x # s => servers'[x] = servers[x],
             half' \subseteq half \cup {<<"check", s>>},
             UNCHANGED <<lookups, queued, been>>
      PROVE  InventoryInvariant'
    <2>1. /\ half' \subseteq {"tag", "check"} \X Servers
          /\ \A step \in half' : servers'[step[2]] # NoServer
        BY <1>0, <1>4 DEF There
    <2> QED
        BY <1>0, <1>4, <2>1, EditKeepsReads DEF There
<1>5. ASSUME NEW s \in Servers, There(s)
      PROVE  /\ \A t \in BOOLEAN : [servers[s] EXCEPT !.tagged = t] \in ServerRow \ {NoServer}
             /\ \A t \in {"active", "archived"} : [servers[s] EXCEPT !.status = t] \in ServerRow \ {NoServer}
             /\ \A t : [servers[s] EXCEPT !.tagged = t].environment = servers[s].environment
             /\ \A t : [servers[s] EXCEPT !.status = t].environment = servers[s].environment
    BY <1>0, <1>5 DEF ServerRow, NoServer, There
<1>6. ASSUME NEW s \in Servers, AddTag(s) PROVE InventoryInvariant'
    <2>1. There(s)
        BY <1>0, <1>6 DEF AddTag
    <2>2. /\ half' \subseteq half /\ UNCHANGED <<lookups, queued, been>>
        BY <1>6 DEF AddTag
    <2>3. CASE servers' = servers
        BY <1>0, <1>4, <2>1, <2>2, <2>3 DEF There
    <2>4. CASE servers' = [servers EXCEPT ![s] = [servers[s] EXCEPT !.tagged = TRUE]]
        BY <1>0, <1>4, <1>5, <2>1, <2>2, <2>4 DEF There
    <2> QED
        BY <1>6, <2>3, <2>4 DEF AddTag
<1>7. ASSUME NEW s \in Servers, ArchiveServer(s) PROVE InventoryInvariant'
    <2>1. /\ There(s) /\ UNCHANGED <<half, lookups, queued, been>>
          /\ servers' = [servers EXCEPT ![s] = [servers[s] EXCEPT !.status = "archived"]]
        BY <1>7 DEF ArchiveServer
    <2> QED
        BY <1>0, <1>4, <1>5, <2>1 DEF There
<1>8. ASSUME NEW s \in Servers, StartCheck(s) PROVE InventoryInvariant'
    BY <1>0, <1>4, <1>8 DEF StartCheck, There
<1>9. ASSUME NEW s \in Servers, FinishCheck(s) PROVE InventoryInvariant'
    <2>1. /\ There(s) /\ UNCHANGED <<lookups, queued, been>>
          /\ half' = half \ {<<"check", s>>}
          /\ servers' = [servers EXCEPT ![s] = [servers[s] EXCEPT !.status = "active"]]
        BY <1>0, <1>9 DEF FinishCheck
    <2> QED
        BY <1>0, <1>4, <1>5, <2>1 DEF There
<1> QED
    BY <1>2, <1>3, <1>6, <1>7, <1>8, <1>9 DEF EditServers

(***************************************************************************)
(* A step of one request, which writes nothing but its own state.          *)
(***************************************************************************)
LEMMA LookupShapes ==
    /\ \A k \in Lookup \ {Idle} :
          /\ k.at \in {"environment", "snapshot"} /\ k.targets \subseteq Servers /\ k.todo \subseteq Servers
          /\ k.environment \in Stages \cup {"none"} /\ k.snapshot \in Snapshot
          /\ k \in [at : {"environment", "snapshot"}, targets : SUBSET Servers, todo : SUBSET Servers,
                    environment : Stages \cup {"none"}, snapshot : Snapshot]
    /\ Idle.at = "idle"
    /\ <<>> \in Snapshot /\ DOMAIN <<>> = {} /\ Unqueued \in Queued /\ DOMAIN Unqueued.snapshot = {}
    /\ \A f \in Snapshot : DOMAIN f \subseteq Servers /\ f \in [DOMAIN f -> Stages]
<1>1. <<>> \in [{} -> Stages] /\ DOMAIN <<>> = {} /\ {} \in SUBSET Servers
    OBVIOUS
<1>2. <<>> \in Snapshot
    BY <1>1 DEF Snapshot
<1>3. \A f \in Snapshot : DOMAIN f \subseteq Servers /\ f \in [DOMAIN f -> Stages]
    BY DEF Snapshot
<1> QED
    BY <1>1, <1>2, <1>3 DEF Lookup, Idle, Queued, Unqueued

\* The step of one lookup leaves the others' reads as they are: a criterion for what it
\* writes itself.
LEMMA StepKeepsReads ==
    ASSUME InventoryInvariant, NEW l \in Lookups, NEW k \in Lookup,
           lookups' = [lookups EXCEPT ![l] = k],
           queued' \in [Lookups -> Queued], been' \in [Lookups -> [Servers -> SUBSET Stages]],
           \A m \in Lookups \ {l} : queued'[m] = queued[m] /\ been'[m] = been[m],
           UNCHANGED <<servers, half>>,
           ReadsWhatWas(l)',
           \A s \in DOMAIN queued'[l].snapshot :
               /\ There(s)
               /\ k = Idle => {queued'[l].environment, queued'[l].snapshot[s]} \subseteq been'[l][s]
    PROVE  InventoryInvariant'
<1>0. /\ lookups \in [Lookups -> Lookup] /\ lookups'[l] = k
      /\ \A m \in Lookups \ {l} : lookups'[m] = lookups[m]
    BY DEF InventoryInvariant, InventoryIsTyped
<1>1. InventoryIsTyped'
    BY <1>0 DEF InventoryInvariant, InventoryIsTyped
<1>2. \A m \in Lookups : ReadsWhatWas(m)'
    BY <1>0 DEF InventoryInvariant, ReadsWhatWas, There
<1>3. \A step \in half' : There(step[2])'
    BY DEF InventoryInvariant, There
<1>4. \A m \in Lookups : \A s \in DOMAIN queued'[m].snapshot : There(s)'
    BY DEF InventoryInvariant, There
<1>5. DecidedOnWhatWas'
    BY <1>0 DEF InventoryInvariant, DecidedOnWhatWas
<1> QED
    BY <1>1, <1>2, <1>3, <1>4, <1>5 DEF InventoryInvariant

(***************************************************************************)
(* A request that has found its targets begins a history of its own.       *)
(***************************************************************************)
LEMMA FindingKeepsReads ==
    ASSUME InventoryInvariant, NEW l \in Lookups, lookups[l] = Idle,
           NEW set \in SUBSET Servers, \A s \in set : There(s), Found(l, set),
           UNCHANGED <<servers, half>>
    PROVE  InventoryInvariant'
<1> DEFINE k == [at |-> "environment", targets |-> set, todo |-> set, environment |-> "none",
                 snapshot |-> <<>>]
           was == [s \in Servers |-> IF There(s) THEN {servers[s].environment} ELSE {}]
<1>1. /\ lookups' = [lookups EXCEPT ![l] = k]
      /\ queued' = [queued EXCEPT ![l] = Unqueued]
      /\ been' = [been EXCEPT ![l] = was]
    BY DEF Found, Advance
<1>2. /\ lookups \in [Lookups -> Lookup] /\ queued \in [Lookups -> Queued]
      /\ been \in [Lookups -> [Servers -> SUBSET Stages]] /\ servers \in [Servers -> ServerRow]
    BY DEF InventoryInvariant, InventoryIsTyped
<1>3. k \in Lookup /\ k # Idle
    BY LookupShapes DEF Lookup, Idle
<1>4. was \in [Servers -> SUBSET Stages]
    BY <1>2 DEF ServerRow, There
<1>5. /\ queued' \in [Lookups -> Queued] /\ been' \in [Lookups -> [Servers -> SUBSET Stages]]
      /\ queued'[l] = Unqueued /\ been'[l] = was /\ lookups'[l] = k
      /\ \A m \in Lookups \ {l} : queued'[m] = queued[m] /\ been'[m] = been[m]
    BY <1>1, <1>2, <1>4, LookupShapes
<1>6. ReadsWhatWas(l)'
    <2>1. \A s \in Servers : There(s) => servers[s].environment \in was[s]
        OBVIOUS
    <2>2. k.targets = set /\ k.todo = set /\ k.at = "environment" /\ DOMAIN k.snapshot = {}
        BY LookupShapes
    <2> HIDE DEF k, was
    <2> QED
        BY <1>5, <2>1, <2>2 DEF ReadsWhatWas, There
<1> HIDE DEF k, was
<1> QED
    BY <1>1, <1>3, <1>5, <1>6, StepKeepsReads, LookupShapes

\* The reads of one request: server by server, by tag, the environments, the snapshots,
\* the queued targets.
LEMMA LookupsKeepReads ==
    ASSUME InventoryInvariant, LookUp
    PROVE  InventoryInvariant'
<1>0. PICK l \in Lookups : \/ ResolveServer(l) \/ ResolveTag(l) \/ ReadEnvironment(l)
                           \/ SnapshotTarget(l) \/ QueueTargets(l)
    BY DEF LookUp
<1>1. /\ lookups[l] \in Lookup /\ lookups \in [Lookups -> Lookup]
      /\ queued \in [Lookups -> Queued] /\ ReadsWhatWas(l)
      /\ been \in [Lookups -> [Servers -> SUBSET Stages]]
      /\ servers \in [Servers -> ServerRow]
    BY DEF InventoryInvariant, InventoryIsTyped
<1>2. CASE ResolveServer(l)
    <2>1. PICK s \in Servers : There(s) /\ Found(l, {s})
        BY <1>2 DEF ResolveServer
    <2> QED
        BY <1>2, <2>1, FindingKeepsReads DEF ResolveServer
<1>3. CASE ResolveTag(l)
    <2> DEFINE set == {s \in Servers : There(s) /\ servers[s].tagged}
    <2>1. set \in SUBSET Servers /\ \A s \in set : There(s)
        OBVIOUS
    <2>2. lookups[l] = Idle /\ Found(l, set) /\ UNCHANGED <<servers, half>>
        BY <1>3 DEF ResolveTag
    <2> HIDE DEF set
    <2> QED
        BY <2>1, <2>2, FindingKeepsReads
<1>4. ASSUME lookups[l].at \in {"environment", "snapshot"}
      PROVE  /\ lookups[l] # Idle /\ queued[l] = Unqueued
             /\ lookups[l] \in [at : {"environment", "snapshot"}, targets : SUBSET Servers,
                                todo : SUBSET Servers, environment : Stages \cup {"none"},
                                snapshot : Snapshot]
             /\ \A s \in Servers : There(s) => servers[s].environment \in been[l][s] \cap Stages
             /\ \A s \in lookups[l].targets : There(s)
             /\ lookups[l].todo \subseteq lookups[l].targets
    <2>1. lookups[l] # Idle
        BY <1>4, LookupShapes
    <2> QED
        BY <1>1, <2>1, LookupShapes DEF ReadsWhatWas, ServerRow, There
<1>5. ASSUME NEW k \in Lookup, lookups' = [lookups EXCEPT ![l] = k],
             UNCHANGED <<servers, half, queued, been>>, queued[l] = Unqueued, ReadsWhatWas(l)'
      PROVE  InventoryInvariant'
    BY <1>1, <1>5, StepKeepsReads, LookupShapes
<1>6. CASE ReadEnvironment(l)
    <2>1. PICK s \in lookups[l].todo :
              LET read == [lookups[l] EXCEPT !.todo = @ \ {s}, !.environment = servers[s].environment]
              IN  \/ ~Agrees(l, s) /\ Advance(l, Idle)
                  \/ Agrees(l, s) /\ Advance(l, IF read.todo # {} THEN read
                                         ELSE [read EXCEPT !.at = "snapshot", !.todo = read.targets])
        BY <1>6 DEF ReadEnvironment
    <2>2. lookups[l].at = "environment" /\ UNCHANGED <<servers, half, queued, been>>
        BY <1>6 DEF ReadEnvironment
    <2> DEFINE read == [lookups[l] EXCEPT !.todo = @ \ {s}, !.environment = servers[s].environment]
               done == [read EXCEPT !.at = "snapshot", !.todo = read.targets]
    <2>3. /\ s \in Servers /\ servers[s].environment \in Stages
          /\ servers[s].environment \in been[l][s]
        BY <1>4, <2>2
    <2>4. /\ read \in Lookup /\ read.at = "environment" /\ read.targets = lookups[l].targets
          /\ read.todo = lookups[l].todo \ {s} /\ read.environment = servers[s].environment
          /\ read.snapshot = lookups[l].snapshot
          /\ done \in Lookup /\ done.at = "snapshot" /\ done.targets = lookups[l].targets
          /\ done.todo = lookups[l].targets /\ done.environment = servers[s].environment
          /\ done.snapshot = lookups[l].snapshot
        BY <1>4, <2>2, <2>3 DEF Lookup
    <2>5. Agrees(l, s) => \A x \in lookups[l].targets \ read.todo : servers[s].environment \in been[l][x]
        <3> SUFFICES ASSUME Agrees(l, s), NEW x \in lookups[l].targets, x \notin read.todo, x # s
                     PROVE  servers[s].environment \in been[l][x]
            BY <2>3
        <3>1. x \in lookups[l].targets \ lookups[l].todo
            BY <2>4
        <3>2. lookups[l].environment \in been[l][x]
            BY <1>1, <1>4, <2>2, <3>1 DEF ReadsWhatWas
        <3> QED
            BY <3>1, <3>2 DEF Agrees
    <2> HIDE DEF read, done
    <2>6. CASE ~Agrees(l, s)
        <3>1. lookups' = [lookups EXCEPT ![l] = Idle] /\ Idle \in Lookup
            BY <2>1, <2>6 DEF Advance, Lookup
        <3>2. ReadsWhatWas(l)'
            BY <1>1, <3>1 DEF ReadsWhatWas
        <3> QED
            BY <1>4, <1>5, <2>2, <3>1, <3>2
    <2>7. CASE Agrees(l, s) /\ read.todo # {}
        <3>1. lookups' = [lookups EXCEPT ![l] = read]
            BY <2>1, <2>7 DEF Advance, read
        <3>2. lookups'[l] = read
            BY <1>1, <3>1
        <3>3. ReadsWhatWas(l)'
            BY <1>1, <1>4, <2>2, <2>4, <2>5, <2>7, <3>2 DEF ReadsWhatWas, There
        <3> QED
            BY <1>4, <1>5, <2>2, <2>4, <3>1, <3>3
    <2>8. CASE Agrees(l, s) /\ read.todo = {}
        <3>1. lookups' = [lookups EXCEPT ![l] = done]
            BY <2>1, <2>8 DEF Advance, read, done
        <3>2. lookups'[l] = done
            BY <1>1, <3>1
        <3>3. ReadsWhatWas(l)'
            BY <1>1, <1>4, <2>2, <2>4, <2>5, <2>8, <3>2 DEF ReadsWhatWas, There
        <3> QED
            BY <1>4, <1>5, <2>2, <2>4, <3>1, <3>3
    <2> QED
        BY <2>6, <2>7, <2>8
<1>7. CASE SnapshotTarget(l)
    <2>1. PICK s \in lookups[l].todo :
              lookups' = [lookups EXCEPT ![l] = [lookups[l] EXCEPT !.todo = lookups[l].todo \ {s},
                            !.snapshot = [x \in DOMAIN lookups[l].snapshot \cup {s} |->
                                             IF x = s THEN servers[s].environment
                                             ELSE lookups[l].snapshot[x]]]]
        BY <1>7 DEF SnapshotTarget, Advance
    <2>2. lookups[l].at = "snapshot" /\ UNCHANGED <<servers, half, queued, been>>
        BY <1>7 DEF SnapshotTarget
    <2>3. /\ s \in Servers /\ servers[s].environment \in Stages
          /\ servers[s].environment \in been[l][s]
          /\ s \in lookups[l].targets
        BY <1>4, <2>2
    <2> DEFINE taken == [x \in DOMAIN lookups[l].snapshot \cup {s} |->
                           IF x = s THEN servers[s].environment ELSE lookups[l].snapshot[x]]
               k == [lookups[l] EXCEPT !.todo = lookups[l].todo \ {s}, !.snapshot = taken]
    <2>5. lookups' = [lookups EXCEPT ![l] = k]
        BY <2>1
    <2>6. lookups[l].snapshot \in Snapshot
        BY <1>4, <2>2
    <2>7. taken \in [DOMAIN lookups[l].snapshot \cup {s} -> Stages]
        BY <2>3, <2>6, LookupShapes
    <2>8. taken \in Snapshot
        <3>1. DOMAIN lookups[l].snapshot \cup {s} \in SUBSET Servers
            BY <2>3, <2>6, LookupShapes
        <3> HIDE DEF taken
        <3> QED
            BY <2>7, <3>1 DEF Snapshot
    <2> HIDE DEF taken
    <2>9. /\ k \in Lookup /\ k.at = "snapshot" /\ k.targets = lookups[l].targets
          /\ k.todo = lookups[l].todo \ {s} /\ k.snapshot = taken
          /\ k.environment = lookups[l].environment
        BY <1>4, <2>2, <2>8 DEF Lookup
    <2> HIDE DEF k
    <2>10. /\ DOMAIN lookups[l].snapshot = lookups[l].targets \ lookups[l].todo
           /\ \A x \in lookups[l].targets : lookups[l].environment \in been[l][x]
           /\ \A x \in DOMAIN lookups[l].snapshot : lookups[l].snapshot[x] \in been[l][x]
        BY <1>1, <1>4, <2>2 DEF ReadsWhatWas
    <2>11. DOMAIN taken = k.targets \ k.todo /\ \A x \in DOMAIN taken : taken[x] \in been[l][x]
        BY <2>3, <2>9, <2>10 DEF taken
    <2>12. lookups'[l] = k
        BY <1>1, <2>5
    <2>13. ReadsWhatWas(l)'
        BY <1>1, <1>4, <2>2, <2>9, <2>10, <2>11, <2>12 DEF ReadsWhatWas, There
    <2> QED
        BY <1>4, <1>5, <2>2, <2>5, <2>9, <2>13
<1>8. CASE QueueTargets(l)
    <2> DEFINE q == [environment |-> lookups[l].environment, snapshot |-> lookups[l].snapshot]
    <2>1. /\ lookups[l].at = "snapshot" /\ lookups[l].todo = {}
          /\ queued' = [queued EXCEPT ![l] = q]
          /\ lookups' = [lookups EXCEPT ![l] = Idle]
          /\ UNCHANGED <<servers, half, been>>
        BY <1>8 DEF QueueTargets, Advance
    <2>2. q \in Queued /\ Idle \in Lookup
        BY <1>4, <2>1 DEF Queued, Lookup
    <2>3. /\ queued'[l] = q /\ queued' \in [Lookups -> Queued]
          /\ \A m \in Lookups \ {l} : queued'[m] = queued[m]
        BY <1>1, <2>1, <2>2
    <2>4. \A s \in DOMAIN q.snapshot :
              There(s) /\ {q.environment, q.snapshot[s]} \subseteq been[l][s]
        BY <1>1, <1>4, <2>1 DEF ReadsWhatWas
    <2>5. ReadsWhatWas(l)'
        BY <1>1, <2>1 DEF ReadsWhatWas
    <2> HIDE DEF q
    <2> QED
        BY <1>1, <2>1, <2>2, <2>3, <2>4, <2>5, StepKeepsReads
<1> QED
    BY <1>0, <1>2, <1>3, <1>6, <1>7, <1>8

\* What lookups have read was so, in every reachable state.
LEMMA InventoryInvariantHolds == InventorySpec => []InventoryInvariant
<1>1. InventoryInit => InventoryInvariant
    <2> SUFFICES ASSUME InventoryInit PROVE InventoryInvariant
        OBVIOUS
    <2>1. InventoryIsTyped
        BY LookupShapes DEF InventoryInit, InventoryIsTyped, ServerRow, Lookup
    <2> QED
        BY <2>1, LookupShapes DEF InventoryInit, InventoryInvariant, ReadsWhatWas, DecidedOnWhatWas
<1>2. ASSUME InventoryInvariant, UNCHANGED inventoryVars PROVE InventoryInvariant'
    BY <1>2 DEF inventoryVars, InventoryInvariant, InventoryIsTyped, ReadsWhatWas, There, DecidedOnWhatWas
<1>3. InventoryInvariant /\ [InventoryNext]_inventoryVars => InventoryInvariant'
    BY <1>2, EditsKeepReads, LookupsKeepReads DEF InventoryNext
<1> QED
    BY <1>1, <1>3, PTL DEF InventorySpec

(***************************************************************************)
(* The rows of servers and of queued executions are well formed.           *)
(***************************************************************************)
THEOREM InventoryTypes == InventorySpec => []InventoryTypeOK
<1>1. InventoryInvariant => InventoryTypeOK
    <2> SUFFICES ASSUME InventoryInvariant PROVE InventoryTypeOK
        OBVIOUS
    <2>1. \A s \in Servers : There(s) => servers[s].status \in {"active", "archived"}
                                         /\ servers[s].environment \in Stages
        BY DEF InventoryInvariant, InventoryIsTyped, ServerRow, There
    <2>2. \A l \in Lookups : DOMAIN queued[l].snapshot \subseteq {s \in Servers : There(s)}
        BY LookupShapes DEF InventoryInvariant, InventoryIsTyped, Queued
    <2> QED
        BY <2>1, <2>2 DEF InventoryTypeOK
<1> QED
    BY <1>1, InventoryInvariantHolds, PTL

(***************************************************************************)
(* The environment a request was decided on, and the one each target is    *)
(* recorded with, are ones the target had during that request, for any     *)
(* number of servers, requests and edits.                                  *)
(***************************************************************************)
THEOREM RequestsReadWhatWas == InventorySpec => []DecidedOnWhatWas
<1>1. InventoryInvariant => DecidedOnWhatWas
    BY DEF InventoryInvariant
<1> QED
    BY <1>1, InventoryInvariantHolds, PTL

-----------------------------------------------------------------------------
(* The terminal. *)

(***************************************************************************)
(* Outside the form for a denial, what waits for a second press is what    *)
(* the last prompt named; on the form nothing waits, and the form is for   *)
(* the approval that was named.                                            *)
(***************************************************************************)
PromptInvariant ==
    /\ TerminalTypeOK
    /\ screen # "approvalDeny" => confirm = prompt
    /\ screen = "approvalDeny" =>
          /\ confirm = Unconfirmed
          /\ pendingApprovalID \in ApprovalRows
          /\ prompt = Keypress("deny", pendingApprovalID)

(***************************************************************************)
(* A press that waits, or decides, is one the terminal can hold, and is    *)
(* not the absence of one.                                                 *)
(***************************************************************************)
LEMMA PressesAreTyped ==
    /\ Unconfirmed \in Presses
    /\ \A id \in ApprovalRows : /\ Keypress("approve", id) \in Presses
                                /\ Keypress("deny", id) \in Presses
    /\ \A id \in ScheduleRows : Keypress("disable", id) \in Presses
    /\ \A key \in {"approve", "deny", "disable"} : \A id : Keypress(key, id) # Unconfirmed
BY DEF Unconfirmed, Keypress, Presses

(***************************************************************************)
(* Every key keeps the invariant, and what it sends was named.             *)
(***************************************************************************)
NamedFirst ==
    sent' # Unconfirmed =>
        /\ sent' = prompt
        /\ (prompt' # Unconfirmed) => (screen' = "approvalDeny")

\* A key of a list asks first, and acts when the last prompt asked for the same key of
\* the same row.
LEMMA AsksAndActs ==
    ASSUME PromptInvariant, NEW key \in {"approve", "deny", "disable"}, NEW id,
           Keypress(key, id) \in Presses, screen \in {"approvals", "schedules"},
           shown' \subseteq ApprovalRows,
           listed' \in [ScheduleRows -> {"enabled", "disabled", "gone"}],
           NEW Load, Ask(key, id) \/ Act(key, id, Load)
    PROVE  PromptInvariant' /\ NamedFirst
<1> USE PressesAreTyped DEF PromptInvariant, TerminalTypeOK, NamedFirst, Confirmed, NothingSent
<1>1. CASE Ask(key, id)
    BY <1>1 DEF Ask
<1>2. CASE Act(key, id, Load)
    BY <1>2 DEF Act
<1> QED
    BY <1>1, <1>2

\* No key leaves a confirmation that its last prompt did not ask for, and none sends a
\* decision but the prompted one.
LEMMA KeysKeepThePrompt ==
    ASSUME PromptInvariant, [TerminalNext]_terminalVars
    PROVE  PromptInvariant' /\ (TerminalNext => NamedFirst)
<1> USE PressesAreTyped DEF PromptInvariant, TerminalTypeOK
<1>1. CASE SwitchScreen
    BY <1>1 DEF SwitchScreen, LoadFor, LoadApprovals, LoadSchedules, Undecided, NothingSent, NamedFirst,
                Forms, Lists, Screens
<1>2. CASE Refresh
    BY <1>2 DEF Refresh, LoadFor, LoadApprovals, LoadSchedules, Undecided, NothingSent, NamedFirst,
                Lists, Screens
<1>3. CASE Leave
    BY <1>3 DEF Leave, NothingSent, NamedFirst, Lists, Screens
<1>4. CASE HelpFromAudit
    BY <1>4 DEF HelpFromAudit, Undecided, NothingSent, NamedFirst, Screens
<1>5. CASE Open
    BY <1>5 DEF Open, Undecided, NothingSent, NamedFirst, Forms, Lists, Screens
<1>6. CASE SubmitForm
    BY <1>6 DEF SubmitForm, LoadSchedules, Undecided, NothingSent, NamedFirst, Lists, Screens
<1>7. ASSUME NEW id \in ApprovalRows, PressApprove(id) PROVE PromptInvariant' /\ NamedFirst
    <2>1. /\ Ask("approve", id) \/ Act("approve", id, LoadApprovals /\ UNCHANGED listed)
          /\ screen \in {"approvals", "schedules"}
          /\ shown' \subseteq ApprovalRows
          /\ listed' \in [ScheduleRows -> {"enabled", "disabled", "gone"}]
        BY <1>7 DEF PressApprove, Approvable, LoadApprovals, Ask, Act
    <2> QED
        BY <2>1, AsksAndActs
<1>8. ASSUME NEW id \in ApprovalRows, PressDeny(id) PROVE PromptInvariant' /\ NamedFirst
    <2>1. CASE OpenDenial(id)
        BY <1>8, <2>1 DEF PressDeny, Approvable, OpenDenial, Confirmed, NothingSent, NamedFirst, Forms, Screens
    <2>2. CASE Ask("deny", id)
        <3>1. /\ screen \in {"approvals", "schedules"}
              /\ shown' \subseteq ApprovalRows
              /\ listed' \in [ScheduleRows -> {"enabled", "disabled", "gone"}]
            BY <1>8, <2>2 DEF PressDeny, Approvable, Ask
        <3> QED
            BY <2>2, <3>1, AsksAndActs
    <2> QED
        BY <1>8, <2>1, <2>2 DEF PressDeny
<1>9. ASSUME NEW id \in ScheduleRows, PressDisable(id) PROVE PromptInvariant' /\ NamedFirst
    <2>1. /\ Ask("disable", id) \/ Act("disable", id, LoadSchedules /\ UNCHANGED shown)
          /\ screen \in {"approvals", "schedules"}
          /\ shown' \subseteq ApprovalRows
          /\ listed' \in [ScheduleRows -> {"enabled", "disabled", "gone"}]
        BY <1>9 DEF PressDisable, Disablable, LoadSchedules, Ask, Act
    <2> QED
        BY <2>1, AsksAndActs
<1>10. CASE SendDenial
    BY <1>10 DEF SendDenial, LoadApprovals, NamedFirst, Lists, Screens
<1>11. ASSUME UNCHANGED terminalVars PROVE PromptInvariant'
    BY <1>11 DEF terminalVars
<1>12. ASSUME TerminalNext PROVE PromptInvariant' /\ NamedFirst
    BY <1>1, <1>2, <1>3, <1>4, <1>5, <1>6, <1>7, <1>8, <1>9, <1>10, <1>12 DEF TerminalNext
<1> QED
    BY <1>11, <1>12

\* The confirmation in hand is the prompt on the screen, in every reachable state.
LEMMA PromptInvariantHolds == TerminalSpec => []PromptInvariant
<1>1. TerminalInit => PromptInvariant
    BY PressesAreTyped DEF TerminalInit, PromptInvariant, TerminalTypeOK, Screens
<1>2. PromptInvariant /\ [TerminalNext]_terminalVars => PromptInvariant'
    BY KeysKeepThePrompt
<1> QED
    BY <1>1, <1>2, PTL DEF TerminalSpec

(***************************************************************************)
(* A decision the terminal sends is the one its last prompt named, row and *)
(* key, and one prompt is used once, for lists of any length.              *)
(***************************************************************************)
THEOREM PromptsNameDecisions == TerminalSpec => PromptNamesDecision
<1>1. PromptInvariant /\ [TerminalNext]_terminalVars =>
          [sent' # Unconfirmed =>
              /\ sent' = prompt
              /\ (prompt' # Unconfirmed) => (screen' = "approvalDeny")]_terminalVars
    BY KeysKeepThePrompt DEF NamedFirst
<1> QED
    BY <1>1, PromptInvariantHolds, PTL DEF TerminalSpec, PromptNamesDecision
=============================================================================
