---------------------------- MODULE MCOperations ----------------------------
(***************************************************************************)
(* The parts around the queue that share no state with each other in these *)
(* models, checked in one run: part says which of them a behaviour is      *)
(* about, and the others stay where they start.                            *)
(***************************************************************************)
EXTENDS MCGovernance, FleetProperties, WorkerProperties, MCScheduler,
        AuditChain, Artifacts, Backup, Inventory, Terminal

VARIABLE part

allVars == <<governanceVars, fleetVars, workerVars, schedulerVars, auditVars,
             artifactVars, backupVars, inventoryVars, terminalVars, part>>

Parts == {"governance", "fleet", "worker", "scheduler", "audit", "artifacts",
          "backup", "inventory", "terminal"}

OperationsInit ==
    /\ part \in Parts
    /\ GovernanceInit /\ FleetInit /\ WorkerInit /\ SchedulerInit /\ AuditInit
    /\ ArtifactsInit /\ BackupInit /\ InventoryInit /\ TerminalInit

Only(p) ==
    /\ part = p /\ part' = part
    /\ p # "governance" => UNCHANGED governanceVars
    /\ p # "fleet" => UNCHANGED fleetVars
    /\ p # "worker" => UNCHANGED workerVars
    /\ p # "scheduler" => UNCHANGED schedulerVars
    /\ p # "audit" => UNCHANGED auditVars
    /\ p # "artifacts" => UNCHANGED artifactVars
    /\ p # "backup" => UNCHANGED backupVars
    /\ p # "inventory" => UNCHANGED inventoryVars
    /\ p # "terminal" => UNCHANGED terminalVars

OperationsNext ==
    \/ Only("governance") /\ GovernanceNext
    \/ Only("fleet") /\ FleetNext
    \/ Only("worker") /\ WorkerNext
    \/ Only("scheduler") /\ SchedulerNext
    \/ Only("audit") /\ AuditNext
    \/ Only("artifacts") /\ ArtifactsNext
    \/ Only("backup") /\ BackupNext
    \/ Only("inventory") /\ InventoryNext
    \/ Only("terminal") /\ TerminalNext

(* The fairness of GovernanceFairness, WorkerFairness and SchedulerFairness,  *)
(* of the part that moves.                                                    *)
OperationsFairness ==
    /\ \A c \in Clients : SF_governanceVars(part = "governance"
            /\ (CommitExecution(c) \/ CommitApproval(c) \/ FindKeyTaken(c)))
    /\ WF_governanceVars(part = "governance" /\ CallerGivesUp)
    /\ \A w \in Workers : WF_workerVars(part = "worker" /\ Loop(w))
    /\ \A t \in JobTargets : /\ WF_workerVars(part = "worker" /\ LeaseLapses(t))
                            /\ WF_workerVars(part = "worker" /\ Reclaim(t))
    /\ \A p \in Schedulers : WF_schedulerVars(part = "scheduler" /\ Cycle(p))

OperationsSpec == OperationsInit /\ [][OperationsNext]_allVars /\ OperationsFairness

(***************************************************************************)
(* Every part's state is well formed.                                      *)
(***************************************************************************)
OperationsTypeOK ==
    /\ GovernanceTypeOK /\ FleetTypeOK /\ WorkerTypeOK /\ SchedulerTypeOK /\ AuditTypeOK
    /\ ArtifactsTypeOK /\ BackupTypeOK /\ InventoryTypeOK /\ TerminalTypeOK

(***************************************************************************)
(* The parts' liveness, of the behaviours in which they move.              *)
(***************************************************************************)
TargetsAreDecided == part = "worker" => EveryTargetIsDecided
DueSchedulesAreClaimed == part = "scheduler" => DueIsClaimed
=============================================================================
