--------------------------- MODULE OperationsProofs --------------------------
(***************************************************************************)
(* A behaviour of all the parts is one of each: what is proved of a part   *)
(* by itself holds of the parts together.                                  *)
(***************************************************************************)
EXTENDS MCOperations, GovernanceProofs, WorkerProofs, StoreProofs, ControlPlaneProofs

\* Every part by itself.
EveryPart ==
    /\ GovernanceSpec /\ FleetSpec /\ WorkerSpec /\ SchedulerSpec /\ AuditSpec
    /\ ArtifactsSpec /\ BackupSpec /\ InventorySpec /\ TerminalSpec

(***************************************************************************)
(* A step of one part leaves the others where they are.                    *)
(***************************************************************************)
LEMMA PartsTakeTurns ==
    ASSUME [OperationsNext]_allVars
    PROVE  /\ [GovernanceNext]_governanceVars /\ [FleetNext]_fleetVars /\ [WorkerNext]_workerVars
           /\ [SchedulerNext]_schedulerVars /\ [AuditNext]_auditVars
           /\ [ArtifactsNext]_artifactVars /\ [BackupNext]_backupVars
           /\ [InventoryNext]_inventoryVars /\ [TerminalNext]_terminalVars
<1>1. CASE UNCHANGED allVars
    BY <1>1 DEF allVars
<1>2. CASE OperationsNext
    BY <1>2 DEF OperationsNext, Only
<1> QED
    BY <1>1, <1>2

(***************************************************************************)
(* The run of all the parts is a run of each (its fairness aside, which no *)
(* safety property needs).                                                 *)
(***************************************************************************)
THEOREM PartsAreIndependent == OperationsSpec => EveryPart
<1>1. OperationsInit => /\ GovernanceInit /\ FleetInit /\ WorkerInit /\ SchedulerInit /\ AuditInit
                        /\ ArtifactsInit /\ BackupInit /\ InventoryInit /\ TerminalInit
    BY DEF OperationsInit
<1>2. [OperationsNext]_allVars =>
          /\ [GovernanceNext]_governanceVars /\ [FleetNext]_fleetVars /\ [WorkerNext]_workerVars
          /\ [SchedulerNext]_schedulerVars /\ [AuditNext]_auditVars
          /\ [ArtifactsNext]_artifactVars /\ [BackupNext]_backupVars
          /\ [InventoryNext]_inventoryVars /\ [TerminalNext]_terminalVars
    BY PartsTakeTurns
<1> QED
    BY <1>1, <1>2, PTL
    DEF OperationsSpec, EveryPart, GovernanceSpec, FleetSpec, WorkerSpec, SchedulerSpec, AuditSpec,
        ArtifactsSpec, BackupSpec, InventorySpec, TerminalSpec

(***************************************************************************)
(* Every part's state is well formed, in a run of all of them.             *)
(***************************************************************************)
THEOREM OperationsTypes == OperationsSpec => []OperationsTypeOK
<1>1. FleetInvariant => FleetTypeOK
    BY DEF FleetInvariant
<1>2. SchedulerInvariant => SchedulerTypeOK
    BY DEF SchedulerInvariant, RowsAreTyped, CycleState, SchedulerTypeOK, Idle
<1>3. PromptInvariant => TerminalTypeOK
    BY DEF PromptInvariant
<1>4. /\ FleetInvariant /\ SchedulerInvariant /\ PromptInvariant
      /\ GovernanceTypeOK /\ WorkerTypeOK /\ AuditTypeOK /\ ArtifactsTypeOK /\ BackupTypeOK
      /\ InventoryTypeOK
      => OperationsTypeOK
    BY <1>1, <1>2, <1>3 DEF OperationsTypeOK
<1> QED
    BY <1>4, PartsAreIndependent, GovernanceTypes, FleetIsWellFormed, WorkerTypes, SchedulerIsSafe,
       AuditTypes, ArtifactsTypes, BackupTypes, InventoryTypes, PromptInvariantHolds, PTL
    DEF EveryPart

(***************************************************************************)
(* What a run of all the parts keeps: the safety properties of each, those *)
(* of the reviews included, which have a run of their own.                 *)
(***************************************************************************)
THEOREM OperationsAreSafe ==
    OperationsSpec =>
       /\ [](CurrentIsNewest /\ OneResourcePerKey /\ ReviewsFollowTheRules /\ ApprovalsAreHonest)
       /\ [](DuplicatesRunNothing /\ SlotsMoveOn /\ PauseHolds /\ DecidedOnWhatWas)
       /\ [](VerdictHasCause /\ RecordsAreReadable /\ BackupIsWhole /\ RestoreIsAllOrNothing)
       /\ RevocationHolds /\ PromptNamesDecision
BY PartsAreIndependent, NewestIsCurrent, KeysNameOneResource, ReviewsFollow, DecisionsAreHonest,
   DuplicatesAreHarmless, SlotsAreClaimedOnce, PausesHold, RequestsReadWhatWas, VerdictsHaveACause,
   RecordsStayReadable, BackupsAreWhole, RestoresAreAllOrNothing, RevocationIsFinal,
   PromptsNameDecisions, PTL
DEF EveryPart
=============================================================================
