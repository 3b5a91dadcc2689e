--------------------- MODULE MigrationControllerProofs ---------------------
(***************************************************************************)
(* Proofs about the Migration reconciler model, for every choice of the    *)
(* volumes, collected objects, flag combinations and StartMigration bound  *)
(* allowed by ConstAssumption.                                             *)
(***************************************************************************)
EXTENDS MigrationController, TLAPS

(* A Status.Stage / Status.Status assignment keeps the object well formed. *)
LEMMA SetStageType ==
    ASSUME NEW rec \in MigrationRec, NEW stg \in Stages, NEW sts \in Statuses
    PROVE  SetStage(rec, stg, sts) \in MigrationRec
BY DEF SetStage, MigrationRec

(* Failing a migration (Final/Failed) keeps the object well formed.        *)
LEMMA FailFinalType ==
    ASSUME NEW rec \in MigrationRec
    PROVE  FailFinal(rec) \in MigrationRec
BY SetStageType DEF FailFinal, Stages, Statuses

(* A new Migration object is well formed.                                  *)
LEMMA NewMigrationType == NewMigration \in MigrationRec
BY DEF NewMigration, MigrationRec, Stages, Statuses, VolStatus, ResStatus

(* CancelMigration leaves every volume with a driver status.               *)
LEMMA CancelledType ==
    ASSUME dvol \in [Vols -> VolStatus]
    PROVE  Cancelled \in [Vols -> VolStatus]
BY DEF Cancelled, VolStatus

(* Returning from a reconcile drops the copy and resets the step.          *)
LEMMA ReturnType ==
    ASSUME Return
    PROVE  local' \in MigrationRec /\ pc' \in PCs /\ caller' \in Callers
BY NewMigrationType DEF Return, PCs, Callers

-----------------------------------------------------------------------------
(* The initial state is well typed.                                        *)
LEMMA TypeOKInit == Init => TypeOK
<1> SUFFICES ASSUME Init PROVE TypeOK
  OBVIOUS
<1>1. mspec \in [Flags -> BOOLEAN]
  BY ConstAssumption, Zenon DEF Init
<1>2. started \in 0..MaxStarts
  BY ConstAssumption DEF Init
<1>3. stored \in MigrationRec /\ local \in MigrationRec
  BY NewMigrationType DEF Init
<1>4. QED
  BY <1>1, <1>2, <1>3 DEF Init, TypeOK, PCs, Callers, VolStatus

(* One step of the reconciler, the driver or the user preserves the types. *)
LEMMA TypeOKStep == TypeOK /\ [Next]_vars => TypeOK'
<1> SUFFICES ASSUME TypeOK, [Next]_vars PROVE TypeOK'
  OBVIOUS
<1> USE ConstAssumption DEF TypeOK
<1>1. CASE AddFinalizer
  BY <1>1 DEF AddFinalizer, Persist, MigrationRec
<1>2. CASE HandleDeletion
  BY <1>2, CancelledType DEF HandleDeletion, MigrationRec
<1>3. CASE HandleAutoSuspend
  BY <1>3, FailFinalType DEF HandleAutoSuspend, Persist
<1>4. CASE HandleDomainInactive
  BY <1>4, FailFinalType DEF HandleDomainInactive, Persist
<1>5. CASE HandleBegin
  <2>1. stored.stage \in {"Initial", "PreExecRule", "Volumes", "Applications"}
    BY <1>5 DEF HandleBegin, MigrationRec, Stages
  <2>2. pc' \in PCs
    BY <1>5, <2>1 DEF HandleBegin, PCs
  <2>3. QED
    BY <1>5, <2>2 DEF HandleBegin, Callers
<1>6. CASE CheckInitialStage
  BY <1>6, FailFinalType, ReturnType DEF CheckInitialStage, Persist, PCs
<1>7. CASE RunPreExecRule
  <2> DEFINE l1 == IF local.stage = "Initial"
                   THEN SetStage(local, "PreExecRule", "Pending") ELSE local
             l2 == [l1 EXCEPT !.status = "InProgress"]
  <2>1. l1 \in MigrationRec /\ l2 \in MigrationRec
    BY SetStageType DEF Stages, Statuses, MigrationRec
  <2>2. SetStage(local, "Volumes", "Pending") \in MigrationRec
        /\ SetStage(l2, "Initial", "Initial") \in MigrationRec
        /\ SetStage(SetStage(local, "Volumes", "Pending"), "Initial", "Initial")
             \in MigrationRec
    BY <2>1, SetStageType DEF Stages, Statuses
  <2>3. QED
    BY <1>7, <2>1, <2>2, ReturnType
       DEF RunPreExecRule, PreExecErrorPath, Persist, PCs
<1>8. CASE SkipVolumes
  BY <1>8, SetStageType, ReturnType
     DEF SkipVolumes, Persist, Stages, Statuses
<1>9. CASE MigrateVolumesStart
  <2> DEFINE l0 == [local EXCEPT !.stage = "Volumes"]
             l1 == [l0 EXCEPT !.volsRec = TRUE, !.status = "InProgress",
                              !.vols = [v \in Vols |-> "InProgress"]]
  <2>1. l0 \in MigrationRec /\ l1 \in MigrationRec
        /\ [l0 EXCEPT !.stage = "Initial"] \in MigrationRec
    BY DEF MigrationRec, Stages, Statuses, VolStatus
  <2>2. started' \in 0..MaxStarts
    BY <1>9 DEF MigrateVolumesStart
  <2>3. dvol' \in [Vols -> VolStatus]
    BY <1>9 DEF MigrateVolumesStart, VolStatus
  <2>4. QED
    BY <1>9, <2>1, <2>2, <2>3, ReturnType
       DEF MigrateVolumesStart, Persist, StorageNotReadyResets, PCs
<1>10. CASE RunPostExecRule
  BY <1>10, CancelledType, FailFinalType, ReturnType
     DEF RunPostExecRule, Persist, PCs
<1>11. CASE MigrateVolumesPoll
  <2> DEFINE l1 == IF Vols = {} THEN [local EXCEPT !.stage = "Volumes"]
                   ELSE [local EXCEPT !.stage = "Volumes", !.vols = dvol]
  <2>1. l1 \in MigrationRec
    BY DEF MigrationRec, Stages
  <2>2. FailFinal(l1) \in MigrationRec
        /\ SetStage(l1, "Applications", "InProgress") \in MigrationRec
    BY <2>1, FailFinalType, SetStageType DEF Stages, Statuses
  <2>3. QED
    BY <1>11, <2>1, <2>2, ReturnType
       DEF MigrateVolumesPoll, PCs, Callers
<1>12. CASE MigrateResourcesCollect
  BY <1>12, ReturnType
     DEF MigrateResourcesCollect, MigrationRec, ResStatus, PCs
<1>13. CASE ApplyResources
  <2>1. ASSUME NEW bad \in PVs \cap Collected,
               NEW good \in SUBSET (PVs \cap Collected),
               PVApplyFailed(bad, good)
        PROVE  stored' \in MigrationRec /\ local' \in MigrationRec /\ pc' \in PCs
    <3> DEFINE l == FailFinal([local EXCEPT !.res = [r \in Res |->
                      IF r = bad THEN "Failed"
                      ELSE IF r \in good THEN "Successful" ELSE local.res[r]]])
    <3>1. l \in MigrationRec
      <4>1. [local EXCEPT !.res = [r \in Res |->
               IF r = bad THEN "Failed"
               ELSE IF r \in good THEN "Successful" ELSE local.res[r]]]
              \in MigrationRec
        BY DEF MigrationRec, ResStatus, Res
      <4>2. QED
        BY <4>1, FailFinalType
    <3>2. QED
      BY <2>1, <3>1, ReturnType DEF PVApplyFailed, PCs
  <2>2. ASSUME NEW out \in [Collected -> {"Successful", "Failed"}],
               ResourcesApplied(out)
        PROVE  stored' \in MigrationRec /\ local' \in MigrationRec /\ pc' \in PCs
    BY <2>2 DEF ResourcesApplied, MigrationRec, ResStatus, PCs
  <2>3. QED
    BY <1>13, <2>1, <2>2, ReturnType DEF ApplyResources
<1>14. CASE MigrateResourcesFinish
  <2> DEFINE allOK == \A r \in Res : local.res[r] \in {"Absent", "Successful"}
             l == SetStage(local, "Final",
                           IF allOK THEN "Successful" ELSE "PartialSuccess")
  <2>1. l \in MigrationRec
    BY SetStageType DEF Stages, Statuses
  <2>2. QED
    BY <1>14, <2>1, NewMigrationType, ReturnType
       DEF MigrateResourcesFinish, PCs
<1>15. CASE ReturnToMigrateVolumes
  <2>1. SetStage(local, "Final", "Successful") \in MigrationRec
    BY SetStageType DEF Stages, Statuses
  <2>2. QED
    BY <1>15, <2>1, ReturnType DEF ReturnToMigrateVolumes, Persist
<1>16. CASE DriverProgress
  BY <1>16 DEF DriverProgress, VolStatus
<1>17. CASE UserDelete
  BY <1>17 DEF UserDelete, MigrationRec
<1>18. CASE ObjectGone
  BY <1>18 DEF ObjectGone, vars
<1>19. CASE UNCHANGED vars
  BY <1>19 DEF vars
<1>20. QED
  BY <1>1, <1>2, <1>3, <1>4, <1>5, <1>6, <1>7, <1>8, <1>9, <1>10,
     <1>11, <1>12, <1>13, <1>14, <1>15, <1>16, <1>17, <1>18, <1>19
     DEF Next

(* Type correctness: every state the reconciler, the volume driver and the *)
(* user can reach keeps the Migration object, the reconcile's copy, its    *)
(* step and the StartMigration count within their types.                   *)
THEOREM TypeCorrect == Spec => []TypeOK
<1>1. Init => TypeOK
  BY TypeOKInit
<1>2. TypeOK /\ [Next]_vars => TypeOK'
  BY TypeOKStep
<1>3. QED
  BY <1>1, <1>2, PTL DEF Spec
-----------------------------------------------------------------------------
(* Writing Status.Stage and Status.Status leaves the volume list alone.     *)
LEMMA SetStageFields ==
    ASSUME NEW rec \in MigrationRec, NEW stg, NEW sts
    PROVE  /\ SetStage(rec, stg, sts).vols = rec.vols
           /\ SetStage(rec, stg, sts).volsRec = rec.volsRec
           /\ SetStage(rec, stg, sts).stage = stg
           /\ SetStage(rec, stg, sts).status = sts
BY DEF SetStage, MigrationRec

(* A failed migration is neither in an early stage nor advanced.            *)
LEMMA FailFinalFields ==
    ASSUME NEW rec \in MigrationRec
    PROVE  /\ FailFinal(rec).vols = rec.vols
           /\ FailFinal(rec).volsRec = rec.volsRec
           /\ ~EarlyStage(FailFinal(rec))
           /\ ~Advanced(FailFinal(rec))
BY SetStageFields DEF FailFinal, EarlyStage, Advanced

(* A dropped copy is consistent with any driver state.                      *)
LEMMA NewMigrationConsistent == VolsConsistent(NewMigration)
BY DEF VolsConsistent, NewMigration

(* The driver only moves a volume from InProgress to Successful or Failed: *)
(* it never forgets a success and never returns a volume to Idle.           *)
DriverMonotone ==
    /\ \A v \in Vols : dvol[v] = "Successful" => dvol'[v] = "Successful"
    /\ \A v \in Vols : dvol[v] # "Idle" => dvol'[v] # "Idle"

(* A step that keeps the persisted volume list and never makes the object  *)
(* advanced, nor advanced in an early stage, that keeps the copy and the    *)
(* step, moves the driver monotonically and does not bring the object       *)
(* back, keeps IInv.                                                        *)
LEMMA StoredStep ==
    ASSUME IInv, TypeOK', DriverMonotone,
           stored'.vols = stored.vols, stored'.volsRec = stored.volsRec,
           EarlyStage(stored') => ~Advanced(stored'),
           Advanced(stored') => Advanced(stored),
           UNCHANGED <<mspec, local, pc>>, exists' => exists
    PROVE  IInv'
BY DEF IInv, StoredInv, CopyInv, VolsConsistent, VolsDone, DriverMonotone

(* A step that keeps the persisted volume list, stage and status, the copy, *)
(* the step and the driver, and does not bring the object back, keeps IInv. *)
LEMMA QuietStep ==
    ASSUME IInv, TypeOK',
           stored'.vols = stored.vols, stored'.volsRec = stored.volsRec,
           stored'.stage = stored.stage, stored'.status = stored.status,
           UNCHANGED <<mspec, local, pc, dvol>>, exists' => exists
    PROVE  IInv'
<1>1. EarlyStage(stored') => ~Advanced(stored')
  BY DEF IInv, StoredInv, EarlyStage, Advanced
<1>2. Advanced(stored') => Advanced(stored)
  BY DEF Advanced
<1>3. DriverMonotone
  BY DEF DriverMonotone
<1>4. QED
  BY <1>1, <1>2, <1>3, StoredStep

(* A reconcile that returns keeps IInv when the driver moved monotonically *)
(* and it persisted either nothing or a copy with its volume list that is   *)
(* not advanced in an early stage and whose volumes are done if advanced.   *)
LEMMA PersistStep ==
    ASSUME IInv, TypeOK', Return, UNCHANGED <<mspec, exists>>, pc # "idle",
           DriverMonotone,
           \/ stored' = stored
           \/ /\ stored'.vols = local.vols /\ stored'.volsRec = local.volsRec
              /\ EarlyStage(stored') => ~Advanced(stored')
              /\ (exists /\ mspec.incVols /\ Advanced(stored')) => VolsDone(stored')
    PROVE  IInv'
<1>1. StoredInv(stored)'
  BY DEF IInv, StoredInv, CopyInv, VolsConsistent, DriverMonotone
<1>2. pc' = "idle" /\ local' = NewMigration
  BY DEF Return
<1>3. VolsConsistent(local)'
  BY <1>2 DEF VolsConsistent, NewMigration
<1>4. ~EarlyStage(local') \/ ~Advanced(local')
  BY <1>2 DEF NewMigration, Advanced
<1>5. CopyInv'
  BY <1>2, <1>3, <1>4 DEF CopyInv, EarlyPCs, LatePCs
<1>6. QED
  BY <1>1, <1>5 DEF IInv

(* A reconcile that returns without touching the driver keeps IInv when   *)
(* what it persisted is consistent with the driver, not advanced in an     *)
(* early stage, and has its volumes done if advanced.                      *)
LEMMA PersistStepVC ==
    ASSUME IInv, TypeOK', Return, UNCHANGED <<mspec, exists, dvol>>,
           VolsConsistent(stored'),
           EarlyStage(stored') => ~Advanced(stored'),
           (exists /\ mspec.incVols /\ Advanced(stored')) => VolsDone(stored')
    PROVE  IInv'
<1>1. StoredInv(stored)'
  BY DEF StoredInv, VolsConsistent
<1>2. pc' = "idle" /\ local' = NewMigration
  BY DEF Return
<1>3. VolsConsistent(local)'
  BY <1>2 DEF VolsConsistent, NewMigration
<1>4. ~EarlyStage(local') \/ ~Advanced(local')
  BY <1>2 DEF NewMigration, Advanced
<1>5. CopyInv'
  BY <1>2, <1>3, <1>4 DEF CopyInv, EarlyPCs, LatePCs
<1>6. QED
  BY <1>1, <1>5 DEF IInv

(* A reconcile that only moves to a later step of the same phase keeps IInv. *)
LEMMA PCStep ==
    ASSUME IInv, TypeOK', UNCHANGED <<mspec, exists, stored, local, dvol>>,
           pc # "idle", pc' # "idle",
           pc' \in EarlyPCs => pc \in EarlyPCs,
           pc' \in LatePCs => pc \in LatePCs
    PROVE  IInv'
BY DEF IInv, StoredInv, CopyInv, VolsConsistent, EarlyStage, Advanced, VolsDone

(* A reconcile that persists its copy and goes on keeps IInv when the copy  *)
(* fits the step it goes on to.                                             *)
LEMMA SyncStep ==
    ASSUME IInv, TypeOK', UNCHANGED <<mspec, exists>>,
           stored' = local', VolsConsistent(local)', pc' # "idle",
           pc' \in EarlyPCs => EarlyStage(local'),
           EarlyStage(local') => ~Advanced(local'),
           (pc' \in LatePCs /\ mspec.incVols) => VolsDone(local'),
           (exists /\ mspec.incVols /\ Advanced(local')) => VolsDone(local')
    PROVE  IInv'
BY DEF IInv, StoredInv, CopyInv

-----------------------------------------------------------------------------
(* One step preserves the strengthened invariant IInv.                     *)
LEMMA IInvStep == IInv /\ [Next]_vars => IInv'
<1> SUFFICES ASSUME IInv, [Next]_vars PROVE IInv'
  OBVIOUS
<1>0. TypeOK'
  BY TypeOKStep DEF IInv
<1> USE ConstAssumption, <1>0 DEF IInv, TypeOK
<1>1. CASE AddFinalizer
  <2>1. stored' = stored \/ stored' = [stored EXCEPT !.fin = TRUE]
    BY <1>1 DEF AddFinalizer, Persist
  <2>2. QED
    BY <1>1, <2>1, QuietStep DEF AddFinalizer, MigrationRec
<1>2. CASE HandleDeletion
  <2>1. DriverMonotone
    BY <1>2 DEF HandleDeletion, Cancelled, DriverMonotone
  <2>2. stored' = stored \/ stored' = [stored EXCEPT !.fin = FALSE]
    BY <1>2 DEF HandleDeletion
  <2>3. /\ stored'.vols = stored.vols /\ stored'.volsRec = stored.volsRec
        /\ stored'.stage = stored.stage /\ stored'.status = stored.status
    BY <2>2 DEF MigrationRec
  <2>4. EarlyStage(stored') => ~Advanced(stored')
    BY <2>3 DEF StoredInv, EarlyStage, Advanced
  <2>5. QED
    BY <1>2, <2>1, <2>3, <2>4, StoredStep DEF HandleDeletion, Advanced
<1>3. CASE HandleAutoSuspend
  <2>1. stored' = stored \/ stored' = FailFinal(stored)
    BY <1>3 DEF HandleAutoSuspend, Persist
  <2>2. stored'.vols = stored.vols /\ stored'.volsRec = stored.volsRec
    BY <2>1, FailFinalFields
  <2>3. /\ EarlyStage(stored') => ~Advanced(stored')
        /\ Advanced(stored') => Advanced(stored)
    BY <2>1, FailFinalFields DEF StoredInv
  <2>4. QED
    BY <1>3, <2>2, <2>3, StoredStep DEF HandleAutoSuspend, DriverMonotone
<1>4. CASE HandleDomainInactive
  <2>1. stored' = stored \/ stored' = FailFinal(stored)
    BY <1>4 DEF HandleDomainInactive, Persist
  <2>2. stored'.vols = stored.vols /\ stored'.volsRec = stored.volsRec
    BY <2>1, FailFinalFields
  <2>3. /\ EarlyStage(stored') => ~Advanced(stored')
        /\ Advanced(stored') => Advanced(stored)
    BY <2>1, FailFinalFields DEF StoredInv
  <2>4. QED
    BY <1>4, <2>2, <2>3, StoredStep DEF HandleDomainInactive, DriverMonotone
<1>5. CASE HandleBegin
  <2>1. /\ stored.stage \in {"Initial", "PreExecRule", "Volumes"} => pc' \in EarlyPCs
        /\ stored.stage = "Applications" => pc' = "resources"
    BY <1>5 DEF HandleBegin, EarlyPCs
  <2>2. stored.stage \in {"Initial", "PreExecRule", "Volumes", "Applications"}
    BY <1>5 DEF HandleBegin, MigrationRec, Stages
  <2>3. pc' \in EarlyPCs => EarlyStage(local')
    BY <1>5, <2>1, <2>2 DEF HandleBegin, EarlyPCs, EarlyStage
  <2>4. (pc' \in LatePCs /\ mspec'.incVols) => VolsDone(local')
    BY <1>5, <2>1, <2>2 DEF HandleBegin, EarlyPCs, LatePCs, StoredInv, Advanced,
                            VolsDone
  <2>5. CopyInv'
    BY <1>5, <2>3, <2>4 DEF HandleBegin, CopyInv, StoredInv, VolsConsistent
  <2>6. StoredInv(stored)'
    BY <1>5 DEF HandleBegin, StoredInv, VolsConsistent, EarlyStage, Advanced,
                VolsDone
  <2>7. QED
    BY <2>5, <2>6
<1>6. CASE CheckInitialStage
  <2>1. CASE pc' = "preexec" /\ UNCHANGED <<stored, local, caller>>
    BY <1>6, <2>1, PCStep DEF CheckInitialStage, EarlyPCs, LatePCs
  <2>2. CASE Return /\ (stored' = stored \/ stored' = FailFinal(local))
    <3>1. FailFinal(local).vols = local.vols
          /\ FailFinal(local).volsRec = local.volsRec
          /\ ~EarlyStage(FailFinal(local)) /\ ~Advanced(FailFinal(local))
      BY FailFinalFields
    <3>2. DriverMonotone
      BY <1>6 DEF CheckInitialStage, DriverMonotone
    <3>3. QED
      BY <1>6, <2>2, <3>1, <3>2, PersistStep DEF CheckInitialStage
  <2>3. QED
    BY <1>6, <2>1, <2>2 DEF CheckInitialStage, Persist
<1>7. CASE RunPreExecRule
  <2>0. DriverMonotone /\ UNCHANGED <<mspec, exists, dvol>> /\ pc = "preexec"
    BY <1>7 DEF RunPreExecRule, DriverMonotone
  <2>1. CASE ~mspec.preExec
    <3> DEFINE l == SetStage(local, "Volumes", "Pending")
    <3>1. l \in MigrationRec /\ l.vols = local.vols /\ l.volsRec = local.volsRec
          /\ EarlyStage(l) /\ ~Advanced(l)
      BY SetStageFields, SetStageType DEF Stages, Statuses, EarlyStage, Advanced
    <3>2. /\ SetStage(l, "Initial", "Initial").vols = local.vols
          /\ SetStage(l, "Initial", "Initial").volsRec = local.volsRec
          /\ ~Advanced(SetStage(l, "Initial", "Initial"))
      BY <3>1, SetStageFields DEF Advanced
    <3>3. CASE stored' = l /\ local' = l /\ pc' = "volumes"
      <4>1. VolsConsistent(local)'
        BY <2>0, <3>1, <3>3 DEF VolsConsistent, CopyInv
      <4>2. QED
        BY <2>0, <3>1, <3>3, <4>1, SyncStep DEF EarlyPCs, LatePCs
    <3>4. CASE PreExecErrorPath(l)
      BY <2>0, <3>2, <3>4, PersistStep DEF PreExecErrorPath, Persist
    <3>5. QED
      BY <1>7, <2>1, <3>3, <3>4 DEF RunPreExecRule, Persist
  <2>2. CASE mspec.preExec
    <3> DEFINE l1 == IF local.stage = "Initial"
                     THEN SetStage(local, "PreExecRule", "Pending") ELSE local
               l2 == [l1 EXCEPT !.status = "InProgress"]
               l3 == SetStage(l2, "Initial", "Initial")
    <3>1. l1 \in MigrationRec /\ l1.vols = local.vols
          /\ l1.volsRec = local.volsRec /\ EarlyStage(l1)
      <4>1. CASE local.stage = "Initial"
        BY <4>1, SetStageFields, SetStageType DEF Stages, Statuses, EarlyStage
      <4>2. CASE local.stage # "Initial"
        BY <2>0, <4>2 DEF CopyInv, EarlyPCs
      <4>3. QED
        BY <4>1, <4>2
    <3>2. l2 \in MigrationRec /\ l2.vols = local.vols
          /\ l2.volsRec = local.volsRec /\ EarlyStage(l2) /\ ~Advanced(l2)
      BY <3>1 DEF MigrationRec, Statuses, EarlyStage, Advanced
    <3>3. /\ SetStage(l2, "Initial", "Initial").vols = local.vols
          /\ SetStage(l2, "Initial", "Initial").volsRec = local.volsRec
          /\ ~Advanced(SetStage(l2, "Initial", "Initial"))
      <4>1. SetStage(l2, "Initial", "Initial").vols = l2.vols
            /\ SetStage(l2, "Initial", "Initial").volsRec = l2.volsRec
            /\ SetStage(l2, "Initial", "Initial").stage = "Initial"
            /\ SetStage(l2, "Initial", "Initial").status = "Initial"
        BY <3>2 DEF SetStage, MigrationRec
      <4>2. QED
        BY <3>2, <4>1 DEF Advanced
    <3>4. CASE pc' = "volumes" /\ UNCHANGED <<stored, local, caller, ruleHeld>>
      BY <1>7, <2>0, <3>4, PCStep DEF RunPreExecRule, EarlyPCs, LatePCs
    <3>5. CASE stored' = l2 /\ local' = l2 /\ pc' = "volumes"
      <4>1. VolsConsistent(local)'
        BY <2>0, <3>2, <3>5 DEF VolsConsistent, CopyInv
      <4>2. QED
        BY <2>0, <3>2, <3>5, <4>1, SyncStep DEF EarlyPCs, LatePCs
    <3>6. CASE (stored' = l3 \/ stored' = l2) /\ Return
      BY <2>0, <3>2, <3>3, <3>6, PersistStep
    <3>7. CASE PreExecErrorPath(l2)
      BY <2>0, <3>3, <3>7, PersistStep DEF PreExecErrorPath, Persist
    <3>8. QED
      BY <1>7, <2>2, <3>4, <3>5, <3>6, <3>7 DEF RunPreExecRule, Persist
  <2>3. QED
    BY <2>1, <2>2
<1>8. CASE SkipVolumes
  <2> DEFINE l == SetStage(local, "Applications", "Initial")
  <2>1. l.vols = local.vols /\ l.volsRec = local.volsRec /\ ~EarlyStage(l)
    BY SetStageFields DEF EarlyStage
  <2>2. DriverMonotone /\ pc # "idle"
    BY <1>8 DEF SkipVolumes, DriverMonotone
  <2>3. QED
    BY <1>8, <2>1, <2>2, PersistStep DEF SkipVolumes, Persist
<1>9. CASE MigrateVolumesStart
  <2> DEFINE l0 == [local EXCEPT !.stage = "Volumes"]
             l1 == [l0 EXCEPT !.volsRec = TRUE, !.status = "InProgress",
                              !.vols = [v \in Vols |-> "InProgress"]]
             r0 == [l0 EXCEPT !.stage = "Initial"]
  <2>0. /\ pc = "volumes" /\ ~local.volsRec /\ UNCHANGED <<mspec, exists>>
        /\ ~stored.volsRec /\ \A v \in Vols : stored.vols[v] = "Idle"
        /\ EarlyStage(local) /\ ~Advanced(local)
    BY <1>9 DEF MigrateVolumesStart, CopyInv, VolsConsistent, EarlyPCs
  <2>1. CASE /\ stored' = stored \/ stored' = r0
             /\ Return /\ UNCHANGED dvol
    <3>1. r0.vols = local.vols /\ r0.volsRec = local.volsRec /\ ~Advanced(r0)
      BY <2>0 DEF MigrationRec, Advanced
    <3>2. QED
      BY <2>0, <2>1, <3>1, PersistStep DEF DriverMonotone
  <2>2. CASE /\ stored' = l1 /\ local' = l1
             /\ pc' \in {"postexec", "volumes"}
             /\ dvol' = [v \in Vols |-> "InProgress"]
    <3>1. VolsConsistent(local)'
      BY <2>2 DEF VolsConsistent
    <3>2. EarlyStage(l1) /\ ~Advanced(l1)
      BY DEF EarlyStage, Advanced
    <3>3. QED
      BY <2>0, <2>2, <3>1, <3>2, SyncStep DEF EarlyPCs, LatePCs
  <2>3. CASE /\ UNCHANGED stored /\ Return
             /\ dvol' = [v \in Vols |-> "InProgress"]
    <3>1. StoredInv(stored)'
      BY <2>0, <2>3 DEF StoredInv, VolsConsistent, VolsDone, EarlyStage,
                        Advanced
    <3>2. pc' = "idle" /\ local' = NewMigration
      BY <2>3 DEF Return
    <3>3. VolsConsistent(local)' /\ (~EarlyStage(local') \/ ~Advanced(local'))
      BY <3>2 DEF VolsConsistent, NewMigration, Advanced
    <3>4. CopyInv'
      BY <3>2, <3>3 DEF CopyInv, EarlyPCs, LatePCs
    <3>5. QED
      BY <3>1, <3>4
  <2>4. QED
    BY <1>9, <2>1, <2>2, <2>3 DEF MigrateVolumesStart, Persist
<1>10. CASE RunPostExecRule
  <2>1. CASE pc' = "volumes" /\ UNCHANGED <<stored, local, caller, dvol>>
    BY <1>10, <2>1, PCStep DEF RunPostExecRule, EarlyPCs, LatePCs
  <2>2. CASE /\ dvol' = Cancelled \/ dvol' = dvol
             /\ stored' = stored \/ stored' = FailFinal(local)
             /\ Return
    <3>1. DriverMonotone
      BY <2>2 DEF Cancelled, DriverMonotone
    <3>2. FailFinal(local).vols = local.vols
          /\ FailFinal(local).volsRec = local.volsRec
          /\ ~Advanced(FailFinal(local))
      BY FailFinalFields
    <3>3. QED
      BY <1>10, <2>2, <3>1, <3>2, PersistStep DEF RunPostExecRule
  <2>3. QED
    BY <1>10, <2>1, <2>2 DEF RunPostExecRule, Persist
<1>11. CASE MigrateVolumesPoll
  <2> DEFINE l1 == IF Vols = {} THEN [local EXCEPT !.stage = "Volumes"]
                   ELSE [local EXCEPT !.stage = "Volumes", !.vols = dvol]
             s1 == IF Vols = {} THEN stored ELSE l1
             l3 == SetStage(l1, "Applications", "InProgress")
  <2>0. /\ pc = "volumes" /\ local.volsRec
        /\ UNCHANGED <<mspec, exists, dvol>>
        /\ EarlyStage(local) /\ ~Advanced(local)
    BY <1>11 DEF MigrateVolumesPoll, CopyInv, EarlyPCs
  <2>1. /\ l1 \in MigrationRec /\ l1.volsRec = local.volsRec
        /\ EarlyStage(l1) /\ ~Advanced(l1)
        /\ (Vols = {} => l1.vols = local.vols)
        /\ (Vols # {} => l1.vols = dvol)
    BY <2>0 DEF MigrationRec, Stages, EarlyStage, Advanced
  <2>2. VolsConsistent(l1)
    BY <2>0, <2>1 DEF VolsConsistent, CopyInv
  <2>3. /\ VolsConsistent(s1)
        /\ EarlyStage(s1) => ~Advanced(s1)
        /\ (exists /\ mspec.incVols /\ Advanced(s1)) => VolsDone(s1)
    BY <2>1, <2>2 DEF StoredInv
  <2>4. (~AnyVolumeInProgress(l1.vols) /\ ~AnyVolumeFailed(l1.vols))
          => VolsDone(l1)
    BY <2>0, <2>1 DEF AnyVolumeInProgress, AnyVolumeFailed, VolsDone,
                      CopyInv, VolsConsistent, VolStatus
  <2>5. CASE Return /\ UNCHANGED stored
    BY <2>0, <2>5, PersistStep DEF DriverMonotone
  <2>6. CASE Return /\ stored' = s1
    BY <2>0, <2>3, <2>6, PersistStepVC
  <2>7. CASE Return /\ stored' = FailFinal(l1)
    <3>1. FailFinal(l1).vols = l1.vols /\ FailFinal(l1).volsRec = l1.volsRec
          /\ ~Advanced(FailFinal(l1))
      BY <2>1, FailFinalFields
    <3>2. VolsConsistent(FailFinal(l1))
      BY <2>2, <3>1 DEF VolsConsistent
    <3>3. QED
      BY <2>0, <2>7, <3>1, <3>2, PersistStepVC
  <2>8. CASE /\ ~AnyVolumeInProgress(l1.vols) /\ ~AnyVolumeFailed(l1.vols)
             /\ stored' = l3 /\ local' = l3 /\ pc' = "resources"
    <3>1. l3.vols = l1.vols /\ l3.volsRec = l1.volsRec /\ ~EarlyStage(l3)
      BY <2>1 DEF SetStage, MigrationRec, EarlyStage
    <3>2. VolsConsistent(local)' /\ VolsDone(local')
      BY <2>0, <2>2, <2>4, <2>8, <3>1 DEF VolsConsistent, VolsDone
    <3>3. QED
      BY <2>0, <2>8, <3>1, <3>2, SyncStep DEF EarlyPCs, LatePCs
  <2>9. CASE /\ ~AnyVolumeInProgress(l1.vols) /\ ~AnyVolumeFailed(l1.vols)
             /\ stored' = s1 /\ local' = l1 /\ pc' = "resources"
    <3>1. StoredInv(stored)'
      BY <2>0, <2>3, <2>9 DEF StoredInv, VolsConsistent
    <3>2. l1.vols = s1.vols /\ l1.volsRec = s1.volsRec
      BY <2>0, <2>1 DEF CopyInv
    <3>3. CopyInv'
      BY <2>0, <2>1, <2>2, <2>4, <2>9, <3>2
         DEF CopyInv, VolsConsistent, EarlyPCs, LatePCs
    <3>4. QED
      BY <3>1, <3>3
  <2>10. QED
    BY <1>11, <2>5, <2>6, <2>7, <2>8, <2>9 DEF MigrateVolumesPoll
<1>12. CASE MigrateResourcesCollect
  <2> DEFINE l == [local EXCEPT !.res = [r \in Res |->
                      IF r \in Collected THEN "InProgress" ELSE "Absent"]]
  <2>0. pc = "resources" /\ UNCHANGED <<mspec, exists, dvol>>
    BY <1>12 DEF MigrateResourcesCollect
  <2>1. CASE Return /\ UNCHANGED stored
    BY <2>0, <2>1, PersistStep DEF DriverMonotone
  <2>2. CASE stored' = l /\ local' = l /\ pc' = "apply"
    <3>1. l.vols = local.vols /\ l.stage = local.stage /\ l.status = local.status
      BY DEF MigrationRec
    <3>2. VolsConsistent(local)'
      BY <2>0, <2>2, <3>1 DEF CopyInv, VolsConsistent
    <3>3. QED
      BY <2>0, <2>2, <3>1, <3>2, SyncStep
         DEF CopyInv, EarlyPCs, LatePCs, EarlyStage, Advanced, VolsDone
  <2>3. QED
    BY <1>12, <2>1, <2>2 DEF MigrateResourcesCollect
<1>13. CASE ApplyResources
  <2>0. pc = "apply" /\ UNCHANGED <<mspec, exists, dvol>>
    BY <1>13 DEF ApplyResources
  <2>1. CASE Return /\ UNCHANGED stored
    BY <2>0, <2>1, PersistStep DEF DriverMonotone
  <2>2. CASE \E bad \in PVs \cap Collected, good \in SUBSET (PVs \cap Collected) :
               PVApplyFailed(bad, good)
    <3>1. PICK bad \in PVs \cap Collected, good \in SUBSET (PVs \cap Collected) :
                 PVApplyFailed(bad, good)
      BY <2>2
    <3> DEFINE l == FailFinal([local EXCEPT !.res = [r \in Res |->
                      IF r = bad THEN "Failed"
                      ELSE IF r \in good THEN "Successful" ELSE local.res[r]]])
    <3>2. l.vols = local.vols /\ l.volsRec = local.volsRec
          /\ ~EarlyStage(l) /\ ~Advanced(l)
      <4>1. [local EXCEPT !.res = [r \in Res |->
               IF r = bad THEN "Failed"
               ELSE IF r \in good THEN "Successful" ELSE local.res[r]]]
              \in MigrationRec
        BY DEF MigrationRec, ResStatus, Res
      <4>2. QED
        BY <4>1, FailFinalFields DEF MigrationRec
    <3>3. CASE stored' = l /\ local' = l /\ pc' = "repair"
      <4>1. VolsConsistent(local)'
        BY <2>0, <3>2, <3>3 DEF CopyInv, VolsConsistent
      <4>2. QED
        BY <2>0, <3>2, <3>3, <4>1, SyncStep
           DEF CopyInv, EarlyPCs, LatePCs, VolsDone
    <3>4. CASE Return /\ UNCHANGED stored
      BY <2>0, <3>4, PersistStep DEF DriverMonotone
    <3>5. QED
      BY <3>1, <3>3, <3>4 DEF PVApplyFailed
  <2>3. CASE \E out \in [Collected -> {"Successful", "Failed"}] :
               ResourcesApplied(out)
    <3>1. PICK out \in [Collected -> {"Successful", "Failed"}] :
                 ResourcesApplied(out)
      BY <2>3
    <3>2. /\ local'.vols = local.vols /\ local'.volsRec = local.volsRec
          /\ local'.stage = local.stage /\ local'.status = local.status
          /\ pc' = "repair" /\ UNCHANGED stored
      BY <3>1 DEF ResourcesApplied, MigrationRec
    <3>3. QED
      BY <2>0, <3>2 DEF StoredInv, CopyInv, VolsConsistent, EarlyStage,
                        Advanced, VolsDone, EarlyPCs, LatePCs
  <2>4. QED
    BY <1>13, <2>1, <2>2, <2>3 DEF ApplyResources
<1>14. CASE MigrateResourcesFinish
  <2> DEFINE allOK == \A r \in Res : local.res[r] \in {"Absent", "Successful"}
             l == SetStage(local, "Final",
                           IF allOK THEN "Successful" ELSE "PartialSuccess")
             next == IF caller = "handle" THEN "idle" ELSE "return"
  <2>0. /\ pc = "repair" /\ UNCHANGED <<mspec, exists, dvol>>
        /\ mspec.incVols => VolsDone(local)
    BY <1>14 DEF MigrateResourcesFinish, CopyInv, LatePCs
  <2>1. l.vols = local.vols /\ l.volsRec = local.volsRec /\ ~EarlyStage(l)
    BY SetStageFields DEF EarlyStage
  <2>2. VolsDone(local) => VolsDone(l)
    BY <2>1 DEF VolsDone
  <2>3. CASE Return /\ UNCHANGED stored
    BY <2>0, <2>3, PersistStep DEF DriverMonotone
  <2>4. CASE /\ stored' = stored \/ stored' = l
             /\ pc' = next /\ local' = IF next = "idle" THEN NewMigration ELSE l
             /\ UNCHANGED caller
    <3>1. CASE caller = "handle"
      <4>1. Return
        BY <2>4, <3>1 DEF Return
      <4>2. QED
        BY <2>0, <2>1, <2>2, <2>4, <4>1, PersistStep DEF DriverMonotone
    <3>2. CASE caller # "handle"
      <4>1. pc' = "return" /\ local' = l
        BY <2>4, <3>2
      <4>2. VolsConsistent(local)'
        BY <2>0, <2>1, <4>1 DEF CopyInv, VolsConsistent
      <4>3. CASE stored' = l
        BY <2>0, <2>1, <2>2, <4>1, <4>2, <4>3, SyncStep
           DEF EarlyPCs, LatePCs
      <4>4. CASE stored' = stored
        BY <2>0, <2>1, <2>2, <4>1, <4>2, <4>4
           DEF StoredInv, CopyInv, VolsConsistent, EarlyStage, Advanced,
               VolsDone, EarlyPCs, LatePCs
      <4>5. QED
        BY <2>4, <4>3, <4>4
    <3>3. QED
      BY <3>1, <3>2
  <2>5. QED
    BY <1>14, <2>3, <2>4 DEF MigrateResourcesFinish
<1>15. CASE ReturnToMigrateVolumes
  <2>0. /\ pc = "return" /\ UNCHANGED <<mspec, exists, dvol>>
        /\ mspec.incVols => VolsDone(local)
        /\ EarlyStage(local) => ~Advanced(local)
    BY <1>15 DEF ReturnToMigrateVolumes, CopyInv, LatePCs
  <2>1. SetStage(local, "Final", "Successful").vols = local.vols
        /\ SetStage(local, "Final", "Successful").volsRec = local.volsRec
        /\ ~EarlyStage(SetStage(local, "Final", "Successful"))
    BY SetStageFields DEF EarlyStage
  <2>2. CASE stored' = stored
    BY <1>15, <2>0, <2>2, PersistStep DEF ReturnToMigrateVolumes, DriverMonotone
  <2>3. CASE stored' = SetStage(local, "Final", "Successful")
    BY <1>15, <2>0, <2>1, <2>3, PersistStep
       DEF ReturnToMigrateVolumes, DriverMonotone, VolsDone
  <2>4. CASE stored' = local
    BY <1>15, <2>0, <2>4, PersistStep
       DEF ReturnToMigrateVolumes, DriverMonotone
  <2>5. QED
    BY <1>15, <2>2, <2>3, <2>4 DEF ReturnToMigrateVolumes, Persist
<1>16. CASE DriverProgress
  <2>1. DriverMonotone
    BY <1>16 DEF DriverProgress, DriverMonotone
  <2>2. QED
    BY <1>16, <2>1, StoredStep DEF DriverProgress, StoredInv
<1>17. CASE UserDelete
  <2>1. stored' = stored \/ stored' = [stored EXCEPT !.del = TRUE]
    BY <1>17 DEF UserDelete
  <2>2. QED
    BY <1>17, <2>1, QuietStep DEF UserDelete, MigrationRec
<1>18. CASE ObjectGone
  BY <1>18, QuietStep DEF ObjectGone, vars
<1>19. CASE UNCHANGED vars
  BY <1>19, QuietStep DEF vars
<1>20. QED
  BY <1>1, <1>2, <1>3, <1>4, <1>5, <1>6, <1>7, <1>8, <1>9, <1>10,
     <1>11, <1>12, <1>13, <1>14, <1>15, <1>16, <1>17, <1>18, <1>19
     DEF Next

(* A new object, before any reconcile, satisfies IInv.                     *)
LEMMA IInvInit == Init => IInv
<1> SUFFICES ASSUME Init PROVE IInv
  OBVIOUS
<1>1. TypeOK
  BY TypeOKInit
<1>2. stored = NewMigration /\ local = NewMigration /\ pc = "idle"
  BY DEF Init
<1>3. VolsConsistent(NewMigration) /\ ~Advanced(NewMigration)
  BY DEF VolsConsistent, NewMigration, Advanced
<1>4. QED
  BY <1>1, <1>2, <1>3 DEF IInv, StoredInv, CopyInv, EarlyPCs, LatePCs

(* Resources are migrated, and the migration reported Successful or        *)
(* PartialSuccess, only once every volume is Successful at the driver and  *)
(* in the persisted Status.Volumes (the scan in migrateVolumes, the stage  *)
(* writes of handle and migrateResources), for every number of volumes     *)
(* and objects and every flag combination.                                 *)
THEOREM ResourcesAfterVolumesHolds == Spec => []ResourcesAfterVolumes
<1>1. Init => IInv
  BY IInvInit
<1>2. IInv /\ [Next]_vars => IInv'
  BY IInvStep
<1>3. IInv => ResourcesAfterVolumes
  BY DEF IInv, StoredInv, VolsConsistent, VolsDone, ResourcesAfterVolumes,
         Advanced
<1>4. QED
  BY <1>1, <1>2, <1>3, PTL DEF Spec
=============================================================================
