------------------------- MODULE MigrationLifecycleProofs ----------------------
(***************************************************************************)
(* Proof that the persisted Status.Stage of a Migration only moves forward *)
(* (StageProgress), for every choice of the constants allowed by           *)
(* ConstAssumption.  The argument: StageInv says, for each step of a       *)
(* reconcile, what the stored stage can be; given it, every Update a step  *)
(* makes writes a stage at least the stored one, or the Initial reset a    *)
(* configured pre-exec rule allows.                                        *)
(***************************************************************************)
EXTENDS MigrationControllerProofs

(* The ranks of the five stages, in the order of the stage switch.          *)
LEMMA StageRanks ==
    /\ StageRank("Initial") = 0 /\ StageRank("PreExecRule") = 1
    /\ StageRank("Volumes") = 2 /\ StageRank("Applications") = 3
    /\ StageRank("Final") = 4
BY Zenon DEF StageRank

(* The stage t may be written over the stored stage.                       *)
MovesTo(t) ==
    \/ StageRank(t) >= StageRank(stored.stage)
    \/ t = "Initial" /\ mspec.preExec /\ stored.stage \in {"PreExecRule", "Volumes"}

(* The stored stage may be written again.                                   *)
LEMMA StayMoves ==
    ASSUME TypeOK PROVE MovesTo(stored.stage)
<1>1. StageRank(stored.stage) \in Nat
  BY StageRanks DEF TypeOK, MigrationRec, Stages
<1>2. QED
  BY <1>1 DEF MovesTo

(* A step whose written stage may be written is a StageMoves step.         *)
LEMMA MovesStep ==
    ASSUME MovesTo(stored'.stage), UNCHANGED mspec
    PROVE  StageMoves
BY DEF MovesTo, StageMoves

(* Final, the stage of a failed or finished migration, may be written over *)
(* any stage.                                                              *)
LEMMA FinalMoves ==
    ASSUME TypeOK PROVE MovesTo("Final")
<1>1. StageRank(stored.stage) \in 0..4
  BY StageRanks DEF TypeOK, MigrationRec, Stages
<1>2. QED
  BY <1>1, StageRanks DEF MovesTo

(* The Update of the first reconcile steps: stages up to Volumes may be    *)
(* written over any early stage, Applications over any but Final.          *)
LEMMA EarlyMoves ==
    ASSUME TypeOK, EarlyStage(stored)
    PROVE  MovesTo("Volumes") /\ MovesTo("Applications")
<1>1. StageRank(stored.stage) \in 0..2
  BY StageRanks DEF EarlyStage
<1>2. QED
  BY <1>1, StageRanks DEF MovesTo

(* Resetting to Initial is allowed from any early stage when a pre-exec    *)
(* rule is configured; PreExecRule may be written over Initial and itself. *)
LEMMA ResetMoves ==
    ASSUME TypeOK, EarlyStage(stored), mspec.preExec
    PROVE  MovesTo("Initial")
BY StageRanks DEF MovesTo, EarlyStage

LEMMA PreExecMoves ==
    ASSUME stored.stage \in {"Initial", "PreExecRule"}
    PROVE  MovesTo("PreExecRule")
BY StageRanks DEF MovesTo

(* The stage written by FailFinal.                                          *)
LEMMA FailFinalStage ==
    ASSUME NEW rec \in MigrationRec
    PROVE  FailFinal(rec).stage = "Final"
BY SetStageFields DEF FailFinal

-----------------------------------------------------------------------------
(* StageInv holds of a new object, before any reconcile.                    *)
LEMMA StageInvInit == Init => StageInv
BY DEF Init, StageInv, NewMigration, EarlyPCs, LatePCs

(* A step that returns and writes no PreExecRule stage without a rule      *)
(* keeps StageInv.                                                         *)
LEMMA IdleStageInv ==
    ASSUME StageInv, pc' = "idle", UNCHANGED mspec,
           \/ stored'.stage = stored.stage
           \/ stored'.stage # "PreExecRule"
           \/ mspec.preExec
    PROVE  StageInv'
BY DEF StageInv, EarlyPCs, LatePCs

(* A step that keeps the stored stage, the copy, the step and the spec      *)
(* keeps StageInv and writes a stage that may be written.                   *)
LEMMA StageKept ==
    ASSUME TypeOK, StageInv, stored'.stage = stored.stage,
           UNCHANGED <<mspec, local, pc>>
    PROVE  StageInv' /\ MovesTo(stored'.stage)
<1>1. StageInv'
  BY DEF StageInv, EarlyStage
<1>2. MovesTo(stored'.stage)
  BY StayMoves
<1>3. QED
  BY <1>1, <1>2

(* The Migration spec (the flags after setDefaults) is never changed.      *)
LEMMA MspecFixed == [Next]_vars => UNCHANGED mspec
BY DEF Next, vars, AddFinalizer, HandleDeletion, HandleAutoSuspend,
       HandleDomainInactive, HandleBegin, CheckInitialStage, RunPreExecRule,
       SkipVolumes, MigrateVolumesStart, RunPostExecRule, MigrateVolumesPoll,
       MigrateResourcesCollect, ApplyResources, MigrateResourcesFinish,
       ReturnToMigrateVolumes, DriverProgress, UserDelete, ObjectGone

(* Every step of the reconciler, the driver or the user keeps StageInv and *)
(* writes only a stage that may be written over the stored one.            *)
LEMMA StageStep == TypeOK /\ StageInv /\ [Next]_vars => StageInv' /\ MovesTo(stored'.stage)
<1> SUFFICES ASSUME TypeOK, StageInv, [Next]_vars PROVE StageInv' /\ MovesTo(stored'.stage)
  OBVIOUS
<1>0. TypeOK'
  BY TypeOKStep
<1>1. CASE AddFinalizer
  <2>1. stored'.stage = stored.stage
    BY <1>1 DEF AddFinalizer, Persist, TypeOK, MigrationRec
  <2>2. QED
    BY <1>1, <2>1, StageKept DEF AddFinalizer
<1>2. CASE HandleDeletion
  <2>1. stored'.stage = stored.stage
    BY <1>2 DEF HandleDeletion, TypeOK, MigrationRec
  <2>2. QED
    BY <1>2, <2>1, StageKept DEF HandleDeletion
<1>3. CASE HandleAutoSuspend \/ HandleDomainInactive
  <2>1. stored'.stage \in {stored.stage} \cup {"Final"} /\ pc' = "idle"
        /\ UNCHANGED mspec
    BY <1>3, FailFinalStage DEF HandleAutoSuspend, HandleDomainInactive,
                                Persist, TypeOK
  <2>2. MovesTo(stored'.stage)
    BY <2>1, FinalMoves, StayMoves DEF Stages
  <2>3. QED
    BY <2>1, <2>2, MovesStep, IdleStageInv
<1>4. CASE HandleBegin
  <2>1. UNCHANGED <<mspec, stored>> /\ local' = stored
    BY <1>4 DEF HandleBegin
  <2>2. /\ stored.stage = "Initial" => pc' = "initial"
        /\ stored.stage = "PreExecRule" => pc' = "preexec"
        /\ stored.stage = "Volumes" => pc' = "volumes"
        /\ stored.stage = "Applications" => pc' = "resources"
        /\ stored.stage # "Final"
    BY <1>4, Zenon DEF HandleBegin
  <2>3. StageInv'
    BY <2>1, <2>2, StageRanks DEF StageInv, TypeOK, MigrationRec, Stages,
                                  EarlyPCs, LatePCs, EarlyStage
  <2>4. QED
    BY <2>1, <2>3, StayMoves, MovesStep
<1>5. CASE CheckInitialStage
  <2>1. pc = "initial" /\ UNCHANGED mspec
    BY <1>5 DEF CheckInitialStage
  <2>2. CASE pc' = "preexec" /\ UNCHANGED <<stored, local, caller>>
    <3>1. StageInv'
      BY <2>1, <2>2 DEF StageInv, EarlyPCs, LatePCs
    <3>2. QED
      BY <2>1, <2>2, <3>1, StayMoves, MovesStep
  <2>3. CASE pc' = "idle" /\ stored'.stage \in {stored.stage} \cup {"Final"}
    BY <2>1, <2>3, FinalMoves, StayMoves, MovesStep, IdleStageInv DEF Stages
  <2>4. QED
    <3>1. FailFinal(local).stage = "Final"
      BY FailFinalStage DEF TypeOK
    <3>2. QED
      BY <1>5, <2>2, <2>3, <3>1 DEF CheckInitialStage, Persist, Return
<1>6. CASE RunPreExecRule
  <2>0. pc = "preexec" /\ UNCHANGED mspec
        /\ local.stage = stored.stage
        /\ stored.stage \in {"Initial", "PreExecRule"}
    BY <1>6 DEF RunPreExecRule, StageInv
  <2>1. CASE ~mspec.preExec
    <3> DEFINE l == SetStage(local, "Volumes", "Pending")
    <3>1. stored.stage = "Initial"
      BY <2>0, <2>1 DEF StageInv
    <3>2. l.stage = "Volumes" /\ SetStage(l, "Initial", "Initial").stage = "Initial"
      BY SetStageFields, SetStageType DEF TypeOK, Stages, Statuses
    <3>3. MovesTo("Volumes") /\ MovesTo("Initial")
      BY <3>1, StageRanks DEF MovesTo
    <3>4. CASE stored' = l /\ local' = l /\ pc' = "volumes"
      <4>1. StageInv'
        BY <2>0, <3>2, <3>4 DEF StageInv, EarlyPCs, LatePCs, EarlyStage
      <4>2. QED
        BY <2>0, <3>2, <3>3, <3>4, <4>1, MovesStep
    <3>5. CASE PreExecErrorPath(l)
      <4>1. pc' = "idle" /\ stored'.stage \in {stored.stage, "Initial"}
        BY <3>2, <3>5 DEF PreExecErrorPath, Persist, Return
      <4>2. QED
        BY <2>0, <3>1, <3>3, <4>1, MovesStep, IdleStageInv
    <3>6. QED
      BY <1>6, <2>1, <3>4, <3>5 DEF RunPreExecRule, Persist
  <2>2. CASE mspec.preExec
    <3> DEFINE l1 == IF local.stage = "Initial"
                     THEN SetStage(local, "PreExecRule", "Pending") ELSE local
               l2 == [l1 EXCEPT !.status = "InProgress"]
               l3 == SetStage(l2, "Initial", "Initial")
    <3>1. l1 \in MigrationRec /\ l1.stage = "PreExecRule"
      BY <2>0, SetStageFields, SetStageType DEF TypeOK, Stages, Statuses
    <3>2. l2.stage = "PreExecRule" /\ l3.stage = "Initial"
      <4>1. l2 \in MigrationRec /\ l2.stage = "PreExecRule"
        BY <3>1 DEF MigrationRec, Statuses
      <4>2. QED
        BY <4>1, SetStageFields
    <3>3. MovesTo("PreExecRule") /\ MovesTo("Initial")
      BY <2>0, <2>2, PreExecMoves, ResetMoves DEF EarlyStage
    <3>4. CASE pc' = "volumes" /\ UNCHANGED <<stored, local, caller, ruleHeld>>
      <4>1. StageInv'
        BY <2>0, <3>4 DEF StageInv, EarlyPCs, LatePCs, EarlyStage
      <4>2. QED
        BY <2>0, <3>4, <4>1, StayMoves, MovesStep
    <3>5. CASE stored' = l2 /\ local' = l2 /\ pc' = "volumes"
      <4>1. StageInv'
        BY <2>0, <2>2, <3>2, <3>5 DEF StageInv, EarlyPCs, LatePCs, EarlyStage
      <4>2. QED
        BY <2>0, <3>2, <3>3, <3>5, <4>1, MovesStep
    <3>6. CASE pc' = "idle" /\ stored'.stage \in {stored.stage, "PreExecRule", "Initial"}
      BY <2>0, <2>2, <3>3, <3>6, StayMoves, MovesStep, IdleStageInv DEF Stages
    <3>7. QED
      BY <1>6, <2>2, <3>2, <3>4, <3>5, <3>6
         DEF RunPreExecRule, PreExecErrorPath, Persist, Return
  <2>3. QED
    BY <2>1, <2>2
<1>7. CASE SkipVolumes
  <2>1. pc = "volumes" /\ pc' = "idle" /\ UNCHANGED mspec
        /\ stored'.stage \in {stored.stage, "Applications"}
    BY <1>7, SetStageFields DEF SkipVolumes, Persist, Return, TypeOK
  <2>2. EarlyStage(stored)
    BY <2>1 DEF StageInv, EarlyPCs
  <2>3. QED
    BY <2>1, <2>2, EarlyMoves, StayMoves, MovesStep, IdleStageInv DEF Stages
<1>8. CASE MigrateVolumesStart
  <2> DEFINE l0 == [local EXCEPT !.stage = "Volumes"]
             l1 == [l0 EXCEPT !.volsRec = TRUE, !.status = "InProgress",
                              !.vols = [v \in Vols |-> "InProgress"]]
             r0 == [l0 EXCEPT !.stage = "Initial"]
  <2>0. pc = "volumes" /\ UNCHANGED mspec /\ EarlyStage(stored)
    BY <1>8 DEF MigrateVolumesStart, StageInv, EarlyPCs
  <2>1. l1.stage = "Volumes" /\ r0.stage = "Initial"
    BY DEF TypeOK, MigrationRec
  <2>2. CASE StorageNotReadyResets /\ pc' = "idle"
             /\ stored'.stage \in {stored.stage, "Initial"}
    <3>1. MovesTo("Initial")
      BY <2>0, <2>2, ResetMoves DEF StorageNotReadyResets
    <3>2. QED
      BY <2>0, <2>2, <3>1, StayMoves, MovesStep, IdleStageInv DEF Stages
  <2>3. CASE pc' = "idle" /\ UNCHANGED stored
    BY <2>0, <2>3, StayMoves, MovesStep, IdleStageInv
  <2>4. CASE stored' = l1 /\ local' = l1 /\ pc' \in {"postexec", "volumes"}
    <3>1. StageInv'
      BY <2>0, <2>1, <2>4 DEF StageInv, EarlyPCs, LatePCs, EarlyStage
    <3>2. QED
      BY <2>0, <2>1, <2>4, <3>1, EarlyMoves, MovesStep
  <2>5. QED
    BY <1>8, <2>1, <2>2, <2>3, <2>4 DEF MigrateVolumesStart, Persist, Return
<1>9. CASE RunPostExecRule
  <2>0. pc = "postexec" /\ UNCHANGED mspec /\ EarlyStage(stored)
    BY <1>9 DEF RunPostExecRule, StageInv, EarlyPCs
  <2>1. CASE pc' = "volumes" /\ UNCHANGED <<stored, local>>
    <3>1. StageInv'
      BY <2>0, <2>1 DEF StageInv, EarlyPCs, LatePCs
    <3>2. QED
      BY <2>0, <2>1, <3>1, StayMoves, MovesStep
  <2>2. CASE pc' = "idle" /\ stored'.stage \in {stored.stage, "Final"}
    BY <2>0, <2>2, FinalMoves, StayMoves, MovesStep, IdleStageInv DEF Stages
  <2>3. QED
    <3>1. FailFinal(local).stage = "Final"
      BY FailFinalStage DEF TypeOK
    <3>2. QED
      BY <1>9, <2>1, <2>2, <3>1 DEF RunPostExecRule, Persist, Return
<1>10. CASE MigrateVolumesPoll
  <2> DEFINE l1 == IF Vols = {} THEN [local EXCEPT !.stage = "Volumes"]
                   ELSE [local EXCEPT !.stage = "Volumes", !.vols = dvol]
             s1 == IF Vols = {} THEN stored ELSE l1
             l3 == SetStage(l1, "Applications", "InProgress")
  <2>0. pc = "volumes" /\ UNCHANGED mspec /\ EarlyStage(stored)
    BY <1>10 DEF MigrateVolumesPoll, StageInv, EarlyPCs
  <2>1. l1 \in MigrationRec /\ l1.stage = "Volumes"
    BY DEF TypeOK, MigrationRec, Stages
  <2>2. l3.stage = "Applications" /\ FailFinal(l1).stage = "Final"
        /\ s1.stage \in {stored.stage, "Volumes"}
    BY <2>1, SetStageFields, FailFinalStage
  <2>3. \A t \in {"Volumes", "Applications", "Final"} : MovesTo(t)
    BY <2>0, EarlyMoves, FinalMoves
  <2>4. CASE pc' = "idle"
             /\ stored'.stage \in {stored.stage, "Volumes", "Applications", "Final"}
    BY <2>0, <2>3, <2>4, StayMoves, MovesStep, IdleStageInv DEF Stages
  <2>5. CASE stored' = l3 /\ local' = l3 /\ pc' = "resources"
    <3>1. StageInv'
      BY <2>0, <2>2, <2>5, StageRanks DEF StageInv, EarlyPCs, LatePCs
    <3>2. QED
      BY <2>0, <2>2, <2>3, <2>5, <3>1, MovesStep
  <2>6. CASE stored' = s1 /\ local' = l1 /\ pc' = "resources"
    <3>1. StageRank(stored'.stage) <= StageRank(local'.stage)
      BY <2>0, <2>1, <2>2, <2>6, StageRanks DEF EarlyStage
    <3>2. StageInv'
      BY <2>0, <2>1, <2>2, <2>6, <3>1 DEF StageInv, EarlyPCs, LatePCs
    <3>3. QED
      BY <2>0, <2>2, <2>3, <2>6, <3>2, StayMoves, MovesStep DEF Stages
  <2>7. QED
    BY <1>10, <2>2, <2>4, <2>5, <2>6 DEF MigrateVolumesPoll, Return
<1>11. CASE MigrateResourcesCollect
  <2>0. pc = "resources" /\ UNCHANGED mspec
        /\ local.stage \in {"Volumes", "Applications", "Final"}
        /\ StageRank(local.stage) >= StageRank(stored.stage)
    BY <1>11 DEF MigrateResourcesCollect, StageInv, LatePCs
  <2>1. CASE pc' = "idle" /\ UNCHANGED stored
    BY <2>0, <2>1, StayMoves, MovesStep, IdleStageInv
  <2>2. CASE stored'.stage = local.stage /\ local'.stage = local.stage
             /\ pc' = "apply"
    <3>1. StageInv'
      BY <2>0, <2>2, StageRanks DEF StageInv, EarlyPCs, LatePCs
    <3>2. QED
      BY <2>0, <2>2, <3>1, MovesStep DEF MovesTo
  <2>3. QED
    <3> DEFINE l == [local EXCEPT !.res = [r \in Res |->
                      IF r \in Collected THEN "InProgress" ELSE "Absent"]]
    <3>1. l.stage = local.stage
      BY DEF TypeOK, MigrationRec
    <3>2. QED
      BY <1>11, <2>1, <2>2, <3>1 DEF MigrateResourcesCollect, Return
<1>12. CASE ApplyResources
  <2>0. pc = "apply" /\ UNCHANGED mspec
        /\ local.stage \in {"Volumes", "Applications", "Final"}
        /\ StageRank(local.stage) >= StageRank(stored.stage)
    BY <1>12 DEF ApplyResources, StageInv, LatePCs
  <2>1. CASE pc' = "idle" /\ UNCHANGED stored
    BY <2>0, <2>1, StayMoves, MovesStep, IdleStageInv
  <2>2. CASE stored'.stage = "Final" /\ local'.stage = "Final" /\ pc' = "repair"
    <3>1. StageInv'
      BY <2>2, StageRanks DEF StageInv, EarlyPCs, LatePCs
    <3>2. QED
      BY <2>0, <2>2, <3>1, FinalMoves, MovesStep
  <2>3. CASE UNCHANGED stored /\ local'.stage = local.stage /\ pc' = "repair"
    <3>1. StageInv'
      BY <2>0, <2>3 DEF StageInv, EarlyPCs, LatePCs
    <3>2. QED
      BY <2>0, <2>3, <3>1, StayMoves, MovesStep
  <2>4. ASSUME NEW bad \in PVs \cap Collected,
               NEW good \in SUBSET (PVs \cap Collected),
               PVApplyFailed(bad, good)
        PROVE  StageInv' /\ MovesTo(stored'.stage)
    <3> DEFINE l == FailFinal([local EXCEPT !.res = [r \in Res |->
                      IF r = bad THEN "Failed"
                      ELSE IF r \in good THEN "Successful" ELSE local.res[r]]])
    <3>1. l.stage = "Final"
      <4>1. [local EXCEPT !.res = [r \in Res |->
               IF r = bad THEN "Failed"
               ELSE IF r \in good THEN "Successful" ELSE local.res[r]]]
              \in MigrationRec
        BY DEF TypeOK, MigrationRec, ResStatus, Res
      <4>2. QED
        BY <4>1, FailFinalStage
    <3>2. QED
      BY <2>1, <2>2, <2>4, <3>1 DEF PVApplyFailed, Return
  <2>5. ASSUME NEW out \in [Collected -> {"Successful", "Failed"}],
               ResourcesApplied(out)
        PROVE  StageInv' /\ MovesTo(stored'.stage)
    BY <2>3, <2>5 DEF ResourcesApplied, TypeOK, MigrationRec
  <2>6. QED
    BY <1>12, <2>1, <2>4, <2>5 DEF ApplyResources, Return
<1>13. CASE MigrateResourcesFinish
  <2> DEFINE allOK == \A r \in Res : local.res[r] \in {"Absent", "Successful"}
             l == SetStage(local, "Final",
                           IF allOK THEN "Successful" ELSE "PartialSuccess")
             next == IF caller = "handle" THEN "idle" ELSE "return"
  <2>0. pc = "repair" /\ UNCHANGED mspec
    BY <1>13 DEF MigrateResourcesFinish
  <2>1. l.stage = "Final"
    BY SetStageFields DEF TypeOK
  <2>2. CASE pc' = "idle" /\ stored'.stage \in {stored.stage, "Final"}
    BY <2>0, <2>2, FinalMoves, StayMoves, MovesStep, IdleStageInv DEF Stages
  <2>3. CASE pc' = "return" /\ local' = l /\ stored'.stage \in {stored.stage, "Final"}
    <3>1. StageRank(stored'.stage) <= 4
      BY <2>3, StageRanks DEF TypeOK, MigrationRec, Stages
    <3>2. StageInv'
      BY <2>0, <2>1, <2>3, <3>1, StageRanks DEF StageInv, EarlyPCs, LatePCs
    <3>3. QED
      BY <2>0, <2>3, <3>2, FinalMoves, StayMoves, MovesStep DEF Stages
  <2>4. QED
    BY <1>13, <2>1, <2>2, <2>3 DEF MigrateResourcesFinish, Return
<1>14. CASE ReturnToMigrateVolumes
  <2>0. pc = "return" /\ pc' = "idle" /\ UNCHANGED mspec
        /\ local.stage \in {"Volumes", "Applications", "Final"}
        /\ StageRank(local.stage) >= StageRank(stored.stage)
    BY <1>14 DEF ReturnToMigrateVolumes, StageInv, LatePCs, Return
  <2>1. SetStage(local, "Final", "Successful").stage = "Final"
    BY SetStageFields DEF TypeOK
  <2>2. stored'.stage \in {stored.stage, "Final", local.stage}
    BY <1>14, <2>1 DEF ReturnToMigrateVolumes, Persist
  <2>3. MovesTo(local.stage) /\ MovesTo("Final")
    BY <2>0, FinalMoves DEF MovesTo
  <2>4. QED
    BY <2>0, <2>2, <2>3, StayMoves, MovesStep, IdleStageInv DEF Stages
<1>15. CASE DriverProgress
  BY <1>15, StageKept DEF DriverProgress
<1>16. CASE UserDelete
  <2>1. stored'.stage = stored.stage
    BY <1>16 DEF UserDelete, TypeOK, MigrationRec
  <2>2. QED
    BY <1>16, <2>1, StageKept DEF UserDelete
<1>17. CASE ObjectGone \/ UNCHANGED vars
  BY <1>17, StageKept DEF ObjectGone, vars
<1>18. QED
  BY <1>1, <1>2, <1>3, <1>4, <1>5, <1>6, <1>7, <1>8, <1>9, <1>10,
     <1>11, <1>12, <1>13, <1>14, <1>15, <1>16, <1>17 DEF Next

-----------------------------------------------------------------------------
(* Once the volume list is recorded Successful and the driver agrees, that  *)
(* is never undone: the driver keeps its successes and every Update writes  *)
(* either the stored list, a list copied from it, or the driver's list.     *)
LEMMA MigratedWrite ==
    ASSUME TypeOK, VolumesMigrated,
           stored'.vols \in {stored.vols, dvol},
           \A v \in Vols : dvol[v] = "Successful" => dvol'[v] = "Successful"
    PROVE  VolumesMigrated'
BY DEF VolumesMigrated

(* After the object is gone, its stage and status stay as they were.       *)
Frozen == ~exists' => stored'.stage = stored.stage /\ stored'.status = stored.status

(* A step that writes nothing to stage, status and volume list, and keeps  *)
(* the driver's successes, is harmless.                                     *)
LEMMA QuietMigrated ==
    ASSUME TypeOK, stored'.vols = stored.vols, stored'.stage = stored.stage,
           stored'.status = stored.status,
           \A v \in Vols : dvol[v] = "Successful" => dvol'[v] = "Successful"
    PROVE  (VolumesMigrated => VolumesMigrated') /\ Frozen
BY DEF VolumesMigrated, Frozen

(* Every step keeps VolumesMigrated once it holds, and a step after the    *)
(* object is gone writes no stage or status.                                *)
LEMMA MigratedStep ==
    ASSUME IInv, [Next]_vars
    PROVE  (VolumesMigrated => VolumesMigrated') /\ Frozen
<1> USE DEF IInv
<1>0. /\ \A rec \in MigrationRec : \A stg, sts :
            /\ SetStage(rec, stg, sts).vols = rec.vols
            /\ SetStage(rec, stg, sts).stage = stg
            /\ SetStage(rec, stg, sts).status = sts
      /\ \A rec \in MigrationRec : FailFinal(rec).vols = rec.vols
  BY SetStageFields, FailFinalFields
<1>c. pc # "idle" => local.vols = stored.vols
  BY DEF CopyInv
<1>d. Cancelled \in [Vols -> VolStatus]
      /\ \A v \in Vols : dvol[v] = "Successful" => Cancelled[v] = "Successful"
  BY CancelledType DEF Cancelled, TypeOK
<1>1. CASE AddFinalizer \/ UserDelete
  BY <1>1, QuietMigrated DEF AddFinalizer, UserDelete, Persist, TypeOK,
                             MigrationRec
<1>2. CASE HandleDeletion
  <2>1. stored'.vols = stored.vols /\ stored'.stage = stored.stage
        /\ stored'.status = stored.status
    BY <1>2 DEF HandleDeletion, TypeOK, MigrationRec
  <2>2. \A v \in Vols : dvol[v] = "Successful" => dvol'[v] = "Successful"
    BY <1>2, <1>d DEF HandleDeletion
  <2>3. QED
    BY <2>1, <2>2, QuietMigrated DEF TypeOK
<1>3. CASE HandleAutoSuspend \/ HandleDomainInactive \/ HandleBegin
  <2>1. stored'.vols = stored.vols /\ UNCHANGED <<exists, dvol>>
    BY <1>3, <1>0 DEF HandleAutoSuspend, HandleDomainInactive, HandleBegin,
                      Persist, TypeOK
  <2>2. Frozen
    BY <1>3 DEF HandleAutoSuspend, HandleDomainInactive, HandleBegin,
                Persist, WriteOK, Frozen
  <2>3. QED
    BY <2>1, <2>2, MigratedWrite DEF TypeOK

<1>4. CASE CheckInitialStage
  <2>1. stored' = stored \/ (stored' = FailFinal(local) /\ WriteOK)
    BY <1>4 DEF CheckInitialStage, Persist
  <2>2. stored'.vols = stored.vols /\ UNCHANGED <<exists, dvol>>
    BY <1>4, <1>0, <1>c, <2>1 DEF CheckInitialStage, TypeOK
  <2>3. Frozen
    BY <2>1, <2>2 DEF WriteOK, Frozen
  <2>4. QED
    BY <2>2, <2>3, MigratedWrite DEF TypeOK
<1>5. CASE RunPreExecRule
  <2> DEFINE l == SetStage(local, "Volumes", "Pending")
             l1 == IF local.stage = "Initial"
                   THEN SetStage(local, "PreExecRule", "Pending") ELSE local
             l2 == [l1 EXCEPT !.status = "InProgress"]
  <2>1. /\ l \in MigrationRec /\ l.vols = local.vols
        /\ l1 \in MigrationRec /\ l1.vols = local.vols
        /\ l2 \in MigrationRec /\ l2.vols = local.vols
    <3>1. l \in MigrationRec /\ l1 \in MigrationRec
      BY SetStageType DEF TypeOK, Stages, Statuses
    <3>2. l.vols = local.vols /\ l1.vols = local.vols
      BY SetStageFields DEF TypeOK
    <3>3. QED
      BY <3>1, <3>2 DEF MigrationRec, Statuses
  <2>2. /\ SetStage(l, "Initial", "Initial").vols = local.vols
        /\ SetStage(l2, "Initial", "Initial").vols = local.vols
    BY <2>1 DEF SetStage, MigrationRec
  <2>3. \/ stored' = stored
        \/ /\ WriteOK
           /\ stored' \in {l, SetStage(l, "Initial", "Initial"), l2,
                           SetStage(l2, "Initial", "Initial")}
    BY <1>5 DEF RunPreExecRule, PreExecErrorPath, Persist
  <2>4. stored'.vols = stored.vols /\ UNCHANGED <<exists, dvol>>
    BY <1>5, <1>c, <2>1, <2>2, <2>3 DEF RunPreExecRule
  <2>5. Frozen
    BY <2>3, <2>4 DEF WriteOK, Frozen
  <2>6. QED
    BY <2>4, <2>5, MigratedWrite DEF TypeOK
<1>6. CASE SkipVolumes \/ ReturnToMigrateVolumes \/ MigrateResourcesFinish
  <2> DEFINE allOK == \A r \in Res : local.res[r] \in {"Absent", "Successful"}
             lf == SetStage(local, "Final",
                            IF allOK THEN "Successful" ELSE "PartialSuccess")
  <2>1. \/ stored' = stored
        \/ /\ WriteOK
           /\ stored' \in {SetStage(local, "Applications", "Initial"),
                           SetStage(local, "Final", "Successful"), local, lf}
    BY <1>6 DEF SkipVolumes, ReturnToMigrateVolumes, MigrateResourcesFinish,
                Persist
  <2>2. pc # "idle" /\ UNCHANGED <<exists, dvol>>
    BY <1>6 DEF SkipVolumes, ReturnToMigrateVolumes, MigrateResourcesFinish
  <2>3. stored'.vols = stored.vols
    BY <1>0, <1>c, <2>1, <2>2 DEF TypeOK
  <2>4. Frozen
    BY <2>1, <2>2 DEF WriteOK, Frozen
  <2>5. QED
    BY <2>2, <2>3, <2>4, MigratedWrite DEF TypeOK
<1>7. CASE MigrateVolumesStart
  <2> DEFINE l0 == [local EXCEPT !.stage = "Volumes"]
             l1 == [l0 EXCEPT !.volsRec = TRUE, !.status = "InProgress",
                              !.vols = [v \in Vols |-> "InProgress"]]
  <2>1. pc = "volumes" /\ ~local.volsRec /\ UNCHANGED exists
    BY <1>7 DEF MigrateVolumesStart
  <2>2. \/ stored' = stored
        \/ WriteOK /\ stored' \in {[l0 EXCEPT !.stage = "Initial"], l1}
    BY <1>7 DEF MigrateVolumesStart, Persist
  <2>3. Frozen
    BY <2>1, <2>2 DEF WriteOK, Frozen
  <2>4. VolumesMigrated => Vols = {}
    <3>1. ~stored.volsRec
      BY <2>1 DEF CopyInv
    <3>2. \A v \in Vols : stored.vols[v] = "Idle"
      BY <3>1 DEF StoredInv, VolsConsistent
    <3>3. QED
      BY <3>2 DEF VolumesMigrated
  <2>5. QED
    BY <2>3, <2>4 DEF VolumesMigrated
<1>8. CASE RunPostExecRule
  <2>1. stored' = stored \/ (stored' = FailFinal(local) /\ WriteOK)
    BY <1>8 DEF RunPostExecRule, Persist
  <2>2. stored'.vols = stored.vols /\ UNCHANGED exists
    BY <1>8, <1>0, <1>c, <2>1 DEF RunPostExecRule, TypeOK
  <2>3. \A v \in Vols : dvol[v] = "Successful" => dvol'[v] = "Successful"
    BY <1>8, <1>d DEF RunPostExecRule
  <2>4. Frozen
    BY <2>1, <2>2 DEF WriteOK, Frozen
  <2>5. QED
    BY <2>2, <2>3, <2>4, MigratedWrite DEF TypeOK
<1>9. CASE MigrateVolumesPoll
  <2> DEFINE l1 == IF Vols = {} THEN [local EXCEPT !.stage = "Volumes"]
                   ELSE [local EXCEPT !.stage = "Volumes", !.vols = dvol]
             s1 == IF Vols = {} THEN stored ELSE l1
  <2>1. l1 \in MigrationRec /\ l1.vols \in {local.vols, dvol}
    BY DEF TypeOK, MigrationRec, Stages
  <2>2. \/ stored' = stored
        \/ /\ WriteOK
           /\ stored' \in {l1, FailFinal(l1),
                           SetStage(l1, "Applications", "InProgress")}
    BY <1>9 DEF MigrateVolumesPoll
  <2>3. pc = "volumes" /\ UNCHANGED <<exists, dvol>>
    BY <1>9 DEF MigrateVolumesPoll
  <2>4. stored'.vols \in {stored.vols, dvol}
    <3>1. FailFinal(l1).vols = l1.vols
          /\ SetStage(l1, "Applications", "InProgress").vols = l1.vols
      BY <2>1 DEF FailFinal, SetStage, MigrationRec
    <3>2. QED
      BY <1>c, <2>1, <2>2, <2>3, <3>1
  <2>5. Frozen
    BY <2>2, <2>3 DEF WriteOK, Frozen
  <2>6. QED
    BY <2>3, <2>4, <2>5, MigratedWrite DEF TypeOK
<1>10. CASE MigrateResourcesCollect \/ ApplyResources
  <2>1. \/ stored' = stored
        \/ /\ WriteOK /\ stored'.vols = local.vols
    <3>1. CASE MigrateResourcesCollect
      BY <3>1 DEF MigrateResourcesCollect, TypeOK, MigrationRec
    <3>2. ASSUME NEW bad \in PVs \cap Collected,
                 NEW good \in SUBSET (PVs \cap Collected),
                 PVApplyFailed(bad, good)
          PROVE  stored' = stored \/ (WriteOK /\ stored'.vols = local.vols)
      <4> DEFINE lr == [local EXCEPT !.res = [r \in Res |->
                          IF r = bad THEN "Failed"
                          ELSE IF r \in good THEN "Successful" ELSE local.res[r]]]
      <4>1. lr \in MigrationRec /\ lr.vols = local.vols
        BY DEF TypeOK, MigrationRec, ResStatus, Res
      <4>2. FailFinal(lr).vols = local.vols
        BY <1>0, <4>1
      <4>3. QED
        BY <3>2, <4>2 DEF PVApplyFailed
    <3>3. QED
      BY <1>10, <3>1, <3>2 DEF ApplyResources, ResourcesApplied
  <2>2. pc # "idle" /\ UNCHANGED <<exists, dvol>>
    BY <1>10 DEF MigrateResourcesCollect, ApplyResources
  <2>3. Frozen
    BY <2>1, <2>2 DEF WriteOK, Frozen
  <2>4. QED
    BY <1>c, <2>1, <2>2, <2>3, MigratedWrite DEF TypeOK
<1>11. CASE DriverProgress
  <2>1. \A v \in Vols : dvol[v] = "Successful" => dvol'[v] = "Successful"
    BY <1>11 DEF DriverProgress, TypeOK
  <2>2. QED
    BY <1>11, <2>1, QuietMigrated DEF DriverProgress
<1>12. CASE ObjectGone \/ UNCHANGED vars
  BY <1>12, QuietMigrated DEF ObjectGone, vars
<1>13. QED
  BY <1>1, <1>2, <1>3, <1>4, <1>5, <1>6, <1>7, <1>8, <1>9, <1>10, <1>11,
     <1>12 DEF Next

(* The persisted stage only moves forward, the Initial reset for a pre-exec *)
(* rule apart: every Update of Status.Stage in handle, runPreExecRule,      *)
(* migrateVolumes and migrateResources, for every choice of volumes,        *)
(* objects, flags and StartMigration bound.                                 *)
THEOREM StageProgressHolds == Spec => StageProgress
<1>1. Init => TypeOK /\ StageInv
  BY TypeOKInit, StageInvInit
<1>2. TypeOK /\ StageInv /\ [Next]_vars => (TypeOK /\ StageInv)'
  BY TypeOKStep, StageStep
<1>3. TypeOK /\ StageInv /\ [Next]_vars => [StageMoves]_vars
  <2> SUFFICES ASSUME TypeOK, StageInv, [Next]_vars PROVE StageMoves
    OBVIOUS
  <2>1. MovesTo(stored'.stage) /\ UNCHANGED mspec
    BY StageStep, MspecFixed
  <2>2. QED
    BY <2>1, MovesStep
<1>4. QED
  BY <1>1, <1>2, <1>3, PTL DEF Spec, StageProgress


-----------------------------------------------------------------------------
(* The abstract position of a stage is the one of the stage switch.        *)
LEMMA RankAgrees == \A x \in Stages : ML!Rank(x) = StageRank(x)
BY StageRanks DEF ML!Rank, Stages

(* The initial object is a MigrationLifecycle initial state.               *)
LEMMA LifecycleInit == Init => ML!Init
<1> SUFFICES ASSUME Init PROVE ML!Init
  OBVIOUS
<1>1. mspec \in [Flags -> BOOLEAN]
  BY ConstAssumption DEF Init
<1>2. QED
  BY <1>1 DEF ML!Init, Init, NewMigration, VolumesMigrated, Flags

(* Every step of the controller, the driver or the user is a step of      *)
(* MigrationLifecycle under the mapping, or leaves its variables alone.    *)
LEMMA LifecycleStep ==
    ASSUME TypeOK, StageInv, IInv, IInv', [Next]_vars
    PROVE  [ML!Next]_ML!lvars
<1>1. MovesTo(stored'.stage) /\ UNCHANGED mspec
  BY StageStep, MspecFixed
<1>2. (VolumesMigrated => VolumesMigrated') /\ Frozen
  BY MigratedStep
<1>3. CASE stored'.stage = stored.stage /\ stored'.status = stored.status
  <2>1. CASE VolumesMigrated' <=> VolumesMigrated
    <3>1. VolumesMigrated' = VolumesMigrated
      BY <2>1, Zenon
    <3>2. QED
      BY <1>1, <1>3, <3>1 DEF ML!lvars
  <2>2. CASE ~(VolumesMigrated' <=> VolumesMigrated)
    <3>1. ~VolumesMigrated /\ VolumesMigrated'
      BY <1>2, <2>2, Zenon
    <3>2. ML!VolumesDone
      BY <1>1, <1>3, <3>1 DEF ML!VolumesDone
    <3>3. QED
      BY <3>2 DEF ML!Next
  <2>3. QED
    BY <2>1, <2>2
<1>4. CASE ~(stored'.stage = stored.stage /\ stored'.status = stored.status)
  <2>1. exists'
    BY <1>2, <1>4 DEF Frozen
  <2>2. stored' \in MigrationRec /\ stored \in MigrationRec
    BY DEF IInv, TypeOK
  <2>3. /\ stored'.stage \in Stages /\ stored'.status \in Statuses
        /\ stored.stage \in Stages
    BY <2>2 DEF MigrationRec
  <2>4. \/ ML!Rank(stored'.stage) >= ML!Rank(stored.stage)
        \/ /\ stored'.stage = "Initial" /\ mspec.preExec
           /\ stored.stage \in {"PreExecRule", "Volumes"}
    BY <1>1, <2>3, RankAgrees DEF MovesTo
  <2>5. mspec.incVols /\ Advanced(stored') => VolumesMigrated'
    <3>1. StoredInv(stored)'
      BY DEF IInv
    <3>2. mspec' = mspec
      BY <1>1
    <3>3. QED
      BY <2>1, <3>1, <3>2 DEF StoredInv, VolsConsistent, VolsDone,
         VolumesMigrated
  <2>6. VolumesMigrated' \in {VolumesMigrated, TRUE}
    <3>1. CASE VolumesMigrated'
      BY <3>1, Zenon
    <3>2. CASE ~VolumesMigrated'
      <4>1. ~VolumesMigrated
        BY <1>2, <3>2
      <4>2. VolumesMigrated' = VolumesMigrated
        BY <3>2, <4>1 DEF VolumesMigrated
      <4>3. QED
        BY <4>2
    <3>3. QED
      BY <3>1, <3>2
  <2>7. /\ mspec.incVols /\ (stored'.stage = "Applications"
                             \/ stored'.status \in {"Successful", "PartialSuccess"})
           => VolumesMigrated'
        /\ mspec'.preExec = mspec.preExec /\ mspec'.incVols = mspec.incVols
    BY <1>1, <2>5 DEF Advanced
  <2>8. ML!Write(stored'.stage, stored'.status)
    BY <2>4, <2>6, <2>7 DEF ML!Write
  <2>9. QED
    BY <2>3, <2>8 DEF ML!Next, ML!Stages, ML!Statuses, Stages, Statuses
<1>5. QED
  BY <1>3, <1>4

(* The controller implements MigrationLifecycle: the stage written by      *)
(* handle, runPreExecRule, migrateVolumes and migrateResources only moves  *)
(* forward (or resets to Initial for a pre-exec rule), and with volumes    *)
(* included no Update reaches Applications, Successful or PartialSuccess   *)
(* before every volume the driver reports is Successful in the object;     *)
(* for every choice of the constants.                                      *)
THEOREM MigrationLifecycleRefinement == Spec => MigrationLifecycleRefined
<1>1. Init => IInv /\ StageInv
  BY IInvInit, StageInvInit
<1>2. IInv /\ StageInv /\ [Next]_vars => (IInv /\ StageInv)'
  BY IInvStep, StageStep DEF IInv
<1>3. IInv /\ StageInv /\ [Next]_vars /\ IInv' => [ML!Next]_ML!lvars
  BY LifecycleStep DEF IInv
<1>4. Init => ML!Init
  BY LifecycleInit
<1>5. QED
  BY <1>1, <1>2, <1>3, <1>4, IInvStep, PTL
     DEF Spec, MigrationLifecycleRefined, ML!Spec

=============================================================================
