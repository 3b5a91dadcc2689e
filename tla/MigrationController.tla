------------------------- MODULE MigrationController -------------------------
(***************************************************************************)
(* The Migration reconciler of pkg/migration/controllers/migration.go.     *)
(*                                                                         *)
(* One Migration object is reconciled by one controller goroutine at a     *)
(* time (controller-runtime serialises reconciles of a key).  The object   *)
(* lives in the API server ("stored"); a reconcile works on the copy it    *)
(* read ("local") and persists it with updateMigrationCR, an Update that   *)
(* can fail (a conflict with another writer, or the user deleting the      *)
(* object, which bumps its resourceVersion).  After a failed Update every  *)
(* code path returns, and the next reconcile starts again from "stored".   *)
(*                                                                         *)
(* A reconcile is cut into steps at its calls to other systems (rule       *)
(* engine, volume driver, destination cluster, status Update); "pc" says   *)
(* which step the reconcile goroutine is at.  Between steps the driver     *)
(* progresses and the user may delete the object.  Results of external    *)
(* reads (cluster-pair readiness, domain state, remote activation) are     *)
(* nondeterministic.  Per-resource apply outcomes are abstracted here;     *)
(* the worker pool behind them is the ApplyEngine module, which refines *)
(* ApplyOutcome, the contract ApplyResources uses here.                   *)
(***************************************************************************)
EXTENDS Naturals

CONSTANTS
    Vols,       \* the volumes the driver migrates for the namespaces
    PVs,        \* collected PersistentVolume objects
    PVCs,       \* collected PersistentVolumeClaim objects
    Apps,       \* every other collected object
    MigSpecs,   \* the Migration specs (feature flags) considered
    MaxStarts   \* bound on StartMigration calls the model lets happen

Res == PVs \cup PVCs \cup Apps

Flags == {"preExec", "postExec", "incVols", "incRes", "purge",
          "scheduled", "skipDeletedNs"}

ASSUME ConstAssumption ==
    /\ PVs \cap PVCs = {} /\ PVs \cap Apps = {} /\ PVCs \cap Apps = {}
    /\ MigSpecs # {}
    /\ MigSpecs \subseteq [Flags -> BOOLEAN]
    /\ MaxStarts \in Nat \ {0}

Stages   == {"Initial", "PreExecRule", "Volumes", "Applications", "Final"}
Statuses == {"Initial", "Pending", "InProgress", "Successful", "Failed",
             "PartialSuccess"}
VolStatus == {"Idle", "InProgress", "Successful", "Failed"}
ResStatus == {"Absent", "InProgress", "Successful", "Failed"}
Terminal  == {"Successful", "Failed", "PartialSuccess"}

(* A Migration object: Status.Stage, Status.Status, Status.Volumes (volsRec *)
(* is FALSE while it is nil), Status.Resources, the cleanup finalizer and   *)
(* the deletion timestamp.                                                  *)
MigrationRec ==
    [stage : Stages, status : Statuses, volsRec : BOOLEAN,
     vols : [Vols -> VolStatus], res : [Res -> ResStatus],
     fin : BOOLEAN, del : BOOLEAN]

PCs == {"idle", "initial", "preexec", "volumes", "postexec", "resources",
        "apply", "repair", "return"}
Callers == {"handle", "volumes", "volumesOnly"}

VARIABLES
    mspec,     \* Migration.Spec after setDefaults (never changed)
    exists,    \* the object is in the API server
    stored,    \* the object as persisted
    local,     \* the reconcile's in-memory copy
    pc,        \* step of the reconcile goroutine
    caller,    \* who called migrateResources
    started,   \* StartMigration calls that succeeded
    dvol,      \* volume status as the driver knows it ("Idle": not started)
    ruleHeld,  \* a pre-exec rule ran and its termination channels are unsignalled
    postFailed \* history: a post-exec rule failed after volumes were started

vars == <<mspec, exists, stored, local, pc, caller, started, dvol, ruleHeld,
          postFailed>>

NewMigration ==
    [stage |-> "Initial", status |-> "Initial", volsRec |-> FALSE,
     vols |-> [v \in Vols |-> "Idle"], res |-> [r \in Res |-> "Absent"],
     fin |-> FALSE, del |-> FALSE]

-----------------------------------------------------------------------------
(* updateMigrationCR / client.Update of the copy read by this reconcile.    *)
(* It can succeed only while the object still exists and has not been      *)
(* marked for deletion since it was read; it may always fail.               *)
WriteOK == exists /\ ~stored.del

Persist(ok, rec) == stored' = IF ok THEN rec ELSE stored

(* The reconcile returns: the in-memory copy is dropped.                    *)
Return == pc' = "idle" /\ local' = NewMigration /\ caller' = "handle"

(* Mutant: stage and status assigned the other way round.                   *)
SetStageSwapped(rec, stg, sts) == [rec EXCEPT !.stage = sts, !.status = stg]

SetStage(rec, stg, sts) == [rec EXCEPT !.stage = stg, !.status = sts]

FailFinal(rec) == SetStage(rec, "Final", "Failed")

(* What CancelMigration does to the driver: volumes in flight fail.         *)
Cancelled == [v \in Vols |-> IF dvol[v] = "InProgress" THEN "Failed" ELSE dvol[v]]

Init ==
    /\ mspec \in MigSpecs
    /\ exists = TRUE
    /\ stored = NewMigration
    /\ local = NewMigration
    /\ pc = "idle"
    /\ caller = "handle"
    /\ started = 0
    /\ dvol = [v \in Vols |-> "Idle"]
    /\ ruleHeld = FALSE
    /\ postFailed = FALSE

-----------------------------------------------------------------------------
(* Reconcile: the first reconcile of an object only adds the finalizer.     *)
AddFinalizer ==
    /\ pc = "idle" /\ exists /\ ~stored.fin
    /\ \E ok \in BOOLEAN :
         /\ ok => WriteOK
         /\ Persist(ok, [stored EXCEPT !.fin = TRUE])
    /\ UNCHANGED <<mspec, exists, local, pc, caller, started, dvol, ruleHeld,
                   postFailed>>

(* handle, deletion path, with cleanup: CancelMigration unless the stage is *)
(* Final (its error is only logged), then the finalizer is removed; once    *)
(* that Update succeeds the API server deletes the object.                  *)
HandleDeletion ==
    /\ pc = "idle" /\ exists /\ stored.del /\ stored.fin
    /\ \E cancelOK, ok \in BOOLEAN :
         /\ dvol' = IF stored.stage # "Final" /\ cancelOK THEN Cancelled ELSE dvol
         /\ exists' = ~ok
         /\ stored' = IF ok THEN [stored EXCEPT !.fin = FALSE] ELSE stored
    /\ UNCHANGED <<mspec, local, pc, caller, started, ruleHeld, postFailed>>

(* handle: a scheduled migration whose applications are already active on  *)
(* the destination is failed (the Update error is only logged).             *)
HandleAutoSuspend ==
    /\ pc = "idle" /\ exists /\ stored.fin /\ ~stored.del
    /\ mspec.scheduled /\ stored.stage # "Final"
    /\ \E ok \in BOOLEAN :
         /\ ok => WriteOK
         /\ Persist(ok, FailFinal(stored))
    /\ UNCHANGED <<mspec, exists, local, pc, caller, started, dvol, ruleHeld,
                   postFailed>>

(* handle: a volume-less migration from an inactive local cluster domain    *)
(* is failed.                                                               *)
HandleDomainInactive ==
    /\ pc = "idle" /\ exists /\ stored.fin /\ ~stored.del
    /\ ~mspec.incVols /\ stored.stage # "Final"
    /\ \E ok \in BOOLEAN :
         /\ ok => WriteOK
         /\ Persist(ok, FailFinal(stored))
    /\ UNCHANGED <<mspec, exists, local, pc, caller, started, dvol, ruleHeld,
                   postFailed>>

(* handle: the checks passed; dispatch on the stored stage (the switch).    *)
(* Stage Final returns at once, which is a stuttering step.                 *)
HandleBegin ==
    /\ pc = "idle" /\ exists /\ stored.fin /\ ~stored.del
    /\ stored.stage # "Final"
    /\ local' = stored
    /\ pc' = CASE stored.stage = "Initial"      -> "initial"
               [] stored.stage = "PreExecRule"  -> "preexec"
               [] stored.stage = "Volumes"      -> "volumes"
               [] stored.stage = "Applications" -> "resources"
    /\ caller' = "handle"
    /\ UNCHANGED <<mspec, exists, stored, started, dvol, ruleHeld, postFailed>>

(* handle, stage Initial: namespaces, transform spec and rules must exist.  *)
(* A deleted namespace fails the migration unless SkipDeletedNamespaces;    *)
(* a missing transform or rule only returns (retried next time).          *)
CheckInitialStage ==
    /\ pc = "initial"
    /\ \/ /\ pc' = "preexec"
          /\ UNCHANGED <<stored, local, caller>>
       \/ /\ ~mspec.skipDeletedNs
          /\ \E ok \in BOOLEAN :
               /\ ok => WriteOK
               /\ Persist(ok, FailFinal(local))
          /\ Return
       \/ /\ Return
          /\ UNCHANGED stored
    /\ UNCHANGED <<mspec, exists, started, dvol, ruleHeld, postFailed>>

(* handle, stage PreExecRule, with runPreExecRule.  Without a rule the      *)
(* stage moves to Volumes/Pending.  With one, Initial becomes PreExecRule/  *)
(* Pending, Pending becomes InProgress (persisted) and the rule is executed  *)
(* in every namespace; a stored InProgress only logs "Waiting for           *)
(* PreExecRule" and falls through to the volume stage.  Any error (an       *)
(* Update, GetRule or ExecuteRule) resets the copy to Initial/Initial,      *)
(* persists it and returns; a failed ExecuteRule first signals the          *)
(* termination channels of the namespaces already done.  (Stage            *)
(* PreExecRule is only persisted with status InProgress, so the path that   *)
(* executes the rule without the Pending-to-InProgress Update is dead.)     *)
PreExecErrorPath(rec) ==
    /\ \E ok \in BOOLEAN :
         /\ ok => WriteOK
         /\ Persist(ok, SetStage(rec, "Initial", "Initial"))
    /\ Return

RunPreExecRule ==
    /\ pc = "preexec"
    /\ \/ /\ ~mspec.preExec
          /\ LET l == SetStage(local, "Volumes", "Pending") IN
             \E ok \in BOOLEAN :
               \/ /\ ok /\ WriteOK
                  /\ Persist(ok, l)
                  /\ local' = l /\ pc' = "volumes"
                  /\ UNCHANGED caller
               \/ /\ ~ok
                  /\ PreExecErrorPath(l)
          /\ UNCHANGED ruleHeld
       \/ /\ mspec.preExec
          /\ LET l1 == IF local.stage = "Initial"
                       THEN SetStage(local, "PreExecRule", "Pending")
                       ELSE local
                 l2 == [l1 EXCEPT !.status = "InProgress"]
             IN  \/ /\ l1.status = "InProgress"
                    /\ pc' = "volumes"
                    /\ UNCHANGED <<stored, local, caller, ruleHeld>>
                 \/ /\ l1.status = "Pending"
                    /\ \E ok, ruleOK \in BOOLEAN :
                         \/ /\ ok /\ WriteOK /\ ruleOK
                            /\ Persist(ok, l2)
                            /\ local' = l2 /\ pc' = "volumes" /\ ruleHeld' = TRUE
                            /\ UNCHANGED caller
                         \/ /\ ok /\ WriteOK /\ ~ruleOK
                            /\ \E ok2 \in BOOLEAN :
                                 stored' = IF ok2 THEN SetStage(l2, "Initial", "Initial")
                                                  ELSE l2
                            /\ Return /\ ruleHeld' = FALSE
                         \/ /\ ~ok
                            /\ PreExecErrorPath(l2)
                            /\ UNCHANGED ruleHeld
    /\ UNCHANGED <<mspec, exists, started, dvol, postFailed>>

(* handle, stage Volumes with IncludeVolumes false: move to Applications     *)
(* and return; the termination channels of a pre-exec rule run in this      *)
(* reconcile are never signalled on this path.                             *)
SkipVolumes ==
    /\ pc = "volumes" /\ ~mspec.incVols
    /\ \E ok \in BOOLEAN :
         /\ ok => WriteOK
         /\ Persist(ok, SetStage(local, "Applications", "Initial"))
    /\ Return
    /\ UNCHANGED <<mspec, exists, started, dvol, ruleHeld, postFailed>>

(* migrateVolumes, first entry (Status.Volumes is nil).  The cluster pair's *)
(* storage must be Ready, else the stage is reset to Initial when a         *)
(* pre-exec rule is configured.  StartMigration, record the volumes,        *)
(* persist, signal the rule's termination channels; then the post-exec      *)
(* rule runs.  Every return signals the channels (the deferred function).  *)
(* Mutant: the reset to Initial taken without a pre-exec rule.             *)
StorageNotReadyResetsAlways == TRUE

StorageNotReadyResets == mspec.preExec

MigrateVolumesStart ==
    /\ pc = "volumes" /\ mspec.incVols /\ ~local.volsRec
    /\ LET l0 == [local EXCEPT !.stage = "Volumes"]
           l1 == [l0 EXCEPT !.volsRec = TRUE, !.status = "InProgress",
                            !.vols = [v \in Vols |-> "InProgress"]]
       IN \/ /\ StorageNotReadyResets   \* storage not ready, rule configured
             /\ \E ok \in BOOLEAN :
                  /\ ok => WriteOK
                  /\ Persist(ok, [l0 EXCEPT !.stage = "Initial"])
             /\ Return
             /\ UNCHANGED <<started, dvol>>
          \/ /\ Return                 \* storage not ready, or StartMigration failed
             /\ UNCHANGED <<stored, started, dvol>>
          \/ /\ started < MaxStarts
             /\ started' = started + 1
             /\ dvol' = [v \in Vols |-> "InProgress"]
             /\ \E ok \in BOOLEAN :
                  \/ /\ ok /\ WriteOK
                     /\ Persist(ok, l1)
                     /\ local' = l1
                     /\ pc' = IF mspec.postExec THEN "postexec" ELSE "volumes"
                     /\ UNCHANGED caller
                  \/ /\ ~ok
                     /\ Return
                     /\ UNCHANGED stored
    /\ ruleHeld' = FALSE
    /\ UNCHANGED <<mspec, exists, postFailed>>

(* migrateVolumes, runPostExecRule after the trigger.  On failure the       *)
(* driver migration is cancelled (an error is only logged) and the          *)
(* migration is failed.                                                     *)
RunPostExecRule ==
    /\ pc = "postexec"
    /\ \/ /\ pc' = "volumes"
          /\ UNCHANGED <<stored, local, caller, dvol, postFailed>>
       \/ /\ \E cancelOK, ok \in BOOLEAN :
               /\ dvol' = IF cancelOK THEN Cancelled ELSE dvol
               /\ ok => WriteOK
               /\ Persist(ok, FailFinal(local))
          /\ postFailed' = TRUE
          /\ Return
    /\ UNCHANGED <<mspec, exists, started, ruleHeld>>

(* migrateVolumes, status check: GetMigrationStatus, persist the refreshed  *)
(* list, then scan it.  A volume in progress returns (the Final/Failed set  *)
(* for a failed volume in the same scan is not persisted).  Otherwise a     *)
(* failed volume fails the migration; with IncludeResources the stage       *)
(* moves to Applications and migrateResources is called at once; without,   *)
(* migrateResources runs in volumes-only mode.  No volumes: no poll.        *)
(* Mutant: the scan does not stop at a volume still in progress.           *)
AnyVolumeInProgressIgnored(vs) == FALSE

AnyVolumeInProgress(vs) == \E v \in Vols : vs[v] = "InProgress"

AnyVolumeFailed(vs) == \E v \in Vols : vs[v] = "Failed"

MigrateVolumesPoll ==
    /\ pc = "volumes" /\ mspec.incVols /\ local.volsRec
    /\ LET l1 == IF Vols = {} THEN [local EXCEPT !.stage = "Volumes"]
                 ELSE [local EXCEPT !.stage = "Volumes", !.vols = dvol]
           s1 == IF Vols = {} THEN stored ELSE l1
           inProgress == AnyVolumeInProgress(l1.vols)
           failed == AnyVolumeFailed(l1.vols)
           l3 == SetStage(l1, "Applications", "InProgress")
       IN \/ /\ Vols # {}              \* GetMigrationStatus or Update failed
             /\ Return
             /\ UNCHANGED stored
          \/ /\ Vols # {} => WriteOK
             /\ inProgress
             /\ stored' = s1
             /\ Return
          \/ /\ Vols # {} => WriteOK
             /\ ~inProgress /\ failed
             /\ \E ok \in BOOLEAN :
                  /\ ok => WriteOK
                  /\ stored' = IF ok THEN FailFinal(l1) ELSE s1
             /\ Return
          \/ /\ Vols # {} => WriteOK
             /\ ~inProgress /\ ~failed /\ mspec.incRes
             /\ \E ok \in BOOLEAN :
                  \/ /\ ok /\ WriteOK
                     /\ stored' = l3
                     /\ local' = l3 /\ pc' = "resources" /\ caller' = "volumes"
                  \/ /\ ~ok
                     /\ stored' = s1
                     /\ Return
          \/ /\ Vols # {} => WriteOK
             /\ ~inProgress /\ ~failed /\ ~mspec.incRes
             /\ stored' = s1
             /\ local' = l1 /\ pc' = "resources" /\ caller' = "volumesOnly"
    /\ ruleHeld' = FALSE
    /\ UNCHANGED <<mspec, exists, started, dvol, postFailed>>

-----------------------------------------------------------------------------
(* migrateResources.  volumesOnly: called from migrateVolumes without       *)
(* IncludeResources, or from handle with IncludeResources false.            *)
VolumesOnly == caller = "volumesOnly" \/ (caller = "handle" /\ ~mspec.incRes)

Collected == IF VolumesOnly THEN PVs \cup PVCs ELSE Res

(* The scheduler of the cluster pair (and admin pair) must be Ready and the *)
(* collector must succeed; then one InProgress entry per collected object   *)
(* is persisted before anything is applied.                                 *)
MigrateResourcesCollect ==
    /\ pc = "resources"
    /\ LET l == [local EXCEPT !.res = [r \in Res |->
                                IF r \in Collected THEN "InProgress" ELSE "Absent"]]
       IN \/ /\ Return
             /\ UNCHANGED stored
          \/ /\ WriteOK
             /\ stored' = l
             /\ local' = l /\ pc' = "apply"
             /\ UNCHANGED caller
    /\ UNCHANGED <<mspec, exists, started, dvol, ruleHeld, postFailed>>

(* prepareResources and applyResources.  A PersistentVolume that can be     *)
(* neither created nor updated fails it and the whole migration, which is   *)
(* persisted, and applyResources returns that Update's result: the PVs      *)
(* before it are done, nothing after it is applied.  Otherwise every        *)
(* object ends Successful or Failed (PV/PVC sequence, worker pool).         *)
PVApplyFailed(bad, good) ==
    LET l == FailFinal([local EXCEPT !.res = [r \in Res |->
                 IF r = bad THEN "Failed"
                 ELSE IF r \in good THEN "Successful" ELSE local.res[r]]])
    IN  \E ok \in BOOLEAN :
          \/ /\ ok /\ WriteOK
             /\ stored' = l
             /\ local' = l /\ pc' = "repair"
          \/ /\ ~ok
             /\ Return
             /\ UNCHANGED stored

ResourcesApplied(out) ==
    /\ local' = [local EXCEPT !.res = [r \in Res |->
                    IF r \in Collected THEN out[r] ELSE local.res[r]]]
    /\ pc' = "repair"
    /\ UNCHANGED stored

ApplyResources ==
    /\ pc = "apply"
    /\ \/ /\ Return                    \* crd list, prepare, clients, namespaces
          /\ UNCHANGED stored
       \/ \E bad \in PVs \cap Collected, good \in SUBSET (PVs \cap Collected) :
            /\ bad \notin good
            /\ PVApplyFailed(bad, good)
       \/ \E out \in [Collected -> {"Successful", "Failed"}] :
            ResourcesApplied(out)
    /\ UNCHANGED <<mspec, exists, caller, started, dvol, ruleHeld, postFailed>>

(* updateOwnerReferenceOnPVC and updateStorageClassOnPV, then stage Final   *)
(* with Successful, or PartialSuccess when some resource entry is not       *)
(* Successful; purgeMigratedResources when PurgeDeletedResources (a purge   *)
(* error returns nil without persisting); then the Update.                  *)
MigrateResourcesFinish ==
    /\ pc = "repair"
    /\ LET allOK == \A r \in Res : local.res[r] \in {"Absent", "Successful"}
           l == SetStage(local, "Final", IF allOK THEN "Successful" ELSE "PartialSuccess")
           next == IF caller = "handle" THEN "idle" ELSE "return"
       IN \/ /\ Return                 \* owner reference or storage class error
             /\ UNCHANGED stored
          \/ /\ mspec.purge            \* purge failed
             /\ pc' = next /\ local' = IF next = "idle" THEN NewMigration ELSE l
             /\ UNCHANGED <<stored, caller>>
          \/ \E ok \in BOOLEAN :
               \/ /\ ok /\ WriteOK
                  /\ stored' = l
                  /\ pc' = next /\ local' = IF next = "idle" THEN NewMigration ELSE l
                  /\ UNCHANGED caller
               \/ /\ ~ok
                  /\ Return
                  /\ UNCHANGED stored
    /\ UNCHANGED <<mspec, exists, started, dvol, ruleHeld, postFailed>>

(* Back in migrateVolumes after migrateResources returned nil: in           *)
(* volumes-only mode the migration is marked Final/Successful; either way  *)
(* it is persisted.                                                         *)
ReturnToMigrateVolumes ==
    /\ pc = "return"
    /\ \E ok \in BOOLEAN :
         /\ ok => WriteOK
         /\ Persist(ok, IF caller = "volumesOnly"
                        THEN SetStage(local, "Final", "Successful") ELSE local)
    /\ Return
    /\ UNCHANGED <<mspec, exists, started, dvol, ruleHeld, postFailed>>

-----------------------------------------------------------------------------
(* The environment: the driver finishes a volume, the user deletes the      *)
(* object (without a finalizer the API server removes it at once).          *)
DriverProgress ==
    /\ \E v \in Vols, s \in {"Successful", "Failed"} :
         /\ dvol[v] = "InProgress"
         /\ dvol' = [dvol EXCEPT ![v] = s]
    /\ UNCHANGED <<mspec, exists, stored, local, pc, caller, started, ruleHeld,
                   postFailed>>

UserDelete ==
    /\ exists /\ ~stored.del
    /\ IF stored.fin
       THEN stored' = [stored EXCEPT !.del = TRUE] /\ UNCHANGED exists
       ELSE exists' = FALSE /\ UNCHANGED stored
    /\ UNCHANGED <<mspec, local, pc, caller, started, dvol, ruleHeld, postFailed>>

(* Reconcile of a deleted object: Get returns NotFound, nothing is requeued. *)
ObjectGone ==
    /\ ~exists
    /\ UNCHANGED vars

Next ==
    \/ AddFinalizer \/ HandleDeletion \/ HandleAutoSuspend
    \/ HandleDomainInactive \/ HandleBegin \/ CheckInitialStage
    \/ RunPreExecRule \/ SkipVolumes \/ MigrateVolumesStart \/ RunPostExecRule
    \/ MigrateVolumesPoll \/ MigrateResourcesCollect \/ ApplyResources
    \/ MigrateResourcesFinish \/ ReturnToMigrateVolumes
    \/ DriverProgress \/ UserDelete \/ ObjectGone

Spec == Init /\ [][Next]_vars

-----------------------------------------------------------------------------
TypeOK ==
    /\ mspec \in [Flags -> BOOLEAN]
    /\ exists \in BOOLEAN
    /\ stored \in MigrationRec
    /\ local \in MigrationRec
    /\ pc \in PCs
    /\ caller \in Callers
    /\ started \in 0..MaxStarts
    /\ dvol \in [Vols -> VolStatus]
    /\ ruleHeld \in BOOLEAN
    /\ postFailed \in BOOLEAN

-----------------------------------------------------------------------------
StageRank(stg) ==
    CASE stg = "Initial" -> 0 [] stg = "PreExecRule" -> 1 [] stg = "Volumes" -> 2
      [] stg = "Applications" -> 3 [] stg = "Final" -> 4

(* The persisted stage only moves forward (so Final is never left); the one *)
(* way back is handle's and migrateVolumes' reset to Initial, taken only    *)
(* when a pre-exec rule is configured, from PreExecRule or Volumes, so that *)
(* the rule runs again.  This is about every Update of Status.Stage in      *)
(* handle, runPreExecRule, migrateVolumes and migrateResources.             *)
StageMoves ==
    exists /\ exists' =>
       \/ StageRank(stored'.stage) >= StageRank(stored.stage)
       \/ /\ stored'.stage = "Initial" /\ mspec.preExec
          /\ stored.stage \in {"PreExecRule", "Volumes"}

StageProgress == [][StageMoves]_vars

(* Resources are migrated, and a migration reported Successful or           *)
(* PartialSuccess, only once the driver has finished every volume           *)
(* successfully and the persisted volume list says so: the scan of          *)
(* migrateVolumes must not advance while a volume is in progress or after   *)
(* one failed, and the list it persisted must not be stale.                 *)
ResourcesAfterVolumes ==
    (exists /\ mspec.incVols
       /\ (stored.stage = "Applications" \/ stored.status \in {"Successful", "PartialSuccess"}))
      => \A v \in Vols : dvol[v] = "Successful" /\ stored.vols[v] = "Successful"

(* With a pre-exec rule configured, StartMigration is only called while the *)
(* rule run by this reconcile is still in force (its termination channels   *)
(* not yet signalled): volumes are snapshotted with the application         *)
(* quiesced, as the staged workflow (pre-exec rule, then volumes) intends.  *)
PreExecRuleHeldAtStart ==
    [][started' > started => (mspec.preExec => ruleHeld)]_vars

(* Once a migration is persisted in stage Final its status never changes:   *)
(* Failed, Successful and PartialSuccess are final verdicts.                *)
FinalStatusStable ==
    [][exists /\ exists' /\ stored.stage = "Final" => stored'.status = stored.status]_vars

(* A post-exec rule failure after the volumes were triggered is fatal: the  *)
(* migration never ends Successful (spec: cancel, Failed/Final).            *)
PostExecFailureFatal ==
    postFailed => stored.status # "Successful"

(* Every reconcile that ran a pre-exec rule terminates the rule's           *)
(* background processes before it returns (spec: "Immediately terminate     *)
(* any background pre-exec-rule processes"; migrateVolumes signals the      *)
(* termination channels on every return).                                  *)
RuleReleasedOnReturn ==
    pc = "idle" => ~ruleHeld

(* StartMigration is called once per migration: a retried reconcile does   *)
(* not trigger a second volume migration.                                   *)
StartMigrationOnce ==
    started <= 1


(* The reconciler implements the Migration lifecycle: the flags, the        *)
(* persisted stage and status, and whether the persisted volume list and    *)
(* the driver agree that every volume is Successful.                        *)
VolumesMigrated ==
    \A v \in Vols : dvol[v] = "Successful" /\ stored.vols[v] = "Successful"

ML == INSTANCE MigrationLifecycle
        WITH preExec <- mspec.preExec, incVols <- mspec.incVols,
             stage <- stored.stage, status <- stored.status,
             volsDone <- VolumesMigrated

(* The persisted stage never regresses but for the pre-exec reset, and     *)
(* Applications, Successful or PartialSuccess are only reported once the   *)
(* volumes are migrated and recorded, which is never undone: every Update   *)
(* of handle, runPreExecRule, migrateVolumes and migrateResources, and      *)
(* every driver step, is a step of MigrationLifecycle.                      *)
MigrationLifecycleRefined == ML!Spec

-----------------------------------------------------------------------------
(* The inductive strengthening of ResourcesAfterVolumes used by the proof. *)
(* Advanced(rec): the object says the volume stage is over.                 *)
Advanced(rec) ==
    rec.stage = "Applications" \/ rec.status \in {"Successful", "PartialSuccess"}

VolsDone(rec) == \A v \in Vols : rec.vols[v] = "Successful"

EarlyStage(rec) == rec.stage \in {"Initial", "PreExecRule", "Volumes"}

(* A recorded volume list is a list the driver returned: nil is all Idle,   *)
(* a recorded list means the driver was started, and a volume recorded as  *)
(* Successful is Successful at the driver.                                  *)
VolsConsistent(rec) ==
    /\ ~rec.volsRec => \A v \in Vols : rec.vols[v] = "Idle"
    /\ rec.volsRec => \A v \in Vols : dvol[v] # "Idle"
    /\ \A v \in Vols : rec.vols[v] = "Successful" => dvol[v] = "Successful"

(* What holds of the persisted object in every state.                      *)
StoredInv(rec) ==
    /\ VolsConsistent(rec)
    /\ EarlyStage(rec) => ~Advanced(rec)
    /\ (exists /\ mspec.incVols /\ Advanced(rec)) => VolsDone(rec)

(* What holds of the reconcile's copy: it has the persisted volume list,    *)
(* it is in an early stage while the reconcile is before the volume scan,   *)
(* an early stage never carries a final verdict, and its volumes are done   *)
(* once the reconcile is past the scan.                                     *)
EarlyPCs == {"initial", "preexec", "volumes", "postexec"}
LatePCs == {"resources", "apply", "repair", "return"}

CopyInv ==
    /\ VolsConsistent(local)
    /\ pc # "idle" => local.vols = stored.vols /\ local.volsRec = stored.volsRec
    /\ pc \in EarlyPCs => EarlyStage(local)
    /\ EarlyStage(local) => ~Advanced(local)
    /\ (pc \in LatePCs /\ mspec.incVols) => VolsDone(local)

IInv == TypeOK /\ StoredInv(stored) /\ CopyInv

(* The invariant the proof of StageProgress rests on: what the stored stage *)
(* can be at each step of a reconcile, so that every Update the step makes  *)
(* moves it forward.  Stage PreExecRule is only persisted when a rule is    *)
(* configured; before the volume stage the copy still has the stored stage; *)
(* up to the volume stage the stored stage is early; after it, the copy's   *)
(* stage is at least the stored one.                                        *)
StageInv ==
    /\ ~mspec.preExec => stored.stage # "PreExecRule"
    /\ pc \in {"initial", "preexec"} =>
         /\ local.stage = stored.stage
         /\ local.stage \in {"Initial", "PreExecRule"}
    /\ pc \in EarlyPCs => EarlyStage(stored)
    /\ pc \in LatePCs =>
         /\ local.stage \in {"Volumes", "Applications", "Final"}
         /\ StageRank(local.stage) >= StageRank(stored.stage)

=============================================================================
