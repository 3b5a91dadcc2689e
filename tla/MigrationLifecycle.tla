-------------------------- MODULE MigrationLifecycle --------------------------
(***************************************************************************)
(* What a Migration object promises the operator who watches its status:   *)
(* the persisted stage moves through Initial, PreExecRule, Volumes,         *)
(* Applications and Final and never regresses, except for the reset to     *)
(* Initial that re-runs a configured pre-exec rule; and when volumes are   *)
(* included, the object reaches Applications, or reports Successful or     *)
(* PartialSuccess, only once the volume migration has finished             *)
(* successfully, which once true stays true.  The status may change at any *)
(* write, within these rules.                                              *)
(***************************************************************************)
EXTENDS Naturals

VARIABLES
    preExec,   \* a pre-exec rule is configured (never changes)
    incVols,   \* IncludeVolumes (never changes)
    stage,     \* Status.Stage
    status,    \* Status.Status
    volsDone   \* every volume has been migrated and is recorded as such

lvars == <<preExec, incVols, stage, status, volsDone>>

Stages   == {"Initial", "PreExecRule", "Volumes", "Applications", "Final"}
Statuses == {"Initial", "Pending", "InProgress", "Successful", "Failed",
             "PartialSuccess"}

(* The position of a stage in the workflow.                                 *)
Rank(s) ==
    IF s = "Initial" THEN 0 ELSE IF s = "PreExecRule" THEN 1
    ELSE IF s = "Volumes" THEN 2 ELSE IF s = "Applications" THEN 3 ELSE 4

Init ==
    /\ preExec \in BOOLEAN /\ incVols \in BOOLEAN
    /\ stage = "Initial" /\ status = "Initial"
    /\ volsDone \in BOOLEAN

(* The volume migration finishes and is recorded.                           *)
VolumesDone ==
    /\ ~volsDone /\ volsDone' = TRUE
    /\ UNCHANGED <<preExec, incVols, stage, status>>

(* A status write: forward, or the pre-exec reset; past the volume stage    *)
(* only once the volumes are done.                                          *)
Write(s, t) ==
    /\ \/ Rank(s) >= Rank(stage)
       \/ s = "Initial" /\ preExec /\ stage \in {"PreExecRule", "Volumes"}
    /\ volsDone' \in {volsDone, TRUE}
    /\ incVols /\ (s = "Applications" \/ t \in {"Successful", "PartialSuccess"})
         => volsDone'
    /\ stage' = s /\ status' = t
    /\ UNCHANGED <<preExec, incVols>>

Next == VolumesDone \/ \E s \in Stages, t \in Statuses : Write(s, t)

Spec == Init /\ [][Next]_lvars
=============================================================================
