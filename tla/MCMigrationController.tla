------------------------ MODULE MCMigrationController ------------------------
(* Model-checking instance of MigrationController: two volumes, one PV, one  *)
(* PVC and one other object, every combination of the spec's flags.         *)
EXTENDS MigrationController

CONSTANTS v1, v2, pv1, pvc1, app1

MCVols == {v1, v2}
MCPVs == {pv1}
MCPVCs == {pvc1}
MCApps == {app1}
MCMigSpecs == [Flags -> BOOLEAN]
=============================================================================
