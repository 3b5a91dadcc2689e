CONSTANTS
    v1 = v1
    v2 = v2
    pv1 = pv1
    pvc1 = pvc1
    app1 = app1
    Vols <- MCVols
    PVs <- MCPVs
    PVCs <- MCPVCs
    Apps <- MCApps
    MigSpecs <- MCMigSpecs
    MaxStarts = 2

SPECIFICATION Spec
INVARIANT RuleReleasedOnReturn
