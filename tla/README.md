# Formal model of the Stork Migration controller

This directory holds a TLA+ model of the Migration reconciler in
`src/pkg/migration/controllers/migration.go`. It contains:

- the model itself;
- the TLC runs that check the model on small instances;
- an abstract specification, `MigrationLifecycle`, of what the stored stage and status promise;
- TLAPS proofs, for every instance, of type correctness and the safety properties of both components, and of both refinements: the reconciler implements `MigrationLifecycle`, and the apply engine implements its abstract contract `ApplyOutcome`.

`PROJECT.json` records the same information in machine-readable form: components, runs, mutants, the definition-to-source map, findings, hazards and theorems.

## 1. The system

`migration.go` is the only real implementation under `src/`. The other files under `src/` are:

- tests;
- a generated lister;
- a stub cobra command;
- two vendored helpers.

The controller drives one `Migration` object through the following stages:

`Initial → PreExecRule → Volumes → Applications → Final`

Each step persists the object with `updateMigrationCR`, which is a Kubernetes `Update`. The controller talks to these parties:

| Party | Calls |
|---|---|
| API server | `Get`, `Update`, the deletion timestamp and finalizers |
| Rule engine | `ExecuteRule` for the pre-exec and post-exec rules. A pre-exec rule leaves background processes running until its termination channels are signalled. |
| Volume driver | `StartMigration`, `GetMigrationStatus`, `CancelMigration` |
| Destination cluster | Resource apply, owner-reference and storage-class repair, and purge |
| Remote MigrationSchedule | Auto-suspend |
| Cluster-domain status | Domain-inactive handling |

Reconciles of one object are serialised by controller-runtime. After any error, the next reconcile starts again from whatever was persisted.

### Inventory

| Part | Code (migration.go) | Status |
|---|---|---|
| `Reconcile`: get, finalizer, dispatch | 144-172 | modelled |
| `handle`: deletion/cleanup, auto-suspend, domain inactive, stage switch | 244-560 | modelled |
| `setDefaults` | 203-237 | modelled (the flags) |
| `migrateVolumes`: start, post-exec rule, poll, advance | 727-878 | modelled |
| `runPreExecRule` | 881-928 | modelled |
| `migrateResources`: collect, bookkeeping, apply, finish, purge | 944-1129 | modelled; apply and purge are abstracted |
| `applyResources`: PV/PVC sequence | 1990-2320 | outcome only: the PV-failure path |
| `applyResources`/`parallelWorker`: worker pool, stash preparation, create loop, conflict resolution, Unauthorized retries | 2320-2526 | modelled (`ApplyEngine`) |
| `prepareResources` and the per-kind preparation | — | not modelled |
| Owner-reference and storage-class repair | — | folded into the apply outcome |
| `getMigrationSummary` | 2490-2582 | not modelled (derived, read-only) |
| `cleanup` | 2584-2589 | modelled |
| Controller init, CRD registration, rule recovery | — | not modelled (start-up I/O) |
| storkctl generate, listers, vendored code, tests | other files | not modelled |

## 2. Modules

### `MigrationController.tla`

This is the reconciler.

**Constants**

- `Vols` is the set of volumes the driver migrates.
- `PVs`, `PVCs` and `Apps` are the collected objects.
- `MigSpecs` is the set of feature-flag combinations. There are seven flags: pre/post-exec rule, IncludeVolumes, IncludeResources, PurgeDeletedResources, scheduled, and SkipDeletedNamespaces.
- `MaxStarts` bounds the number of `StartMigration` calls.

**Variables**

| Variable | Meaning |
|---|---|
| `stored` | The object as persisted: stage, status, `Status.Volumes` (nil or a map), `Status.Resources`, the finalizer and the deletion mark |
| `local` | The reconcile's in-memory copy |
| `pc` | The step the reconcile goroutine is at. A reconcile is cut into steps at its external calls. |
| `caller` | Who called `migrateResources` |
| `dvol` | The driver's view of each volume |
| `started` | How many `StartMigration` calls succeeded |
| `ruleHeld` | A pre-exec rule's channels are still unsignalled |
| `postFailed` | History: a post-exec rule failed after volumes started |

**Actions**

There is one action per handler step: `AddFinalizer`, `HandleDeletion`, `HandleAutoSuspend`, `HandleDomainInactive`, `HandleBegin`, `CheckInitialStage`, `RunPreExecRule`, `SkipVolumes`, `MigrateVolumesStart`, `RunPostExecRule`, `MigrateVolumesPoll`, `ReturnToMigrateVolumes`, `MigrateResourcesCollect`, `ApplyResources`, `MigrateResourcesFinish` and `ObjectGone`. The environment has two more actions:

- `DriverProgress` is the driver's progress.
- `UserDelete` is the user's deletion.

Every `Update` is `Persist(ok, rec)`. It can fail whenever it is attempted. It can succeed only while the object exists and has not been marked for deletion since it was read (`WriteOK`). A failed Update drops to `Return`, which is exactly what each `if err != nil { return err }` does.

External reads are free choices with `\E`. These include cluster-pair readiness, rule results, domain state and remote activation.

**Abstractions**

- Event emission, logging, timestamps and the summary are left out, because no property reads them.
- Selectors and namespaces are left out.
- The apply engine is its visible outcome. Either a PV apply fails, which persists Final/Failed and then returns nil as the code does, or every collected resource gets Successful or Failed.

### `MigrationLifecycle.tla`

This is what a user watching a Migration's status may rely on. It comes from the data model in spec.md (§3: the stage is monotonic except for an explicit reset to Initial to re-run a pre-exec rule) and from the stage order of `handle`'s switch (lines 391-560).

- **Variables:**
  - `preExec` and `incVols`: the two flags it depends on;
  - `stage` and `status`: the persisted stage and status;
  - `volsDone`: every volume is migrated and recorded as such.
- **Actions:**
  - `VolumesDone`: the volume migration finishes;
  - `Write(s, t)`: one `updateMigrationCR`. It writes stage `s` and status `t`, where `s` is not behind the stored stage or is the pre-exec reset. When volumes are included, it reaches Applications, Successful or PartialSuccess only after `volsDone`.

`MigrationController` maps to it as follows:

- the flags map to `mspec`;
- `stage` and `status` map to `stored`;
- `volsDone` maps to `VolumesMigrated`, which means every volume is Successful at the driver and in the stored list.

The property is `MigrationLifecycleRefined == ML!Spec`.

### `ApplyEngine.tla` and `ApplyOutcome.tla`

`ApplyEngine` is the generic-object phase of `applyResources` (lines 2320-2526): a dispatcher goroutine feeding `objectChan`, `migrationMaxThreads` worker goroutines, and the caller goroutine of `parallelWorker`, which counts results from `errorChan`.

**Constants.** `Objs` (the objects to apply), `Workers`, `Stashed` (objects with a stashed ConfigMap), `MaxApplyRetries` (`maxApplyRetries`, line 82), and `NoObj`.

**What is left out.** The worker's accessor checks at lines 2329-2341 send an error on `errorChan` and carry on, and the coordinator returns at the first error (2519-2521). Neither can happen here:

- every object reaching a worker already passed `meta.Accessor` at lines 1014 and 1156, and `meta.TypeAccessor` at line 1981;
- each of those returns from the caller on an error, before `parallelWorker` is called;
- the objects come from the resource collector as unstructured objects, so the cast at line 2338 does not fail either.

So the model has no error sends, no error return and no panic.

**Channels.** Both channels are unbuffered, so a send and its receive are one step (a rendezvous). The dispatcher's shuffle is modelled lazily: `pending` is the set not yet sent, and each receive picks any member.

| Variable | Meaning |
|---|---|
| `pending`, `closed` | the dispatcher's remaining objects; `objectChan` closed |
| `coord`, `received` | the caller: waiting (`recv`) or returned nil (`done`); the count of nil results |
| `wph`, `wobj`, `werr`, `retries` | each worker's program point, its object, its `err`, its Unauthorized retry counter |
| `stashErr` | each worker's `stashCMError`, declared once per worker (line 2327) |
| `res`, `dest` | `Status.Resources` verdicts; the destination's copy of each object (absent, old, current) |
| `attempts` | a history variable: the Create calls made so far for each object |

**Actions.** One per worker step: `Receive`, `Exit`, `Prepare` (the reset of `retries`, stash lookup, hash), `ApplyIteration` (one pass of the create loop with its conflict resolution and retry decision), `RecordVerdict` (`updateResourceStatus`), `Deliver` (`errorChan <- nil`). The caller has `CoordFinish` (all results counted: close and return nil). `CallerReturned` is the stutter after `parallelWorker` has returned.

`ApplyOutcome` is what `migrateResources` relies on: each object starts InProgress and receives one verdict that is never revised; the call returns nil only once all objects have verdicts, or returns an error. `ApplyEngine` maps to it with `res <- res` and `outcome <- OutcomeOf` (nil return → ok). The contract keeps the error return, which `migrateResources` handles, although the engine never takes it.

### `MCMigrationController.tla`

This module instantiates the model with:

- two volumes;
- one PV, one PVC and one other object, all as model values;
- every flag combination (`[Flags -> BOOLEAN]`, 128 specs).

### `MCApplyEngine.tla`

Three objects (`o1` stash-enabled) and two workers, all model values; `MaxApplyRetries = 2`. `MCNoWorkers = {}` is `migrationMaxThreads = 0`, which `Init` (line 127) accepts without a check.

### `MigrationControllerProofs.tla`, `MigrationLifecycleProofs.tla`, `ApplyEngineProofs.tla`

These modules hold the TLAPS proofs (section 5).

## 3. Runs

The first six runs use `MCMigrationController` with `MaxStarts = 2`; the last three use `MCApplyEngine`.

| Run | cfg | Expect | Checks |
|---|---|---|---|
| migration_core | MCMigrationController.cfg | pass | `TypeOK`, `ResourcesAfterVolumes`, `StageProgress`, `MigrationLifecycleRefined` |
| pre_exec_rule_held | MC_PreExecRuleHeldAtStart.cfg | violation | `PreExecRuleHeldAtStart` |
| final_status_stable | MC_FinalStatusStable.cfg | violation | `FinalStatusStable` |
| post_exec_failure_fatal | MC_PostExecFailureFatal.cfg | violation | `PostExecFailureFatal` |
| start_migration_once | MC_StartMigrationOnce.cfg | violation | `StartMigrationOnce` |
| rule_released_on_return | MC_RuleReleasedOnReturn.cfg | violation | `RuleReleasedOnReturn` |
| apply_engine | MCApplyEngine.cfg | pass | `TypeOK`, `ApplyResultsComplete`, `UnauthorizedBudget`, `CleanShutdown`, `ApplyOutcomeRefined` |
| success_means_applied | MC_SuccessMeansApplied.cfg | violation | `SuccessMeansApplied` |
| clean_shutdown | MC_CleanShutdown.cfg | violation | `CleanShutdown` |

### The passing run: migration_core

It explores about 77 000 distinct states and fires every action and disjunct. It checks four properties.

- **`ResourcesAfterVolumes`:** a migration that includes volumes never shows Applications, Successful or PartialSuccess in the stored object unless both of these hold:
  - the driver finished every volume;
  - the persisted volume list says every volume is Successful.

  This holds through failed Updates, deletion and re-polling.
- **`StageProgress`:** the persisted stage never moves backwards. The one exception is the reset to Initial, which happens only when a pre-exec rule is configured.
- **`MigrationLifecycleRefined`:** the stored stage, the stored status and the volume-completion flag together behave as `MigrationLifecycle` allows. This combines the two properties above over the whole history. It adds that once the volumes are done, no step undoes that. (The proof also shows that nothing writes stage or status after the object is deleted from the API server. That fact is a lemma on the way, not part of `MigrationLifecycle`, which has no notion of deletion.)

Every property has a mutant: a plausible bug in a mapped definition that makes TLC fail the property.

| Mutant | Property it breaks |
|---|---|
| Stage and status assigned the other way round | `TypeOK` |
| The in-progress scan ignored | `ResourcesAfterVolumes` |
| The storage-not-ready reset taken without a pre-exec rule | `StageProgress` |
| The same reset (a backward write the abstract spec does not allow) | `MigrationLifecycleRefined` |

### The passing runs of the apply engine

- **apply_engine** (about 581 000 states):
  - `ApplyResultsComplete`: when `parallelWorker` returns nil, every object has a verdict and every worker is back at its `range` loop. A worker that counted its result before writing its verdict would break it.
  - `UnauthorizedBudget`: an object whose verdict is about to be written Failed for an Unauthorized error had `maxApplyRetries + 1` Create calls. `retries` is reset per object (line 2374). A worker whose previous object used up the budget would otherwise give its next object none.
  - `CleanShutdown`: under the fairness below, the run ends with the caller returned, the dispatcher drained and every worker exited.
  - `ApplyOutcomeRefined`: the engine implements `ApplyOutcome`.

| Mutant | Property it breaks |
|---|---|
| Unauthorized retry allowed while `retries <= maxApplyRetries` | `TypeOK` |
| `retries` not reset for the next object | `UnauthorizedBudget` |
| Verdict write dropped | `ApplyResultsComplete` |
| `objectChan` not closed on the nil return | `CleanShutdown` |
| Dispatched object not removed from the shuffle | `ApplyOutcomeRefined` |

### The violation runs

Each violation run states what the spec says of the program, and the code does otherwise. See `findings` in PROJECT.json for details.

1. **pre_exec_rule_held.** Suppose a stored PreExecRule/InProgress record survives after the reconcile that started the rule has returned, for example because an Update was lost. The next reconcile then takes the "waiting" branch of `runPreExecRule` and calls `StartMigration` without the rule running.
2. **final_status_stable.** A PV apply failure persists Final/Failed, but `applyResources` returns nil. `migrateResources` then overwrites the status with PartialSuccess. In volumes-only mode it is overwritten with Successful.
3. **post_exec_failure_fatal.** The post-exec rule fails, and the Final/Failed Update at line 794 is lost. A failed `CancelMigration` alone is not enough: its error is only logged, and Final/Failed is still persisted. The violation also needs the driver's volumes to be left uncancelled, because the cancel failed or the volumes had already finished. The stored object is then still Volumes/InProgress, so the next reconcile polls the driver and can end Successful.
4. **start_migration_once.** `StartMigration` succeeds but the following Update fails. `Status.Volumes` is still nil, so the next reconcile starts the volume migration again.
5. **rule_released_on_return.** With IncludeVolumes=false, the Volumes stage moves to Applications without signalling the pre-exec rule's termination channels.
6. **success_means_applied.** `stashCMError` is declared once per worker (line 2327) and never reset. Worker w1 fails to read `o1`'s stashed ConfigMap and records it Failed. It then takes `o2`, skips the create loop because of the stale flag, and records `o2` Successful with `err == nil`, though `o2` was never created on the destination.
7. **clean_shutdown.** `migrationMaxThreads = 0`, which `Init` stores without a lower bound. No worker starts (line 2507). The dispatcher blocks on its first send and the caller on its first receive, so `parallelWorker` never returns and the reconcile hangs. This cfg sets `CHECK_DEADLOCK FALSE` because the stop is the hang under study. TLC reports `CleanShutdown` violated by a behaviour that stutters forever in the initial state.

### Bounds

Two volumes are enough for these cases:

- one volume still in progress while another has finished or failed;
- the mixed verdicts of the scan at lines 823-847.

One object of each kind is enough to separate these paths:

- the PV-failure path;
- the volumes-only collection (PVs and PVCs);
- the full collection.

`MaxStarts = 2` lets a duplicated start happen once.

All 128 flag combinations are enumerated, so every branch on the spec is taken.

For the apply engine, three objects over two workers let one worker take a second object while the other is busy. That is what the stale `stashCMError` and the per-object reset of `retries` need. `MaxApplyRetries = 2` lets the retry budget run out, where the code's 10 would only add states.

No symmetry is used. The volumes could be symmetric, but the state space is already small.

### Fairness

`MigrationController`'s `Spec` has no fairness, and only safety is checked for it.

`ApplyEngine`'s `Spec` has weak fairness on each goroutine: on each worker's steps, and on the caller's `CoordFinish`. The dispatcher's sends are the workers' `Receive` steps. The Go scheduler runs every runnable goroutine eventually, and every step the model has is a goroutine that is runnable (a rendezvous is enabled only when both sides are ready). Nothing stronger is assumed. Deadlock is checked; `CallerReturned` is the stutter after `parallelWorker` has returned, so only a real hang counts as a deadlock.

## 4. Hazards

`PROJECT.json` lists the hazards at their lines. They include:

- lost Updates racing deletion;
- duplicated `StartMigration` after a crash between the driver call and the Update;
- the pre-exec rule's "waiting" path;
- the ignored cancel error in cleanup (no property yet);
- auto-suspend not cancelling the driver (no property yet: it is not a backward stage write);
- the overwritten PV-failure verdict;
- the purge-failure repeat (no property yet: it repeats only allowed stages);
- the stale `stashCMError` (`SuccessMeansApplied`);
- the verdict written before the result is counted (`ApplyResultsComplete`);
- the Unauthorized retry budget and its per-object reset (`UnauthorizedBudget`);
- an unvalidated `migrationMaxThreads` of zero, which hangs the reconcile (`CleanShutdown`, clean_shutdown run);
- a failed recreate after conflict resolution's delete, which leaves the object gone from the destination (no property: it is reported Failed).

## 5. Proofs

`MigrationControllerProofs.tla` proves two theorems for every value of the constants. They rely on `ConstAssumption`, which says:

- the kinds of object are disjoint;
- `MigSpecs` is a non-empty set of flag functions;
- `MaxStarts` is a positive natural.

**`TypeCorrect`** proves `Spec => []TypeOK`. The step lemma `TypeOKStep` has one case per action. It rests on type lemmas for `SetStage`, `FailFinal`, `NewMigration`, `Cancelled` and `Return`.

**`ResourcesAfterVolumesHolds`** proves `Spec => []ResourcesAfterVolumes`. The invariant is not inductive on its own. A step that copies `local` to `stored` needs facts about `local`, and a poll step needs facts about the driver. The strengthening is `IInv == TypeOK /\ StoredInv(stored) /\ CopyInv`:

- `VolsConsistent(rec)`:
  - a record whose volume list is nil has all volumes Idle;
  - a recorded list means the driver has started every volume;
  - a volume recorded Successful is Successful at the driver.

  The driver never takes Successful back. Only `StartMigration` resets it.
- `StoredInv`: an early-stage record is not advanced, and an advanced record that includes volumes has every volume Successful.
- `CopyInv` covers the in-flight copy:
  - it agrees with `stored` on the volume list;
  - it is in an early stage at an early `pc`;
  - at a late `pc` with volumes included, every volume is Successful.

TLC checked `IInv` as an invariant of migration_core before it was proved.

The proof has three parts:

1. `Init => IInv`.
2. `IInvStep` shows `IInv /\ [Next]_vars => IInv'`. It has one case per action, built on lemmas for each step shape: `StoredStep`, `QuietStep`, `PersistStep`, `PersistStepVC`, `PCStep` and `SyncStep`.
3. `IInv => ResourcesAfterVolumes`.

PTL combines them.

`ApplyEngineProofs.tla` proves, under `ApplyAssumption` (finite `Objs` and `Workers`, `Stashed` a subset of `Objs`, `MaxApplyRetries` a natural, `NoObj` outside `Objs`):

- **`ApplyTypeCorrect`:** `Spec => []TypeOK`.
- **`ApplyResultsCompleteHolds`:** `Spec => []ApplyResultsComplete`.
- **`UnauthorizedBudgetHolds`:** `Spec => []UnauthorizedBudget`.
- **`ApplyOutcomeRefinement`:** `Spec => ApplyOutcomeRefined`, by `Init => AO!Init` and a step lemma mapping each engine step to a `Decide`, a `Finish` or a stutter.

All rest on the inductive invariant `AInv`. The key conjunct is a counting one, `CountWhileWaiting`: while the caller waits, `objectChan` is open and `received + |pending| + |Busy| = |Objs|`, where `Busy` is the set of workers holding an object. So when `received` reaches `|Objs|`, no object is pending or held, and every held object's verdict has been written (`HeldVerdict`). The other conjuncts say a held object is not pending (`HeldSent`), held by one worker (`HeldOnce`), and undecided before its verdict; and that the shuffle never loses objects while open (`PendingOpen`, `OpenAccounted`). For the retry budget, `AttemptsCounted` says three things:

- an unsent object has had no Create call;
- a worker preparing its object sees none either;
- a worker in the create loop has made exactly `retries` calls for its object.

An iteration that leaves the loop on Unauthorized does so only when `retries` has reached `maxApplyRetries`, so the count is then `maxApplyRetries + 1`. `HeldOnce` keeps one worker's iteration from touching another worker's count. Cardinalities are handled with the library's `FiniteSetTheorems`. TLC checked `AInv` on the apply_engine run first.

`MigrationLifecycleProofs.tla` extends `MigrationControllerProofs` and adds two theorems.

**`StageProgressHolds`** proves `Spec => StageProgress`, the action property. Every stage write copies `local` to `stored` or sets a fixed stage. So the proof needs to know, at each `pc`, how the copy's stage relates to the stored one. The invariant for this is `StageInv`, which TLC checked on migration_core first:

- Stage PreExecRule is persisted only when a rule is configured.
- Before the volume stage, the copy has the stored stage, which is Initial or PreExecRule.
- Up to the post-exec rule, the stored stage is early.
- After the volume scan, the copy's stage is Volumes or later and is at least the stored stage.

The step lemma `StageStep` has one case per action. It shows that `StageInv` is kept and that the written stage satisfies `MovesTo`: it is not behind the stored one, or it is the pre-exec reset. Ranks come from the `StageRanks` lemma, because the SMT backend cannot read `StageRank`'s `CASE`.

**`MigrationLifecycleRefinement`** proves `Spec => MigrationLifecycleRefined`. It rests on `IInv`, `StageInv` and two more per-step facts, collected in `MigratedStep`:

- `VolumesMigrated` is never undone. The driver keeps its successes, and every Update writes the stored list, a copy of it, or the driver's list.
- After `ObjectGone`, stage and status are frozen (`Frozen`).

The step lemma `LifecycleStep` splits on whether stage or status changed:

- If neither changed, the step is `VolumesDone` or a stutter.
- If either changed, the object still exists. The step is then `Write` of the new pair:
  - the rank condition comes from `StageStep`, through `RankAgrees`;
  - the gate on Applications, Successful and PartialSuccess comes from `StoredInv(stored)'` and `VolsConsistent`.

`ApplyEngineProofs.tla` also proves `ApplyTypeCorrect` (`Spec => []TypeOK`) from `AInv`.

Every invariant and action property of a passing run now has a theorem.

The following are checked by TLC only:

- all liveness, including `CleanShutdown`, which TLAPS cannot prove (fairness and ENABLED are out of its reach).

Recursive definitions would also stay with TLC.

## 6. Not modelled, and plan for later sittings

- The PV/PVC sequence of `applyResources` stays an outcome in `MigrationController`. It is sequential code of API calls with no concurrency beyond what the reconciler model already has.
- The delete-and-poll loop of conflict resolution (`deletedMaxRetries`) is folded into the outcomes of one `ApplyIteration`.
- Planned work:
  - the preparation functions as pure operators: the replica and suspend stash carry-forward rule, and the reclaim-policy stash, checked against a reference definition;
  - owner-reference and storage-class repair;
  - a spec-modelled schedule evaluator (§4.6);
  - liveness of the reconciler under weak fairness of the requeue loop and the driver (a migration that is not deleted eventually reaches Final).
