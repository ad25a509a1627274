# TLA+ verification of the assisted installer

This directory holds TLA+ models of the node installer of
`src/src/installer/installer.go`, the TLC configurations that model-check
them, and TLAPS proofs about them.

## The system

An OpenShift cluster installed by the assisted-installer runs one
**installer** process on every host. The process writes the RHCOS image to
disk and reboots the host into the cluster. The installers never talk to each
other. They coordinate through two shared records:

* the **inventory service**, which holds each host's stage
  (`UpdateHostInstallProgress`) and the host list;
* the **new cluster's API**: its nodes and their Ready condition, and the
  events in the controller's namespace.

The roles behave differently:

* **Bootstrap host** (`InstallNode`, lines 91-175). Before writing its image it
  starts two goroutines:
  * `startBootstrap` (lines 255-329), in an errgroup. It prepares the host and
    starts `bootkube.service`, `approve-csr.service` and `progress.service`.
  * `updateConfiguringStatus` (lines 824-851), the configuring **watcher**. It
    reads the machine-config server's logs and reports hosts that pulled their
    ignition as `configuring`.

  After the image is written, the bootstrap installer waits for the
  goroutine. Then `waitForControlPlane` (lines 408-448):
  * applies the control-plane **replicas patch** on OCP < 4.7 with
    OVNKubernetes;
  * waits until two master nodes are Ready and matched to inventory hosts
    (`waitForMasterNodes`, `updateReadyMasters`). It reports each one
    `joined`;
  * undoes the patch;
  * waits for bootkube's done marker and for the controller's ready event;
  * reboots.
* **Masters** write their image and reboot.
* **Workers** write their image, then wait until two master hosts are at
  stage `done` (`workerWaitFor2ReadyMasters`, lines 460-488), then reboot.
* Any fatal error makes `RunInstaller` (lines 896-948) report `failed` and
  exit. Exiting kills the goroutines.

The **post-install controller** runs in the new cluster. It posts the ready
event. It reports a host `joined` once the host's node has registered,
Ready or not (its test "WaitAndUpdateNodesStatus including joined state"),
and a joined host `done` once its node is Ready. Its code is not under
`src/`; only its tests are (`src/unnamed/part_000`). The two steps the
installers depend on are therefore modelled from `spec.md` §4.2 and those
tests. A node registers only after its host booted from its pulled
ignition, so the model's guard for `joined` is `pulled[h]`.

## Modules

| Module | Models |
|---|---|
| `Installer.tla` | All installers of one HA cluster, the bootstrap's two goroutines, and the environment (bootkube, MCS pulls, node readiness, the controller's two steps). |
| `MCInstaller.tla` | TLC instance: bootstrap `b`, masters `m1`, `m2`, worker `w1`. |
| `InstallerProofs.tla` | TLAPS proofs of the type invariant, of `BootstrapRebootsAfterMasters` and of `ReplicasPatchConfined`. |
| `ClusterBoot.tla` | The abstract specification of what the installers of one HA cluster promise (spec sections 3 and 4.1): each host is installing, rebooted or failed. Masters reboot freely. The bootstrap reboots only after two other masters did. A worker reboots only after two control-plane hosts did, unless hosts are added to an installed cluster. It also holds the TLAPS proofs of its own reboot order (`RebootOrderCorrect`) and of the finality of a host's exit (`ExitIsFinalCorrect`). |
| `InstallerRefinement.tla` | TLAPS proofs that workers reboot after two masters pulled their ignition, and that `Installer` implements `ClusterBoot`. It also carries `ClusterBoot`'s two theorems over to the installers. |
| `Retry.tla` | `utils.Retry` (lines 1112-1127): calls of `f`, sleeps, and the returned error, for every attempts argument and every sequence of results. |
| `MCRetry.tla` | TLC instance: attempts arguments -1..10. |
| `RetryProofs.tla` | TLAPS proof of `RetryBounded`. |
| `SingleNode.tla` | The single-node (SNO) installer: `FormatDisks` (lines 81-89), then `InstallNode`'s single-node branch (`startBootstrap`, `createSingleNodeMasterIgnition` lines 853-873, `updateSingleNodeIgnition` lines 208-239, image write, `finalize`), with bootkube writing `master.ign` as environment. |
| `MCSingleNode.tla` | TLC instance: master files `{f1}`, host files `{f2}`, disks `<<d1, d2>>`. |
| `SingleNodeBoot.tla` | The abstract specification of the single-node installer (spec sections 4.1 and 8). It writes the expected image once, then reboots, and may fail before or after the write. It also holds the TLAPS proof that the disk carries the expected image from the write on (`RebootsIntoExpectedCorrect`). |
| `SingleNodeProofs.tla` | TLAPS proofs of `ImageCarriesHostOverrides`, and that `SingleNode` implements `SingleNodeBoot`. |
| `OperatorStatusProofs.tla` | TLAPS proofs of the type invariant and of `HealthyIsAvailable` for lists of every length. |
| `OperatorStatus.tla` | The pure conversions `ClusterOperatorConditionsToMonitoredOperatorStatus` (lines 1246-1260) and `CsvStatusToOperatorStatus` (lines 1235-1244). `Init` enumerates every conditions list of at most `MaxConditions` entries and every CSV phase. |

### SingleNode

State:

* `nextDisk`, `formatted`: the `FormatDisks` loop.
* `pc`, `stage`: the flow and the inventory's stage.
* `services`, `bootkubeDone`: bootkube.
* `hasMasterIgn`, `masterIgn`: whether bootkube wrote `master.ign`, and its
  content.
* `imageWritten`, `image`: the ignition the image was written with.

An ignition is abstracted to its set of files and whether it carries a nested
`Ignition.Config`. `MergeIgnitionConfig` is the union of the files and the
disjunction of the nested flags. `updateSingleNodeIgnition` clears the host
ignition's nested config before merging (line 229); the mutant that skips this
is killed. Stage reports are best effort (line 559), so with `MayFail` a
report may be lost (`Report`).

### OperatorStatus

A condition is a type and a status. Its message is abstracted to its position
in the list. The loop's body has three tests (`Decides`): a condition that
is Available=True, Progressing=True or Degraded=True makes the loop return
`Verdict[type]` and the condition's message. The loop runs in list order, so
it returns at the least such position (`FirstDeciding` of the set
`Deciding`). With none, the result is progressing with an empty message. The
model states this first match directly instead of as a recursive scan, so
the module stays within TLAPS's reach (see `OperatorStatusProofs`). The
mutant `DecidesAnyProgressing` drops the status test from the Progressing
test.

### State (Installer)

* `pc[h]`: where host `h`'s `InstallNode` is.
* `stage[h]`: the stage the inventory holds.
* `bootGo`, `services`: the `startBootstrap` goroutine and whether it
  started the bootstrap services.
* `watcher`, `wfetched`, `wkeys`, `wstage`: the watcher goroutine and its
  cached `inventoryHostsMapWithIp`, which is fetched once and kept (line 839).
* `readyMasters`: `waitForMasterNodes`' list.
* `replicas`, `patched`: the cluster's `controlPlane.replicas` and the patch
  decision.
* `bootkubeDone`, `readyEvent`, `pulled`, `nodeReady`: the environment.

### Actions and how they match the code

Each action is one uninterrupted run of code between two points where another
actor can act: a poll tick, a goroutine boundary, a return. The actions are:

* `InstallNode` (up to the host ignition), `WriteImage`, `Finalize`;
* `WaitForControlPlane`, one tick of `WaitForMasterNodes`,
  `MinMasterNodesDone`, `WaitForBootkube`, `WaitForController`;
* `WorkerWaitFor2ReadyMasters`;
* `StartBootstrap`;
* one tick of `UpdateConfiguringStatus`;
* `Fail`, which folds `RunInstaller`'s failed report into the failing action.

Every call the code treats as fatal is a choice between success and failure
(`Outcomes`) when the constant `MayFail` is TRUE. This covers cleanup,
download, image write after `Retry(3)`, the patch, PatchEtcd, and reboot.

Polls that fail and change nothing are left out, because they are stutters.
The stages within one action are collapsed to the last one reported: for
example `starting-installation` then `installing`.

## Runs

| Run | Cfg | Expect | What it shows |
|---|---|---|---|
| `installer_happy` | `MCInstaller.cfg` | pass | No failures. Deadlock is checked, so every interleaving ends with all hosts rebooted. Every state is well typed, and `readyMasters` holds only master names (`TypeOK`). The ordering properties are checked in `installer_failures`, whose behaviours include all of this run's. The refinement is proved (`Refinement`), not checked here. |
| `installer_failures` | `MCInstallerFail.cfg` | pass | Every fatal call may fail. The two orderings and the refinement still hold. The replicas patch outlives the master wait only on a failed installation (`ReplicasPatchConfined`). Deadlock checking is off: a worker whose bootstrap failed waits forever, as the code does (line 465). 1.49M states. |
| `stage_regression` | `MCStagesMonotonic.cfg` | violation | `StagesMonotonic` fails. The watcher fetches its map, the bootstrap reports `m1` joined, and the watcher then reports `m1` configuring from its stale map. |
| `bootstrap_before_done` | `MCBootstrapDone.cfg` | violation | The spec says the bootstrap waits for two masters at *done*. The code waits for two Ready nodes. |
| `single_node` | `MCSingleNode.cfg` | pass | Any call may fail and any report may be lost. The image is still written only with bootkube's master ignition merged with the host files and with no nested config (`ImageCarriesHostOverrides`). The installer implements `SingleNodeBoot` under the mapping `SNPhase`, with `ExpectedImage` for the expected ignition (`SingleNodeBootSpec`). This holds with `DryRun` both `FALSE` (203 states) and `TRUE`. |
| `single_node_stage_order` | `MCSingleNodeStages.cfg` | violation | The single-node flow reports `waiting-for-bootkube` and then `writing-image-to-disk`. That is a step backwards in the spec's lifetime order of stages. |
| `operator_status` | `MCOperatorStatus.cfg` | pass | A healthy operator is always reported available, whatever the order and number of its conditions, because the loop passes over the conditions that do not decide (`HealthyIsAvailable`). Lists of up to 3 conditions: 7,540 inputs. |
| `operator_available_while_unhealthy` | `MCOperatorHealthy.cfg` | violation | The spec says available means Available=True and neither Degraded nor Progressing. The code returns on the first matching condition. TLC's trace: `[Available=True, Progressing=True]` is reported available. A Degraded=True after Available=True is reported available too. |
| `installer_liveness` | `MCInstallerLive.cfg` | pass | Under `LiveSpec`, every host of a bootstrap-plus-two-masters cluster eventually reboots (`AllRebooted`). So the bootstrap's waits for the masters (line 646), bootkube (line 576) and the controller (line 600) all end. 45.6k states. |
| `retry` | `MCRetry.cfg` | pass | For attempts from -1 to 10, `Retry` calls `f` at least once and at most `max(attempts, 1)` times. It sleeps exactly once between two calls and fails only after the last call (`RetryBounded`). |
| `unmatched_master_counted` | `MCUnmatched.cfg` | violation | `m1`'s node matches no inventory host. `updateReadyMasters` appended it before failing (line 720), so it counts on the next tick. |

**Bounds.** Three masters and one worker is the smallest cluster with all
three roles that the two-master threshold lets reach the interesting cases:

* one master ready and the other not;
* a worker waiting while masters progress.

The replicas patch is enabled: OCP < 4.7, OVN, replicas = 3. No counter
needs a cap, because every loop's progress is a change of host state.

The liveness run drops the worker (`Hosts <- MCControlPlane`). Checking
liveness with many fairness conditions on the 861k-state graph takes TLC
more than 25 minutes. Without the worker the graph has 45.6k states and still
contains every wait of the bootstrap and of the masters.

**Fairness.** Only the liveness runs assume fairness, through `LiveSpec`.
The safety runs use `Spec`. `Installer!Fairness` assumes the following.

* **Weak fairness of each installer's own steps** (`InstallerStep(h)`) and of
  the bootstrap goroutine's steps (`BootstrapStep`) and start
  (`StartBootstrap`). A running process that can take a step does take it.
* **Strong fairness of the polls whose condition can come and go.** These are
  the master wait (`WaitForMasterNodes`) and the worker wait. A master wait
  whose tick fails to match a host changes nothing, and it comes back on
  the next tick.
* **Environment fairness only for the control-plane hosts.** This covers
  MCS pulls, node readiness, the controller's done reports, bootkube and the
  ready event. They are the steps the spec says happen in a healthy
  cluster.

Failures get no fairness: a run may fail or not. The configuring watcher
gets none either, because the flow never waits on it.

`SingleNode` states no liveness property. Its one unbounded wait is for
bootkube (line 860). A termination property would hold only under
fairness of bootkube, which assumes that wait away.

## Proofs (InstallerProofs.tla)

* `TypeCorrect`: `Spec => []TypeOK`. It rests on the lemmas
  `TypeOKStep`, `UpdateReadyMastersResult` and `AfterWriteType`.
* `BootstrapRebootsAfterMastersCorrect`:
  `Spec => []BootstrapRebootsAfterMasters`, for every set of hosts and flags.
  The property is not inductive as it stands. The strengthening
  `MastersRebootedInv` adds:
  * a host pulled its ignition only if its installer rebooted it;
  * a node is Ready only after its host pulled;
  * every name in `readyMasters` is a pulled master;
  * the bootstrap is never in the worker wait;
  * once the bootstrap is past the master wait, `readyMasters` has two
    elements.

  `FS_Subset` then gives the two rebooted masters. Before it was proved,
  `MastersRebootedInv` was checked by TLC as an invariant of both passing
  runs.
* `ReplicasPatchConfinedCorrect`: `Spec => []ReplicasPatchConfined`, for
  every replica count, version and network. The strengthening `ReplicasInv`
  adds three facts to `TypeOK`:
  * the patch is applied only when the replicas equal the install-config's,
    so `patched` implies the config has three replicas;
  * inside the master wait (`PatchWindow`), the replicas are two exactly when
    the patch was applied, and the config's value otherwise;
  * outside the wait, and short of failure, the replicas are the config's.

  Without the first fact, an unpatch after a patch of a config with other
  than three replicas could not be shown to restore the config's value.
  Before the proof was attempted, TLC checked `ReplicasInv` as an invariant
  of the failures run (1.49M states). The step lemma has one case per
  action. The lemmas `ReplicasKeep` and `HostMoveKeepsReplicas` cover the
  actions that leave the replicas alone.

The assumptions are the module's `ASSUME`s: a finite host set, the bootstrap
a host, masters the other control-plane hosts, boolean flags.

Every invariant of the two passing `Installer` runs is now proved. The
deadlock-freedom of the happy run stays with TLC, because it is a statement
about `ENABLED`.

## Proofs (InstallerRefinement.tla)

* `WorkerRebootsAfterMastersCorrect`: `Spec => []WorkerRebootsAfterMasters`.
  The strengthening `WorkerInv` adds two facts to `MastersRebootedInv`:
  * a host's stage is done only once it has pulled its ignition;
  * a worker past its wait (outside add-hosts) sees `minMasterNodes` pulled
    masters.
* `Refinement`: `Spec => ClusterBootSpec`, for every cluster. No run checks
  it: on the runs' instances it adds nothing to the two orderings and the
  finality of exits. The proof has two parts:
  * `Init` maps to `CB!Init`;
  * under `RefInv`, every step is a `ClusterBoot` step or a stutter of
    `HostPhases` (lemma `RefinementStep`).

  Only `Finalize` changes a host's phase to rebooted, and only `Fail`
  changes it to failed. The guard of `RebootBootstrap` comes from
  `MastersRebootedInv`. The guard of `RebootWorker` comes from `WorkerInv`
  through the lemma `TwoRebootedInMaps`.
* `RebootOrderKept`: `Spec => []CB!RebootOrder`. The reboot order is proved
  once on the abstract spec, as `ClusterBoot!RebootOrderCorrect`. That proof
  is inductive with the phase type: a step changes only a host that is
  installing, so two rebooted hosts stay rebooted. It takes three
  hypotheses, which the `Installer` assumptions discharge: the bootstrap is
  a host, the masters are hosts, and the bootstrap is not a master. The
  result then reaches the installers through `Refinement`. For a worker it
  is stronger than `WorkerRebootsAfterMasters`: it requires two
  control-plane hosts *rebooted*, not merely pulled.
* `ExitIsFinalKept`: `Spec => [][CB!ExitIsFinal]_HostPhases`. This is an
  action property. No step of any actor changes the phase of a host whose
  installer dispatched its reboot or reported failure. It is proved on
  `ClusterBoot` (`ExitIsFinalCorrect`, from the lemma `ExitIsFinalStep` and
  the phase type) and carried over in the same way.

## Proofs (RetryProofs.tla)

* `RetryBoundedCorrect`: `Spec => []RetryBounded`, for every set of integer
  attempts arguments. The strengthening `RetryInv` says:
  * the loop counter equals the sleeps;
  * the calls are the counter, plus one after the return;
  * the counter never passes `MaxCalls - 1`;
  * a failed return happens only at `MaxCalls - 1`.

## What stays with TLC

* **Liveness.** TLAPS cannot prove liveness under fairness or reason about
  `ENABLED`. So `AllRebooted` and the happy run's
  deadlock-freedom, are checked by TLC on the small instances only.
* **Induction over data.** The library's induction theorems take an
  operator parameter, which the installed provers cannot instantiate. No
  proof here rests on one. The one place that needed a least element, the
  operator-status loop, uses the well-foundedness of `<` on the naturals
  instead (`WFMin`, `NatLessThanWellFounded`).

Every safety property of every passing run is now stated by a theorem.

## Proofs (OperatorStatusProofs.tla)

These hold for every `MaxConditions`, so for conditions lists of every length.
TLC enumerates lists of up to 3 conditions.

* `FirstDecidingIsFirst`: when some condition decides, `FirstDeciding` is a
  deciding position and no deciding position precedes it. The positions are
  naturals, so `WFMin` applied to `NatLessThanWellFounded` gives a least one,
  and the `CHOOSE` picks it.
* `TypeCorrect`: `Spec => []TypeOK`. The result is a monitored status, and
  its message is a position of the list or empty (lemma `ResultType`).
* `HealthyIsAvailableCorrect`: `Spec => []HealthyIsAvailable`. With no
  Progressing=True and no Degraded=True, only Available=True conditions
  decide. There is one, so the first deciding condition exists and is
  Available=True (lemma `HealthyGivesAvailable`).

The inputs never change (`Next` stutters), so the inductive invariant is only
`InputOK`: the input is a conditions list and a CSV phase. Each property
follows from a lemma about every list.

## Proofs (SingleNodeProofs.tla)

* `ImageCarriesHostOverridesCorrect`: `Spec => []ImageCarriesHostOverrides`,
  for every set of files and every flag. The strengthening `SNInv` says:
  * the flow is past the bootkube wait only once bootkube wrote `master.ign`;
  * until the merge, the file holds bootkube's master ignition;
  * after the merge (outside dry-run), it holds the merged ignition;
  * an image that was written carries the merged ignition.

  The lemma `MergeResult` computes the merge.
* `SNRefinement`: `Spec => SingleNodeBootSpec`, for every set of files and
  both dry-run values. The mapping `SNPhase` sends a terminal `pc` to itself,
  a written image to `written`, and every other state to `installing`. The
  strengthening `SNRefInv` adds four facts to `SNInv`:
  * from the write on, the file holds `ExpectedImage`;
  * a written image is `ExpectedImage`;
  * `finalize` and reboot come only after the write;
  * before the write (`BeforeWrite`), nothing is written and the disk holds
    no ignition.

  Lemmas:
  * `SNRefinementStep` maps the write to `WriteImage`, the reboot to
    `Reboot` and every failure to `Fail` (lemma `SNFailMaps`);
  * `SNStutter` covers every other step, which is a stutter.
* `SNRebootsIntoExpected`: `Spec => []SNB!RebootsIntoExpected`. It is proved
  on `SingleNodeBoot` (`RebootsIntoExpectedCorrect`) and carried through
  `SNRefinement`. From the write on, and at the reboot, the install device
  holds the expected ignition.

## Not modelled

* Dry-run of the HA flow, and log uploads: no effect on coordination.
* The controller beyond its ready event and node reports.
* The inventory client, ops, the k8s client and the ignition utility, which
  are not in `src/`.
* The RBAC YAML, and the generated swagger code under `src/vendor`.
* The eventual reboot of a worker. When the control plane fails, the worker
  waits forever by design (line 465), so no liveness property holds for it.
  With a healthy control plane, the instance with a worker is too large for
  TLC's liveness check.
* Lost stage reports in the HA model (line 559). Nothing in the HA flow waits
  on an installer's own report, and SingleNode models the loss.
