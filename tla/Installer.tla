----------------------------- MODULE Installer -----------------------------
(***************************************************************************)
(* The node installers of one highly-available cluster installation        *)
(* (src/src/installer/installer.go, InstallNode and the helpers it calls), *)
(* run concurrently on every host and coordinating only through the        *)
(* inventory service's record of host stages and through the new cluster's *)
(* API.  Every host runs the InstallNode flow; the bootstrap host also     *)
(* runs the bootstrap sub-flow (startBootstrap, in an errgroup) and the    *)
(* configuring-status watcher (updateConfiguringStatus) as goroutines.     *)
(*                                                                         *)
(* The environment is the part of the system the installers only observe: *)
(* bootkube completing, rebooted hosts pulling their ignition from the     *)
(* machine-config server, cluster nodes becoming Ready or NotReady, and    *)
(* the post-install controller starting (its ready event) and reporting   *)
(* joined and done for Ready nodes (modelled from the spec: the controller *)
(* is not under src/).                                                     *)
(*                                                                         *)
(* Every remote call that the code treats as fatal is a nondeterministic   *)
(* success or failure (when MayFail); calls the code retries forever, and  *)
(* failed polls, change nothing and are left out.                          *)
(***************************************************************************)
EXTENDS Naturals, FiniteSets

CONSTANTS
    Hosts,                 \* the hosts of the cluster (model values)
    Bootstrap,             \* the host whose role is bootstrap
    Masters,               \* the other control-plane hosts
    Unmatched,             \* masters whose node matches no inventory host by name or IP
    ControlPlaneReplicas,  \* controlPlane.replicas of the install-config
    VersionLt47,           \* utils.IsVersionLessThan47(OpenshiftVersion)
    NetworkOVN,            \* the cluster network type is OVNKubernetes
    AddHostsCluster,       \* the cluster kind is AddHostsCluster
    MayFail                \* the fatal remote calls and local commands may fail

ASSUME HostsAssumption == IsFiniteSet(Hosts)
ASSUME BootstrapAssumption == Bootstrap \in Hosts
ASSUME MastersAssumption == Masters \subseteq Hosts \ {Bootstrap}
ASSUME UnmatchedAssumption == Unmatched \subseteq Masters
ASSUME ReplicasAssumption == ControlPlaneReplicas \in Nat
ASSUME FlagsAssumption ==
    {VersionLt47, NetworkOVN, AddHostsCluster, MayFail} \subseteq BOOLEAN

(* installer.go constants minMasterNodes and numMasterNodes. *)
minMasterNodes == 2
numMasterNodes == 3

Workers == Hosts \ ({Bootstrap} \cup Masters)

(* The hosts the inventory lists with role master (the bootstrap is one).  *)
AllMasters == {Bootstrap} \cup Masters

(* models.HostStage values the installers and the controller report.      *)
(* "none" is the empty stage of a host nobody has reported for yet.        *)
Stages == {"none", "starting-installation", "installing",
           "writing-image-to-disk", "waiting-for-control-plane",
           "waiting-for-bootkube", "waiting-for-controller", "rebooting",
           "configuring", "joined", "done", "failed"}

(* Where each host's InstallNode (and RunInstaller) is.                    *)
PCs == {"init", "write", "wait_bootstrap", "wait_masters", "masters_ready",
        "wait_bootkube", "wait_controller", "worker_wait", "finalize",
        "rebooted", "failed"}

(* A host whose installer process has exited: finalize dispatched the     *)
(* reboot, or RunInstaller reported the failure.                          *)
Terminal == {"rebooted", "failed"}

VARIABLES
    pc,            \* per host: the point its installer has reached
    stage,         \* per host: the stage the inventory service holds
    bootGo,        \* the startBootstrap goroutine: idle, running, ok, fail
    services,      \* bootkube.service has been started on the bootstrap
    bootkubeDone,  \* /opt/openshift/.bootkube.done exists
    readyEvent,    \* the controller's "assisted controller is ready" event exists
    replicas,      \* the cluster's controlPlane.replicas
    patched,       \* waitForMinMasterNodes: shouldPatchControlPlaneReplicas
    readyMasters,  \* waitForMasterNodes: the node names in readyMasters
    watcher,       \* the updateConfiguringStatus goroutine: off, running, exited
    wfetched,      \* updateConfiguringStatus: inventoryHostsMapWithIp is non-nil
    wkeys,         \* ... the hosts still in that map
    wstage,        \* ... the stage each host had in that map
    pulled,        \* per host: its IP is in the machine-config server's log
    nodeReady      \* per host: its cluster node is Ready

installerVars == <<pc, stage, bootGo, services, replicas, patched, readyMasters>>
watcherVars == <<watcher, wfetched, wkeys, wstage>>
clusterVars == <<bootkubeDone, readyEvent, pulled, nodeReady>>
vars == <<installerVars, watcherVars, clusterVars>>

-----------------------------------------------------------------------------
(* The outcomes of a call whose error makes InstallNode return.            *)
Outcomes == IF MayFail THEN {"ok", "fail"} ELSE {"ok"}

(* cleanupInstallDevice and Mkdir(InstallDir): the first error of          *)
(* GetVGByPV, RemoveVG, RemovePV, GetRaidDevices, CleanRaidMembership,     *)
(* Wipefs or Mkdir fails the installation.                                *)
cleanupInstallDevice == Outcomes

(* downloadHostIgnition: DownloadHostIgnition returns an error or not.    *)
downloadHostIgnition == Outcomes

(* writeImageToDisk: utils.Retry(3, ...) of WriteImageToDisk fails when   *)
(* all three attempts fail.                                               *)
writeImageToDisk == Outcomes

(* finalize: systemctl list-units, then stop agent.service (ironic) or    *)
(* Reboot; any error is returned.                                         *)
finalizeOutcome == Outcomes

(* shouldControlPlaneReplicasPatchApplied: OCP < 4.7, network type        *)
(* OVNKubernetes and controlPlane.replicas = numMasterNodes.              *)
shouldControlPlaneReplicasPatchApplied ==
    VersionLt47 /\ NetworkOVN /\ replicas = numMasterNodes

(* numDone over ListsHostsForRole(master): the masters at stage done.      *)
numDone == Cardinality({m \in AllMasters : stage[m] = "done"})

(* The stages filterAlreadyUpdatedHosts drops from the watcher's map      *)
(* (waiting-for-ignition is reported by no installer of this model).       *)
statesToFilter == {"configuring", "joined", "done", "waiting-for-ignition"}

-----------------------------------------------------------------------------
Init ==
    /\ pc = [h \in Hosts |-> "init"]
    /\ stage = [h \in Hosts |-> "none"]
    /\ bootGo = "idle"
    /\ services = FALSE
    /\ bootkubeDone = FALSE
    /\ readyEvent = FALSE
    /\ replicas = ControlPlaneReplicas
    /\ patched = FALSE
    /\ readyMasters = {}
    /\ watcher = "off"
    /\ wfetched = FALSE
    /\ wkeys = {}
    /\ wstage = [h \in Hosts |-> "none"]
    /\ pulled = [h \in Hosts |-> FALSE]
    /\ nodeReady = [h \in Hosts |-> FALSE]

(* RunInstaller: InstallNode returned an error; the failed stage is       *)
(* reported and the process exits (its goroutines with it).                *)
Fail(h) ==
    /\ pc' = [pc EXCEPT ![h] = "failed"]
    /\ stage' = [stage EXCEPT ![h] = "failed"]

(* InstallNode up to the host ignition: report starting-installation,     *)
(* clean the device, create the install dir; on the bootstrap start the   *)
(* bootstrap goroutine and the configuring watcher; report installing;    *)
(* download the host ignition.                                            *)
InstallNode(h) ==
    /\ pc[h] = "init"
    /\ \E clean \in cleanupInstallDevice, dl \in downloadHostIgnition :
        \/ /\ clean = "fail"
           /\ Fail(h)
           /\ UNCHANGED <<bootGo, watcher>>
        \/ /\ clean = "ok"
           /\ bootGo' = IF h = Bootstrap THEN "running" ELSE bootGo
           /\ watcher' = IF h = Bootstrap THEN "running" ELSE watcher
           /\ IF dl = "ok"
                THEN /\ pc' = [pc EXCEPT ![h] = "write"]
                     /\ stage' = [stage EXCEPT ![h] = "installing"]
                ELSE Fail(h)
    /\ UNCHANGED <<services, replicas, patched, readyMasters,
                   wfetched, wkeys, wstage, clusterVars>>

(* Where InstallNode goes once the image is on disk, and the stage it     *)
(* reports on the way: the bootstrap waits for its sub-flow, a worker     *)
(* waits for two ready masters, a master goes straight to finalize.       *)
AfterWrite(h) ==
    CASE h = Bootstrap -> [pc |-> "wait_bootstrap", stage |-> "waiting-for-control-plane"]
      [] h \in Workers -> [pc |-> "worker_wait", stage |-> "waiting-for-control-plane"]
      [] OTHER         -> [pc |-> "finalize", stage |-> "writing-image-to-disk"]

(* writeImageToDisk (SetBootOrder errors are ignored), then the branch on  *)
(* the role.                                                              *)
WriteImage(h) ==
    /\ pc[h] = "write"
    /\ \E w \in writeImageToDisk :
        IF w = "ok"
          THEN /\ pc' = [pc EXCEPT ![h] = AfterWrite(h).pc]
               /\ stage' = [stage EXCEPT ![h] = AfterWrite(h).stage]
          ELSE Fail(h)
    /\ UNCHANGED <<bootGo, services, replicas, patched, readyMasters,
                   watcherVars, clusterVars>>

(* bootstrapErrGroup.Wait(), then waitForControlPlane up to the master    *)
(* wait: ReloadHostFile, the k8s client, the waiting-for-control-plane    *)
(* report, and in waitForMinMasterNodes the replicas patch decision and   *)
(* PatchControlPlaneReplicas.                                             *)
WaitForControlPlane ==
    /\ pc[Bootstrap] = "wait_bootstrap"
    /\ bootGo \in {"ok", "fail"}
    /\ \E r \in Outcomes :
        IF bootGo = "ok" /\ r = "ok"
          THEN /\ pc' = [pc EXCEPT ![Bootstrap] = "wait_masters"]
               /\ stage' = [stage EXCEPT ![Bootstrap] = "waiting-for-control-plane"]
               /\ patched' = shouldControlPlaneReplicasPatchApplied
               /\ replicas' = IF shouldControlPlaneReplicasPatchApplied
                                THEN minMasterNodes ELSE replicas
          ELSE /\ Fail(Bootstrap)
               /\ UNCHANGED <<patched, replicas>>
    /\ UNCHANGED <<bootGo, services, readyMasters, watcherVars, clusterVars>>

(* Mutant: the nodes listed are all the cluster's nodes, not only those  *)
(* with the master role (ListMasterNodes without its label selector).     *)
updateReadyMastersAllNodes ==
    LET new == {m \in Hosts : nodeReady[m]} \ readyMasters
    IN  IF new \cap Unmatched = {}
          THEN {[added |-> new, joined |-> new, ok |-> TRUE]}
          ELSE {[added |-> before \cup {u}, joined |-> before, ok |-> FALSE] :
                  u \in new \cap Unmatched, before \in SUBSET (new \ Unmatched)}

(* updateReadyMasters: every Ready master node not yet in readyMasters is *)
(* appended, then matched to an inventory host by name or IP and reported *)
(* joined.  A node that matches no host makes it return an error right    *)
(* after appending that node, leaving the nodes after it in the list for  *)
(* the next tick.  The possible results: the nodes added, the hosts       *)
(* reported joined, and whether it returned without error.                *)
updateReadyMasters ==
    LET new == {m \in Masters : nodeReady[m]} \ readyMasters
    IN  IF new \cap Unmatched = {}
          THEN {[added |-> new, joined |-> new, ok |-> TRUE]}
          ELSE {[added |-> before \cup {u}, joined |-> before, ok |-> FALSE] :
                  u \in new \cap Unmatched, before \in SUBSET (new \ Unmatched)}

(* Mutant: sufficientMasterNodes compares with minMasterNodes - 1.        *)
WaitForMasterNodesOffByOne ==
    /\ pc[Bootstrap] = "wait_masters"
    /\ \E r \in updateReadyMasters :
        /\ r.added # {} \/ Cardinality(readyMasters) >= minMasterNodes - 1
        /\ readyMasters' = readyMasters \cup r.added
        /\ stage' = [h \in Hosts |-> IF h \in r.joined THEN "joined" ELSE stage[h]]
        /\ pc' = IF r.ok /\ Cardinality(readyMasters') >= minMasterNodes - 1
                   THEN [pc EXCEPT ![Bootstrap] = "masters_ready"]
                   ELSE pc
    /\ UNCHANGED <<bootGo, services, replicas, patched, watcherVars, clusterVars>>

(* Mutant: sufficientMasterNodes compares with numMasterNodes.            *)
WaitForMasterNodesAllMasters ==
    /\ pc[Bootstrap] = "wait_masters"
    /\ \E r \in updateReadyMasters :
        /\ r.added # {} \/ Cardinality(readyMasters) >= numMasterNodes
        /\ readyMasters' = readyMasters \cup r.added
        /\ stage' = [h \in Hosts |-> IF h \in r.joined THEN "joined" ELSE stage[h]]
        /\ pc' = IF r.ok /\ Cardinality(readyMasters') >= numMasterNodes
                   THEN [pc EXCEPT ![Bootstrap] = "masters_ready"]
                   ELSE pc
    /\ UNCHANGED <<bootGo, services, replicas, patched, watcherVars, clusterVars>>

(* One tick of waitForMasterNodes (sufficientMasterNodes): the inventory  *)
(* hosts map and ListMasterNodes (whose errors only end the tick), then   *)
(* updateReadyMasters; the wait ends when it returned without error and   *)
(* readyMasters holds minMasterNodes nodes.  A tick that finds nothing    *)
(* new, and not enough, changes nothing.                                  *)
WaitForMasterNodes ==
    /\ pc[Bootstrap] = "wait_masters"
    /\ \E r \in updateReadyMasters :
        /\ r.added # {} \/ Cardinality(readyMasters) >= minMasterNodes
        /\ readyMasters' = readyMasters \cup r.added
        /\ stage' = [h \in Hosts |-> IF h \in r.joined THEN "joined" ELSE stage[h]]
        /\ pc' = IF r.ok /\ Cardinality(readyMasters') >= minMasterNodes
                   THEN [pc EXCEPT ![Bootstrap] = "masters_ready"]
                   ELSE pc
    /\ UNCHANGED <<bootGo, services, replicas, patched, watcherVars, clusterVars>>

(* Mutant: the error of UnPatchControlPlaneReplicas is logged and ignored. *)
MinMasterNodesDoneIgnoreUnpatchError ==
    /\ pc[Bootstrap] = "masters_ready"
    /\ \E r \in Outcomes :
        IF r = "ok"
          THEN /\ pc' = [pc EXCEPT ![Bootstrap] = "wait_bootkube"]
               /\ stage' = [stage EXCEPT ![Bootstrap] = "waiting-for-bootkube"]
               /\ replicas' = IF patched THEN numMasterNodes ELSE replicas
          ELSE /\ pc' = [pc EXCEPT ![Bootstrap] = "wait_bootkube"]
               /\ stage' = [stage EXCEPT ![Bootstrap] = "waiting-for-bootkube"]
               /\ UNCHANGED replicas
    /\ UNCHANGED <<bootGo, services, patched, readyMasters, watcherVars, clusterVars>>

(* The rest of waitForControlPlane after the master wait: undo the        *)
(* replicas patch, PatchEtcd when OCP < 4.7, and waitForBootkube's        *)
(* waiting-for-bootkube report.                                           *)
MinMasterNodesDone ==
    /\ pc[Bootstrap] = "masters_ready"
    /\ \E r \in Outcomes :
        IF r = "ok"
          THEN /\ pc' = [pc EXCEPT ![Bootstrap] = "wait_bootkube"]
               /\ stage' = [stage EXCEPT ![Bootstrap] = "waiting-for-bootkube"]
               /\ replicas' = IF patched THEN numMasterNodes ELSE replicas
          ELSE /\ Fail(Bootstrap)
               /\ UNCHANGED replicas
    /\ UNCHANGED <<bootGo, services, patched, readyMasters, watcherVars, clusterVars>>

(* waitForBootkube sees the done marker; waitForController reports        *)
(* waiting-for-controller.                                                *)
WaitForBootkube ==
    /\ pc[Bootstrap] = "wait_bootkube"
    /\ bootkubeDone
    /\ pc' = [pc EXCEPT ![Bootstrap] = "wait_controller"]
    /\ stage' = [stage EXCEPT ![Bootstrap] = "waiting-for-controller"]
    /\ UNCHANGED <<bootGo, services, replicas, patched, readyMasters,
                   watcherVars, clusterVars>>

(* waitForController sees the ready event (wasControllerReadyEventSet).   *)
WaitForController ==
    /\ pc[Bootstrap] = "wait_controller"
    /\ readyEvent
    /\ pc' = [pc EXCEPT ![Bootstrap] = "finalize"]
    /\ UNCHANGED <<stage, bootGo, services, replicas, patched, readyMasters,
                   watcherVars, clusterVars>>

(* Mutant: the predicate returns true when GetCluster fails.             *)
WorkerWaitFor2ReadyMastersErrTrue(h) ==
    /\ pc[h] = "worker_wait"
    /\ pc' = [pc EXCEPT ![h] = "finalize"]
    /\ UNCHANGED <<stage, bootGo, services, replicas, patched, readyMasters,
                   watcherVars, clusterVars>>

(* workerWaitFor2ReadyMasters: the predicate holds on an add-hosts        *)
(* cluster or once two master hosts are at stage done.                    *)
WorkerWaitFor2ReadyMasters(h) ==
    /\ pc[h] = "worker_wait"
    /\ AddHostsCluster \/ numDone >= minMasterNodes
    /\ pc' = [pc EXCEPT ![h] = "finalize"]
    /\ UNCHANGED <<stage, bootGo, services, replicas, patched, readyMasters,
                   watcherVars, clusterVars>>

(* finalize: report rebooting, then reboot (or stop agent.service).       *)
Finalize(h) ==
    /\ pc[h] = "finalize"
    /\ \E r \in finalizeOutcome :
        IF r = "ok"
          THEN /\ pc' = [pc EXCEPT ![h] = "rebooted"]
               /\ stage' = [stage EXCEPT ![h] = "rebooting"]
          ELSE Fail(h)
    /\ UNCHANGED <<bootGo, services, replicas, patched, readyMasters,
                   watcherVars, clusterVars>>

-----------------------------------------------------------------------------
(* startBootstrap, the errgroup goroutine: download the bootstrap         *)
(* ignition, extract it, ssh key and manifest, daemon-reload, hostname,   *)
(* NetworkManager, PrepareController, then start bootkube, approve-csr    *)
(* and progress services.  A failure after bootkube.service started       *)
(* leaves it running.  The goroutine dies with the process.               *)
StartBootstrap ==
    /\ bootGo = "running"
    /\ pc[Bootstrap] # "failed"
    /\ \E r \in Outcomes :
        IF r = "ok"
          THEN bootGo' = "ok" /\ services' = TRUE
          ELSE bootGo' = "fail" /\ services' \in BOOLEAN
    /\ UNCHANGED <<pc, stage, replicas, patched, readyMasters,
                   watcherVars, clusterVars>>

(* getInventoryHostsMap: the enabled hosts of GetEnabledHostsNamesHosts  *)
(* without the current host.                                              *)
getInventoryHostsMap == Hosts \ {Bootstrap}

(* verifyHostCanMoveToConfigurationStatus, with the spec's                *)
(* SetConfiguringStatusForHosts: the hosts of the map, at a stage the map *)
(* does not filter, whose IP appears in the MCS logs.                     *)
verifyHostCanMoveToConfigurationStatus(keys, st) ==
    {h \in keys : st[h] \notin statesToFilter /\ pulled[h]}

(* One tick of updateConfiguringStatus: the map is fetched on the first   *)
(* tick only and kept; the hosts found in the MCS logs are reported       *)
(* configuring (nothing is found when GetMCSLogs fails) and their stage   *)
(* in the map updated; filterAlreadyUpdatedHosts drops the filtered       *)
(* stages; an empty map ends the goroutine.                               *)
UpdateConfiguringStatus ==
    /\ watcher = "running"
    /\ pc[Bootstrap] \notin Terminal
    /\ LET keys0  == IF wfetched THEN wkeys ELSE getInventoryHostsMap
           stage0 == IF wfetched THEN wstage ELSE stage
       IN \E logsOk \in BOOLEAN :
          LET found  == IF logsOk
                          THEN verifyHostCanMoveToConfigurationStatus(keys0, stage0)
                          ELSE {}
              stage1 == [h \in Hosts |-> IF h \in found THEN "configuring" ELSE stage0[h]]
              keys1  == {h \in keys0 : stage1[h] \notin statesToFilter}
          IN /\ stage' = [h \in Hosts |-> IF h \in found THEN "configuring" ELSE stage[h]]
             /\ wfetched' = TRUE
             /\ wstage' = stage1
             /\ wkeys' = keys1
             /\ watcher' = IF keys1 = {} THEN "exited" ELSE "running"
    /\ UNCHANGED <<pc, bootGo, services, replicas, patched, readyMasters, clusterVars>>

-----------------------------------------------------------------------------
(* The environment.                                                        *)

(* bootkube completes and writes its done marker.                         *)
BootkubeComplete ==
    /\ services
    /\ ~bootkubeDone
    /\ bootkubeDone' = TRUE
    /\ UNCHANGED <<installerVars, watcherVars, readyEvent, pulled, nodeReady>>

(* A rebooted host pulls its ignition from the machine-config server,     *)
(* which runs once the bootstrap services are started; its IP enters the  *)
(* MCS log.                                                               *)
PullIgnition(h) ==
    /\ pc[h] = "rebooted"
    /\ services
    /\ ~pulled[h]
    /\ pulled' = [pulled EXCEPT ![h] = TRUE]
    /\ UNCHANGED <<installerVars, watcherVars, bootkubeDone, readyEvent, nodeReady>>

(* The node of a host that pulled its ignition becomes Ready, or stops    *)
(* being Ready.                                                           *)
NodeReadiness(h) ==
    /\ pulled[h]
    /\ nodeReady' = [nodeReady EXCEPT ![h] = ~nodeReady[h]]
    /\ UNCHANGED <<installerVars, watcherVars, bootkubeDone, readyEvent, pulled>>

(* The controller starts once bootkube is done: SetReadyState creates the *)
(* ready event (spec 4.2, Lifecycle).                                     *)
SetReadyState ==
    /\ bootkubeDone
    /\ ~readyEvent
    /\ readyEvent' = TRUE
    /\ UNCHANGED <<installerVars, watcherVars, bootkubeDone, pulled, nodeReady>>

(* The controller's node-progress loop (spec 4.2; the controller tests,  *)
(* "WaitAndUpdateNodesStatus including joined state" and "set installed"):*)
(* a host whose node has registered (it booted from its pulled ignition)  *)
(* is reported joined, Ready or not; a joined host whose node is Ready is *)
(* reported done.                                                         *)
WaitAndUpdateNodesStatus(h) ==
    /\ readyEvent
    /\ \/ /\ stage[h] \notin {"joined", "done"}
          /\ pulled[h]
          /\ stage' = [stage EXCEPT ![h] = "joined"]
       \/ /\ stage[h] = "joined"
          /\ nodeReady[h]
          /\ stage' = [stage EXCEPT ![h] = "done"]
    /\ UNCHANGED <<pc, bootGo, services, replicas, patched, readyMasters,
                   watcherVars, clusterVars>>

(* Every installer process has exited: nothing of the installers is left. *)
Terminated ==
    /\ \A h \in Hosts : pc[h] \in Terminal
    /\ UNCHANGED vars

Next ==
    \/ \E h \in Hosts :
        \/ InstallNode(h)
        \/ WriteImage(h)
        \/ WorkerWaitFor2ReadyMasters(h)
        \/ Finalize(h)
        \/ PullIgnition(h)
        \/ NodeReadiness(h)
        \/ WaitAndUpdateNodesStatus(h)
    \/ WaitForControlPlane
    \/ WaitForMasterNodes
    \/ MinMasterNodesDone
    \/ WaitForBootkube
    \/ WaitForController
    \/ StartBootstrap
    \/ UpdateConfiguringStatus
    \/ BootkubeComplete
    \/ SetReadyState
    \/ Terminated

Spec == Init /\ [][Next]_vars

(* A node that is not Ready becomes Ready.                                 *)
NodeBecomesReady(h) == ~nodeReady[h] /\ NodeReadiness(h)

(* The straight-line part of one host's InstallNode; its steps exclude    *)
(* one another by pc.                                                     *)
InstallerStep(h) == InstallNode(h) \/ WriteImage(h) \/ Finalize(h)

(* The bootstrap's waitForControlPlane sequence, one step per point.      *)
BootstrapStep ==
    WaitForControlPlane \/ MinMasterNodesDone \/ WaitForBootkube \/ WaitForController

(* Fairness.  Installer code runs on once reached, so its steps are      *)
(* weakly fair, the startBootstrap goroutine included.  The polls         *)
(* (WaitForPredicate and the waitFor loops tick forever) are strongly     *)
(* fair where their condition can come and go: the Ready masters of       *)
(* waitForMasterNodes (a node may turn NotReady) and the masters at done  *)
(* of workerWaitFor2ReadyMasters (the watcher may overwrite done).  Of    *)
(* the environment it is assumed, for the control-plane hosts the         *)
(* installers wait on, that bootkube completes once started, a rebooted   *)
(* host pulls its ignition, a node that can keep turning Ready does, and  *)
(* the controller starts and reports Ready nodes.  Nothing is assumed of  *)
(* the configuring watcher.                                               *)
Fairness ==
    /\ \A h \in Hosts : WF_vars(InstallerStep(h)) /\ SF_vars(WorkerWaitFor2ReadyMasters(h))
    /\ WF_vars(BootstrapStep) /\ SF_vars(WaitForMasterNodes) /\ WF_vars(StartBootstrap)
    /\ \A m \in AllMasters :
          /\ WF_vars(PullIgnition(m)) /\ SF_vars(NodeBecomesReady(m))
          /\ SF_vars(WaitAndUpdateNodesStatus(m))
    /\ WF_vars(BootkubeComplete) /\ WF_vars(SetReadyState)

LiveSpec == Spec /\ Fairness

-----------------------------------------------------------------------------
(* Properties.                                                             *)

(* Every variable holds a value of its type.                               *)
TypeOK ==
    /\ pc \in [Hosts -> PCs]
    /\ stage \in [Hosts -> Stages]
    /\ bootGo \in {"idle", "running", "ok", "fail"}
    /\ services \in BOOLEAN
    /\ bootkubeDone \in BOOLEAN
    /\ readyEvent \in BOOLEAN
    /\ replicas \in Nat
    /\ patched \in BOOLEAN
    /\ readyMasters \subseteq Masters
    /\ watcher \in {"off", "running", "exited"}
    /\ wfetched \in BOOLEAN
    /\ wkeys \subseteq Hosts
    /\ wstage \in [Hosts -> Stages]
    /\ pulled \in [Hosts -> BOOLEAN]
    /\ nodeReady \in [Hosts -> BOOLEAN]

(* The bootstrap installer (waitForMinMasterNodes, then finalize) does not *)
(* reach its reboot before at least two of the other masters have         *)
(* themselves rebooted into the cluster.                                   *)
BootstrapRebootsAfterMasters ==
    pc[Bootstrap] \in {"finalize", "rebooted"} =>
        Cardinality({m \in Masters : pc[m] = "rebooted"}) >= minMasterNodes

(* A worker installer (workerWaitFor2ReadyMasters, then finalize) does not *)
(* reach its reboot, outside an add-hosts cluster, before two master      *)
(* hosts have rebooted and pulled their ignition.                          *)
WorkerRebootsAfterMasters ==
    \A w \in Workers :
        pc[w] \in {"finalize", "rebooted"} /\ ~AddHostsCluster =>
            Cardinality({m \in AllMasters : pulled[m]}) >= minMasterNodes

(* The control-plane replicas patch of waitForMinMasterNodes is in force  *)
(* only while the bootstrap waits for the masters, and is left behind only *)
(* by a failed installation: every exit from the wait that goes on        *)
(* restores the install-config's replicas.                                 *)
ReplicasPatchConfined ==
    replicas # ControlPlaneReplicas =>
        pc[Bootstrap] \in {"wait_masters", "masters_ready", "failed"}

(* With no failure, every installer eventually dispatches its reboot:    *)
(* the bootstrap's waits for the masters, bootkube and the controller     *)
(* (no timeout, lines 465, 576, 600) and the workers' wait for two done  *)
(* masters all end, whatever the watcher's stale reports do to stages.    *)
AllRebooted == <>(\A h \in Hosts : pc[h] = "rebooted")

(* The order of the stages in a host's lifetime (spec, section 3).         *)
StageRank ==
    [s \in Stages \ {"failed"} |->
        CASE s = "none" -> 0
          [] s = "starting-installation" -> 1
          [] s = "installing" -> 2
          [] s = "writing-image-to-disk" -> 3
          [] s = "waiting-for-control-plane" -> 4
          [] s = "waiting-for-bootkube" -> 5
          [] s = "waiting-for-controller" -> 6
          [] s = "rebooting" -> 7
          [] s = "configuring" -> 8
          [] s = "joined" -> 9
          [] s = "done" -> 10]

(* The spec (sections 3 and 8): the stages the inventory records for a    *)
(* host follow the lifetime order; only failed may come at any point.     *)
(* The configuring watcher and the bootstrap's joined reports write other *)
(* hosts' stages without reading them first.                              *)
StagesMonotonic ==
    [][\A h \in Hosts :
          stage'[h] # stage[h] /\ stage[h] # "failed" =>
              stage'[h] = "failed" \/ StageRank[stage'[h]] > StageRank[stage[h]]]_stage

(* The spec (section 3): the bootstrap host never reboots before at least *)
(* two other masters have reached stage done.                              *)
BootstrapWaitsForDoneMasters ==
    pc[Bootstrap] \in {"finalize", "rebooted"} =>
        Cardinality({m \in Masters : stage[m] = "done"}) >= minMasterNodes

(* The spec (section 4.1): a master node counts as ready when it is Ready *)
(* and matches an inventory host by name or IP; the bootstrap leaves the  *)
(* master wait only when two such nodes were counted.                     *)
ReadyMastersMatchInventory ==
    pc[Bootstrap] \in {"masters_ready", "wait_bootkube", "wait_controller",
                       "finalize", "rebooted"} =>
        Cardinality(readyMasters \ Unmatched) >= minMasterNodes

(* The refinement mapping: a host whose installer dispatched the reboot   *)
(* has rebooted, one whose installer reported failed has failed, every    *)
(* other host is installing.                                               *)
HostPhase(h) ==
    CASE pc[h] = "rebooted" -> "rebooted"
      [] pc[h] = "failed"   -> "failed"
      [] OTHER              -> "installing"

HostPhases == [h \in Hosts |-> HostPhase(h)]

CB == INSTANCE ClusterBoot WITH phase <- HostPhases

(* The installers, with the environment they observe, implement the      *)
(* spec's promise for the whole cluster: each host reboots or fails at    *)
(* most once, the bootstrap's finalize (after waitForControlPlane) comes  *)
(* after two masters rebooted, and a worker's finalize (after             *)
(* workerWaitFor2ReadyMasters) after two control-plane hosts rebooted.   *)
ClusterBootSpec == CB!Spec

=============================================================================
