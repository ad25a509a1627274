-------------------------- MODULE InstallerProofs --------------------------
(***************************************************************************)
(* Proofs about the node installers of module Installer, for every set of *)
(* hosts and every value of the flags: the type invariant, and that the   *)
(* bootstrap host does not reach its reboot before two other masters have *)
(* rebooted into the cluster.                                              *)
(***************************************************************************)
EXTENDS Installer, FiniteSetTheorems, TLAPS

USE BootstrapAssumption, MastersAssumption, UnmatchedAssumption,
    ReplicasAssumption, FlagsAssumption, HostsAssumption

(* What updateReadyMasters can return: nodes that are Ready masters not    *)
(* yet counted, and joined reports for some of them.                      *)
LEMMA UpdateReadyMastersResult ==
    ASSUME NEW r \in updateReadyMasters
    PROVE  /\ r.added \subseteq {m \in Masters : nodeReady[m]}
           /\ r.joined \subseteq r.added
           /\ r.ok \in BOOLEAN
<1> DEFINE new == {m \in Masters : nodeReady[m]} \ readyMasters
<1>1. CASE new \cap Unmatched = {}
  <2>1. r = [added |-> new, joined |-> new, ok |-> TRUE]
    BY <1>1 DEF updateReadyMasters
  <2>2. QED
    BY <2>1
<1>2. CASE new \cap Unmatched # {}
  <2>1. PICK u \in new \cap Unmatched, before \in SUBSET (new \ Unmatched) :
            r = [added |-> before \cup {u}, joined |-> before, ok |-> FALSE]
    BY <1>2 DEF updateReadyMasters
  <2>2. QED
    BY <2>1
<1>3. QED
  BY <1>1, <1>2

(* The outcomes of a fatal call are success and failure.                   *)
LEMMA OutcomesType == Outcomes \subseteq {"ok", "fail"}
BY DEF Outcomes

(* Where a host goes after writing its image is a point and a stage.       *)
LEMMA AfterWriteType ==
    ASSUME NEW h \in Hosts
    PROVE  AfterWrite(h).pc \in PCs /\ AfterWrite(h).stage \in Stages
<1>1. CASE h = Bootstrap
  BY <1>1 DEF AfterWrite, PCs, Stages
<1>2. CASE h # Bootstrap /\ h \in Workers
  BY <1>2 DEF AfterWrite, PCs, Stages
<1>3. CASE h # Bootstrap /\ h \notin Workers
  BY <1>3 DEF AfterWrite, PCs, Stages
<1>4. QED
  BY <1>1, <1>2, <1>3

(* Every step of an installer, of a goroutine or of the environment keeps *)
(* every variable within its type.                                         *)
LEMMA TypeOKStep == TypeOK /\ [Next]_vars => TypeOK'
<1> SUFFICES ASSUME TypeOK, [Next]_vars PROVE TypeOK'
  OBVIOUS
<1> USE DEF TypeOK
<1>1. ASSUME NEW h \in Hosts, InstallNode(h) PROVE TypeOK'
  <2>1. PICK clean \in cleanupInstallDevice, dl \in downloadHostIgnition :
          \/ /\ clean = "fail"
             /\ Fail(h)
             /\ UNCHANGED <<bootGo, watcher>>
          \/ /\ clean = "ok"
             /\ bootGo' = IF h = Bootstrap THEN "running" ELSE bootGo
             /\ watcher' = IF h = Bootstrap THEN "running" ELSE watcher
             /\ IF dl = "ok"
                  THEN /\ pc' = [pc EXCEPT ![h] = "write"]
                       /\ stage' = [stage EXCEPT ![h] = "installing"]
                  ELSE Fail(h)
    BY <1>1 DEF InstallNode
  <2>2. UNCHANGED <<services, replicas, patched, readyMasters,
                    wfetched, wkeys, wstage, clusterVars>>
    BY <1>1 DEF InstallNode
  <2>3. pc' \in [Hosts -> PCs] /\ stage' \in [Hosts -> Stages]
    BY <2>1 DEF Fail, PCs, Stages
  <2>4. bootGo' \in {"idle", "running", "ok", "fail"} /\ watcher' \in {"off", "running", "exited"}
    BY <2>1
  <2>5. QED
    BY <2>2, <2>3, <2>4 DEF clusterVars
<1>2. ASSUME NEW h \in Hosts, WriteImage(h) PROVE TypeOK'
  <2>1. PICK w \in writeImageToDisk :
          IF w = "ok"
            THEN /\ pc' = [pc EXCEPT ![h] = AfterWrite(h).pc]
                 /\ stage' = [stage EXCEPT ![h] = AfterWrite(h).stage]
            ELSE Fail(h)
    BY <1>2 DEF WriteImage
  <2>2. pc' \in [Hosts -> PCs] /\ stage' \in [Hosts -> Stages]
    BY <2>1, AfterWriteType DEF Fail, PCs, Stages
  <2>3. QED
    BY <1>2, <2>2 DEF WriteImage, watcherVars, clusterVars
<1>3. ASSUME NEW h \in Hosts, WorkerWaitFor2ReadyMasters(h) PROVE TypeOK'
  BY <1>3 DEF WorkerWaitFor2ReadyMasters, PCs, watcherVars, clusterVars
<1>4. ASSUME NEW h \in Hosts, Finalize(h) PROVE TypeOK'
  <2>1. PICK r \in finalizeOutcome :
          IF r = "ok"
            THEN /\ pc' = [pc EXCEPT ![h] = "rebooted"]
                 /\ stage' = [stage EXCEPT ![h] = "rebooting"]
            ELSE Fail(h)
    BY <1>4 DEF Finalize
  <2>2. pc' \in [Hosts -> PCs] /\ stage' \in [Hosts -> Stages]
    BY <2>1 DEF Fail, PCs, Stages
  <2>3. QED
    BY <1>4, <2>2 DEF Finalize, watcherVars, clusterVars
<1>5. ASSUME NEW h \in Hosts, PullIgnition(h) PROVE TypeOK'
  BY <1>5 DEF PullIgnition, installerVars, watcherVars
<1>6. ASSUME NEW h \in Hosts, NodeReadiness(h) PROVE TypeOK'
  BY <1>6 DEF NodeReadiness, installerVars, watcherVars
<1>7. ASSUME NEW h \in Hosts, WaitAndUpdateNodesStatus(h) PROVE TypeOK'
  BY <1>7 DEF WaitAndUpdateNodesStatus, clusterVars, watcherVars, Stages
<1>8. CASE WaitForControlPlane
  <2>1. PICK r \in Outcomes :
          IF bootGo = "ok" /\ r = "ok"
            THEN /\ pc' = [pc EXCEPT ![Bootstrap] = "wait_masters"]
                 /\ stage' = [stage EXCEPT ![Bootstrap] = "waiting-for-control-plane"]
                 /\ patched' = shouldControlPlaneReplicasPatchApplied
                 /\ replicas' = IF shouldControlPlaneReplicasPatchApplied
                                  THEN minMasterNodes ELSE replicas
            ELSE /\ Fail(Bootstrap)
                 /\ UNCHANGED <<patched, replicas>>
    BY <1>8 DEF WaitForControlPlane
  <2>2. /\ pc' \in [Hosts -> PCs] /\ stage' \in [Hosts -> Stages]
        /\ patched' \in BOOLEAN /\ replicas' \in Nat
    <3>1. CASE bootGo = "ok" /\ r = "ok"
      <4>1. shouldControlPlaneReplicasPatchApplied \in BOOLEAN
        BY DEF shouldControlPlaneReplicasPatchApplied
      <4>2. QED
        BY <2>1, <3>1, <4>1 DEF PCs, Stages, minMasterNodes
    <3>2. CASE ~(bootGo = "ok" /\ r = "ok")
      BY <2>1, <3>2 DEF Fail, PCs, Stages
    <3>3. QED
      BY <3>1, <3>2
  <2>3. QED
    BY <1>8, <2>2 DEF WaitForControlPlane, watcherVars, clusterVars
<1>9. CASE WaitForMasterNodes
  <2>1. PICK r \in updateReadyMasters :
          /\ readyMasters' = readyMasters \cup r.added
          /\ stage' = [h \in Hosts |-> IF h \in r.joined THEN "joined" ELSE stage[h]]
          /\ pc' = IF r.ok /\ Cardinality(readyMasters') >= minMasterNodes
                     THEN [pc EXCEPT ![Bootstrap] = "masters_ready"]
                     ELSE pc
    BY <1>9 DEF WaitForMasterNodes
  <2>2. r.added \subseteq Masters
    BY UpdateReadyMastersResult
  <2>3. QED
    BY <1>9, <2>1, <2>2 DEF WaitForMasterNodes, PCs, Stages, watcherVars, clusterVars
<1>10. CASE MinMasterNodesDone
  <2>1. PICK r \in Outcomes :
          IF r = "ok"
            THEN /\ pc' = [pc EXCEPT ![Bootstrap] = "wait_bootkube"]
                 /\ stage' = [stage EXCEPT ![Bootstrap] = "waiting-for-bootkube"]
                 /\ replicas' = IF patched THEN numMasterNodes ELSE replicas
            ELSE /\ Fail(Bootstrap)
                 /\ UNCHANGED replicas
    BY <1>10 DEF MinMasterNodesDone
  <2>2. pc' \in [Hosts -> PCs] /\ stage' \in [Hosts -> Stages] /\ replicas' \in Nat
    BY <2>1 DEF Fail, PCs, Stages, numMasterNodes
  <2>3. QED
    BY <1>10, <2>2 DEF MinMasterNodesDone, watcherVars, clusterVars
<1>11. CASE WaitForBootkube
  BY <1>11 DEF WaitForBootkube, PCs, Stages, watcherVars, clusterVars
<1>12. CASE WaitForController
  BY <1>12 DEF WaitForController, PCs, watcherVars, clusterVars
<1>13. CASE StartBootstrap
  <2>1. bootGo' \in {"ok", "fail"} /\ services' \in BOOLEAN
    BY <1>13 DEF StartBootstrap
  <2>2. QED
    BY <1>13, <2>1 DEF StartBootstrap, watcherVars, clusterVars
<1>14. CASE UpdateConfiguringStatus
  BY <1>14 DEF UpdateConfiguringStatus, getInventoryHostsMap,
     verifyHostCanMoveToConfigurationStatus, Stages, clusterVars
<1>15. CASE BootkubeComplete
  BY <1>15 DEF BootkubeComplete, installerVars, watcherVars
<1>16. CASE SetReadyState
  BY <1>16 DEF SetReadyState, installerVars, watcherVars
<1>17. CASE Terminated \/ UNCHANGED vars
  BY <1>17 DEF Terminated, vars, installerVars, watcherVars, clusterVars
<1>18. QED
  BY <1>1, <1>2, <1>3, <1>4, <1>5, <1>6, <1>7, <1>8, <1>9, <1>10, <1>11,
     <1>12, <1>13, <1>14, <1>15, <1>16, <1>17 DEF Next

(* Every variable of the installers, goroutines and environment keeps its  *)
(* type in every reachable state.                                          *)
THEOREM TypeCorrect == Spec => []TypeOK
<1>1. Init => TypeOK
  BY DEF Init, TypeOK, Stages, PCs
<1>2. QED
  BY <1>1, TypeOKStep, PTL DEF Spec

-----------------------------------------------------------------------------
(* The points of the bootstrap's InstallNode past waitForMasterNodes.      *)
PastMasterWait ==
    {"masters_ready", "wait_bootkube", "wait_controller", "finalize", "rebooted"}

(* The inductive strengthening of BootstrapRebootsAfterMasters: a host     *)
(* pulls its ignition only after its installer rebooted it, a node is     *)
(* Ready only after its host pulled, waitForMasterNodes counts only Ready *)
(* nodes, and the bootstrap is past that wait only with two counted.      *)
MastersRebootedInv ==
    /\ TypeOK
    /\ \A h \in Hosts : pulled[h] => pc[h] = "rebooted"
    /\ \A h \in Hosts : nodeReady[h] => pulled[h]
    /\ \A m \in readyMasters : pulled[m]
    /\ pc[Bootstrap] # "worker_wait"
    /\ pc[Bootstrap] \in PastMasterWait => Cardinality(readyMasters) >= minMasterNodes

(* A step of one installer that moves host h from a point other than     *)
(* rebooted to point v, and touches neither the cluster's view of the     *)
(* hosts nor the bootstrap's count, keeps the strengthening, provided     *)
(* the bootstrap never enters the worker wait and enters the points past  *)
(* the master wait only from one of them.                                 *)
LEMMA InstallerStepKeepsInv ==
    ASSUME MastersRebootedInv, TypeOK',
           NEW h \in Hosts, NEW v \in PCs,
           pc' = [pc EXCEPT ![h] = v],
           pc[h] # "rebooted",
           UNCHANGED <<pulled, nodeReady, readyMasters>>,
           h = Bootstrap => v # "worker_wait",
           h = Bootstrap /\ v \in PastMasterWait => pc[h] \in PastMasterWait
    PROVE  MastersRebootedInv'
<1> USE DEF MastersRebootedInv, TypeOK
<1>1. \A x \in Hosts : pulled'[x] => pc'[x] = "rebooted"
  OBVIOUS
<1>2. pc'[Bootstrap] # "worker_wait"
  OBVIOUS
<1>3. pc'[Bootstrap] \in PastMasterWait => Cardinality(readyMasters') >= minMasterNodes
  OBVIOUS
<1>4. QED
  BY <1>1, <1>2, <1>3

(* The installers' and the environment's steps keep the strengthening.   *)
LEMMA MastersRebootedStep == MastersRebootedInv /\ [Next]_vars => MastersRebootedInv'
<1> SUFFICES ASSUME MastersRebootedInv, [Next]_vars PROVE MastersRebootedInv'
  OBVIOUS
<1>0. TypeOK'
  BY TypeOKStep DEF MastersRebootedInv
<1> USE <1>0
<1>1. ASSUME NEW h \in Hosts, InstallNode(h) PROVE MastersRebootedInv'
  <2>1. \E v \in {"write", "failed"} : pc' = [pc EXCEPT ![h] = v]
    BY <1>1 DEF InstallNode, Fail
  <2>2. QED
    BY <1>1, <2>1, InstallerStepKeepsInv
       DEF InstallNode, clusterVars, PCs, PastMasterWait, MastersRebootedInv, TypeOK
<1>2. ASSUME NEW h \in Hosts, WriteImage(h) PROVE MastersRebootedInv'
  <2>1. \E v \in {AfterWrite(h).pc, "failed"} : pc' = [pc EXCEPT ![h] = v]
    BY <1>2 DEF WriteImage, Fail
  <2>2. h = Bootstrap => AfterWrite(h).pc = "wait_bootstrap"
    BY DEF AfterWrite, Workers
  <2>3. PICK v \in {AfterWrite(h).pc, "failed"} : pc' = [pc EXCEPT ![h] = v]
    BY <2>1
  <2>4. v \in PCs /\ (h = Bootstrap => v \notin PastMasterWait \cup {"worker_wait"})
    BY <2>2, <2>3, AfterWriteType DEF PCs, PastMasterWait
  <2>5. pc[h] # "rebooted" /\ UNCHANGED <<pulled, nodeReady, readyMasters>>
    BY <1>2 DEF WriteImage, clusterVars
  <2>6. QED
    BY <2>3, <2>4, <2>5, InstallerStepKeepsInv
<1>3. ASSUME NEW h \in Hosts, WorkerWaitFor2ReadyMasters(h) PROVE MastersRebootedInv'
  BY <1>3, InstallerStepKeepsInv
     DEF WorkerWaitFor2ReadyMasters, clusterVars, PCs, PastMasterWait, MastersRebootedInv, TypeOK
<1>4. ASSUME NEW h \in Hosts, Finalize(h) PROVE MastersRebootedInv'
  <2>1. \E v \in {"rebooted", "failed"} : pc' = [pc EXCEPT ![h] = v]
    BY <1>4 DEF Finalize, Fail
  <2>2. QED
    BY <1>4, <2>1, InstallerStepKeepsInv
       DEF Finalize, clusterVars, PCs, PastMasterWait, MastersRebootedInv, TypeOK
<1>5. ASSUME NEW h \in Hosts, PullIgnition(h) PROVE MastersRebootedInv'
  BY <1>5 DEF PullIgnition, installerVars, MastersRebootedInv, TypeOK
<1>6. ASSUME NEW h \in Hosts, NodeReadiness(h) PROVE MastersRebootedInv'
  BY <1>6 DEF NodeReadiness, installerVars, MastersRebootedInv, TypeOK
<1>7. CASE WaitForControlPlane
  <2>1. \E v \in {"wait_masters", "failed"} : pc' = [pc EXCEPT ![Bootstrap] = v]
    BY <1>7 DEF WaitForControlPlane, Fail
  <2>2. QED
    BY <1>7, <2>1, InstallerStepKeepsInv
       DEF WaitForControlPlane, clusterVars, PCs, PastMasterWait, MastersRebootedInv, TypeOK
<1>8. CASE WaitForMasterNodes
  <2>1. PICK r \in updateReadyMasters :
          /\ readyMasters' = readyMasters \cup r.added
          /\ pc' = IF r.ok /\ Cardinality(readyMasters') >= minMasterNodes
                     THEN [pc EXCEPT ![Bootstrap] = "masters_ready"]
                     ELSE pc
    BY <1>8 DEF WaitForMasterNodes
  <2>2. UNCHANGED <<pulled, nodeReady>>
    BY <1>8 DEF WaitForMasterNodes, clusterVars
  <2>3. \A m \in readyMasters' : pulled'[m]
    BY <2>1, <2>2, UpdateReadyMastersResult DEF MastersRebootedInv
  <2>4. pc[Bootstrap] = "wait_masters"
    BY <1>8 DEF WaitForMasterNodes
  <2>5. \A x \in Hosts : pulled'[x] => pc'[x] = "rebooted"
    BY <2>1, <2>2, <2>4 DEF MastersRebootedInv, TypeOK
  <2>6. pc'[Bootstrap] # "worker_wait"
    BY <2>1, <2>4 DEF TypeOK
  <2>7. pc'[Bootstrap] \in PastMasterWait => Cardinality(readyMasters') >= minMasterNodes
    BY <2>1, <2>4 DEF TypeOK, PastMasterWait
  <2>8. QED
    BY <2>2, <2>3, <2>5, <2>6, <2>7 DEF MastersRebootedInv
<1>9. CASE MinMasterNodesDone
  <2>1. \E v \in {"wait_bootkube", "failed"} : pc' = [pc EXCEPT ![Bootstrap] = v]
    BY <1>9 DEF MinMasterNodesDone, Fail
  <2>2. QED
    BY <1>9, <2>1, InstallerStepKeepsInv
       DEF MinMasterNodesDone, clusterVars, PCs, PastMasterWait, MastersRebootedInv, TypeOK
<1>10. CASE WaitForBootkube
  BY <1>10, InstallerStepKeepsInv
     DEF WaitForBootkube, clusterVars, PCs, PastMasterWait, MastersRebootedInv, TypeOK
<1>11. CASE WaitForController
  BY <1>11, InstallerStepKeepsInv
     DEF WaitForController, clusterVars, PCs, PastMasterWait, MastersRebootedInv, TypeOK
<1>12. CASE \/ \E h \in Hosts : WaitAndUpdateNodesStatus(h)
            \/ StartBootstrap \/ UpdateConfiguringStatus
            \/ BootkubeComplete \/ SetReadyState
            \/ Terminated \/ UNCHANGED vars
  <2>1. UNCHANGED <<pc, pulled, nodeReady, readyMasters>>
    BY <1>12 DEF WaitAndUpdateNodesStatus, StartBootstrap, UpdateConfiguringStatus,
       BootkubeComplete, SetReadyState, Terminated, vars, installerVars, clusterVars
  <2>2. QED
    BY <2>1 DEF MastersRebootedInv
<1>13. QED
  BY <1>1, <1>2, <1>3, <1>4, <1>5, <1>6, <1>7, <1>8, <1>9, <1>10, <1>11, <1>12 DEF Next

(* The strengthening gives the property: the masters waitForMasterNodes   *)
(* counted have all rebooted, and there are two of them.                  *)
LEMMA MastersRebootedInvImplies == MastersRebootedInv => BootstrapRebootsAfterMasters
<1> SUFFICES ASSUME MastersRebootedInv, pc[Bootstrap] \in {"finalize", "rebooted"}
             PROVE  Cardinality({m \in Masters : pc[m] = "rebooted"}) >= minMasterNodes
  BY DEF BootstrapRebootsAfterMasters
<1> DEFINE R == {m \in Masters : pc[m] = "rebooted"}
<1>1. IsFiniteSet(Masters)
  BY FS_Subset
<1>2. IsFiniteSet(R) /\ Cardinality(R) \in Nat
  BY <1>1, FS_Subset, FS_CardinalityType
<1>3. readyMasters \subseteq R
  BY DEF MastersRebootedInv, TypeOK
<1>4. Cardinality(readyMasters) <= Cardinality(R)
  BY <1>2, <1>3, FS_Subset
<1>5. Cardinality(readyMasters) >= minMasterNodes
  BY DEF MastersRebootedInv, PastMasterWait
<1>6. IsFiniteSet(readyMasters) /\ Cardinality(readyMasters) \in Nat
  BY <1>2, <1>3, FS_Subset, FS_CardinalityType
<1>7. QED
  BY <1>2, <1>4, <1>5, <1>6 DEF minMasterNodes

(* The bootstrap installer reaches finalize (and its reboot) only after   *)
(* two other masters rebooted, for every cluster and every set of hosts.  *)
THEOREM BootstrapRebootsAfterMastersCorrect == Spec => []BootstrapRebootsAfterMasters
<1>1. Init => MastersRebootedInv
  BY DEF Init, MastersRebootedInv, TypeOK, Stages, PCs, PastMasterWait
<1>2. QED
  BY <1>1, MastersRebootedStep, MastersRebootedInvImplies, PTL DEF Spec

-----------------------------------------------------------------------------
(* The points of the bootstrap's InstallNode at which the replicas patch  *)
(* of waitForMinMasterNodes may be in force.                              *)
PatchWindow == {"wait_masters", "masters_ready"}

(* The inductive strengthening of ReplicasPatchConfined: the patch is     *)
(* decided only when the replicas still have the install-config's value,  *)
(* so a patch implies three replicas were configured; inside the window   *)
(* the replicas are two exactly when patched; outside it, and short of a  *)
(* failure, they are the install-config's.                                *)
ReplicasInv ==
    /\ TypeOK
    /\ patched => ControlPlaneReplicas = numMasterNodes
    /\ pc[Bootstrap] \in PatchWindow =>
           replicas = IF patched THEN minMasterNodes ELSE ControlPlaneReplicas
    /\ pc[Bootstrap] \notin PatchWindow \cup {"failed"} => replicas = ControlPlaneReplicas
(* A step that leaves the replicas and the patch decision alone, and      *)
(* moves the bootstrap only to a failure or between points outside the    *)
(* patch window, keeps the strengthening.                                 *)
LEMMA ReplicasKeep ==
    ASSUME ReplicasInv, TypeOK', UNCHANGED <<replicas, patched>>,
           \/ pc'[Bootstrap] = pc[Bootstrap]
           \/ pc'[Bootstrap] = "failed"
           \/ pc[Bootstrap] \notin PatchWindow \cup {"failed"} /\ pc'[Bootstrap] \notin PatchWindow
    PROVE  ReplicasInv'
BY DEF ReplicasInv, PatchWindow

(* One installer moving host h from point u to point v, in the shape of   *)
(* InstallNode, WriteImage, WorkerWaitFor2ReadyMasters and Finalize.      *)
LEMMA HostMoveKeepsReplicas ==
    ASSUME ReplicasInv, TypeOK', UNCHANGED <<replicas, patched>>,
           NEW h \in Hosts, NEW v, pc' = [pc EXCEPT ![h] = v],
           h = Bootstrap => v = "failed" \/ (pc[h] \notin PatchWindow \cup {"failed"}
                                              /\ v \notin PatchWindow)
    PROVE  ReplicasInv'
<1>1. CASE h = Bootstrap
  BY <1>1, ReplicasKeep DEF ReplicasInv, TypeOK
<1>2. CASE h # Bootstrap
  BY <1>2, ReplicasKeep DEF ReplicasInv, TypeOK
<1>3. QED
  BY <1>1, <1>2

(* Every step keeps the strengthening.                                     *)
LEMMA ReplicasInvStep == ReplicasInv /\ [Next]_vars => ReplicasInv'
<1> SUFFICES ASSUME ReplicasInv, [Next]_vars PROVE ReplicasInv'
  OBVIOUS
<1>0. TypeOK'
  BY TypeOKStep DEF ReplicasInv
<1> USE <1>0
<1>1. ASSUME NEW h \in Hosts, InstallNode(h) PROVE ReplicasInv'
  <2>1. PICK v \in {"write", "failed"} : pc' = [pc EXCEPT ![h] = v]
    BY <1>1 DEF InstallNode, Fail
  <2>2. pc[h] = "init" /\ UNCHANGED <<replicas, patched>>
    BY <1>1 DEF InstallNode
  <2>3. QED
    BY <2>1, <2>2, HostMoveKeepsReplicas DEF PatchWindow
<1>2. ASSUME NEW h \in Hosts, WriteImage(h) PROVE ReplicasInv'
  <2>1. PICK v \in {AfterWrite(h).pc, "failed"} : pc' = [pc EXCEPT ![h] = v]
    BY <1>2 DEF WriteImage, Fail
  <2>2. pc[h] = "write" /\ UNCHANGED <<replicas, patched>>
    BY <1>2 DEF WriteImage
  <2>3. h = Bootstrap => AfterWrite(h).pc = "wait_bootstrap"
    BY DEF AfterWrite, Workers
  <2>4. QED
    BY <2>1, <2>2, <2>3, HostMoveKeepsReplicas DEF PatchWindow
<1>3. ASSUME NEW h \in Hosts, WorkerWaitFor2ReadyMasters(h) PROVE ReplicasInv'
  BY <1>3, HostMoveKeepsReplicas DEF WorkerWaitFor2ReadyMasters, PatchWindow
<1>4. ASSUME NEW h \in Hosts, Finalize(h) PROVE ReplicasInv'
  <2>1. PICK v \in {"rebooted", "failed"} : pc' = [pc EXCEPT ![h] = v]
    BY <1>4 DEF Finalize, Fail
  <2>2. pc[h] = "finalize" /\ UNCHANGED <<replicas, patched>>
    BY <1>4 DEF Finalize
  <2>3. QED
    BY <2>1, <2>2, HostMoveKeepsReplicas DEF PatchWindow
<1>5. CASE WaitForControlPlane
  <2>1. pc[Bootstrap] = "wait_bootstrap"
    BY <1>5 DEF WaitForControlPlane
  <2>2. replicas = ControlPlaneReplicas
    BY <2>1 DEF ReplicasInv, PatchWindow
  <2>3. PICK r \in Outcomes :
          IF bootGo = "ok" /\ r = "ok"
            THEN /\ pc' = [pc EXCEPT ![Bootstrap] = "wait_masters"]
                 /\ patched' = shouldControlPlaneReplicasPatchApplied
                 /\ replicas' = IF shouldControlPlaneReplicasPatchApplied
                                  THEN minMasterNodes ELSE replicas
            ELSE /\ pc' = [pc EXCEPT ![Bootstrap] = "failed"]
                 /\ UNCHANGED <<patched, replicas>>
    BY <1>5 DEF WaitForControlPlane, Fail
  <2>4. CASE bootGo = "ok" /\ r = "ok"
    BY <2>2, <2>3, <2>4 DEF ReplicasInv, TypeOK, PatchWindow,
       shouldControlPlaneReplicasPatchApplied
  <2>5. CASE ~(bootGo = "ok" /\ r = "ok")
    BY <2>3, <2>5, ReplicasKeep DEF ReplicasInv, TypeOK
  <2>6. QED
    BY <2>4, <2>5
<1>6. CASE WaitForMasterNodes
  <2>1. pc[Bootstrap] = "wait_masters" /\ UNCHANGED <<replicas, patched>>
    BY <1>6 DEF WaitForMasterNodes
  <2>2. pc'[Bootstrap] \in PatchWindow
    BY <1>6, <2>1 DEF WaitForMasterNodes, ReplicasInv, TypeOK, PatchWindow
  <2>3. QED
    BY <2>1, <2>2 DEF ReplicasInv, PatchWindow
<1>7. CASE MinMasterNodesDone
  <2>1. pc[Bootstrap] = "masters_ready" /\ UNCHANGED patched
    BY <1>7 DEF MinMasterNodesDone
  <2>2. replicas = IF patched THEN minMasterNodes ELSE ControlPlaneReplicas
    BY <2>1 DEF ReplicasInv, PatchWindow
  <2>3. PICK r \in Outcomes :
          IF r = "ok"
            THEN /\ pc' = [pc EXCEPT ![Bootstrap] = "wait_bootkube"]
                 /\ replicas' = IF patched THEN numMasterNodes ELSE replicas
            ELSE /\ pc' = [pc EXCEPT ![Bootstrap] = "failed"]
                 /\ UNCHANGED replicas
    BY <1>7 DEF MinMasterNodesDone, Fail
  <2>4. CASE r = "ok"
    BY <2>1, <2>2, <2>3, <2>4 DEF ReplicasInv, TypeOK, PatchWindow
  <2>5. CASE r # "ok"
    BY <2>1, <2>3, <2>5, ReplicasKeep DEF ReplicasInv, TypeOK
  <2>6. QED
    BY <2>4, <2>5
<1>8. CASE WaitForBootkube \/ WaitForController
  <2>1. pc[Bootstrap] \in {"wait_bootkube", "wait_controller"}
        /\ pc' = [pc EXCEPT ![Bootstrap] = IF pc[Bootstrap] = "wait_bootkube"
                                             THEN "wait_controller" ELSE "finalize"]
        /\ UNCHANGED <<replicas, patched>>
    BY <1>8 DEF WaitForBootkube, WaitForController
  <2>2. QED
    BY <2>1, HostMoveKeepsReplicas DEF PatchWindow
<1>9. CASE \/ \E h \in Hosts : PullIgnition(h) \/ NodeReadiness(h) \/ WaitAndUpdateNodesStatus(h)
           \/ StartBootstrap \/ UpdateConfiguringStatus
           \/ BootkubeComplete \/ SetReadyState
           \/ Terminated \/ UNCHANGED vars
  <2>1. UNCHANGED <<pc, replicas, patched>>
    BY <1>9 DEF PullIgnition, NodeReadiness, WaitAndUpdateNodesStatus, StartBootstrap,
       UpdateConfiguringStatus, BootkubeComplete, SetReadyState, Terminated, vars,
       installerVars
  <2>2. QED
    BY <2>1, ReplicasKeep
<1>10. QED
  BY <1>1, <1>2, <1>3, <1>4, <1>5, <1>6, <1>7, <1>8, <1>9 DEF Next

(* The control-plane replicas patch applied by waitForMinMasterNodes is   *)
(* in force only while the bootstrap waits for the masters, or after a    *)
(* failed installation, for every cluster and every version and network.  *)
THEOREM ReplicasPatchConfinedCorrect == Spec => []ReplicasPatchConfined
<1>1. Init => ReplicasInv
  BY DEF Init, ReplicasInv, TypeOK, Stages, PCs, PatchWindow
<1>2. ReplicasInv => ReplicasPatchConfined
  BY DEF ReplicasInv, ReplicasPatchConfined, PatchWindow
<1>3. QED
  BY <1>1, <1>2, ReplicasInvStep, PTL DEF Spec
=============================================================================
