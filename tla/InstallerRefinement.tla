------------------------ MODULE InstallerRefinement ------------------------
(***************************************************************************)
(* Proofs that the workers wait for the masters (WorkerRebootsAfterMasters)*)
(* and that the installers of a highly-available cluster implement the    *)
(* abstract ClusterBoot specification under the mapping HostPhase.         *)
(***************************************************************************)
EXTENDS InstallerProofs

USE HostsAssumption, BootstrapAssumption, MastersAssumption, UnmatchedAssumption,
    ReplicasAssumption, FlagsAssumption

(* The control-plane hosts that pulled their ignition.                     *)
PulledMasters == {m \in AllMasters : pulled[m]}

(* The strengthening of WorkerRebootsAfterMasters: only the controller     *)
(* reports done, and only for a host whose node is Ready, so a host at    *)
(* done has pulled its ignition; and a worker past                        *)
(* workerWaitFor2ReadyMasters saw two control-plane hosts at done.        *)
WorkerInv ==
    /\ \A h \in Hosts : stage[h] = "done" => pulled[h]
    /\ ~AddHostsCluster =>
         \A w \in Workers : pc[w] \in {"finalize", "rebooted"} =>
            Cardinality(PulledMasters) >= minMasterNodes

(* The two strengthenings together.                                        *)
RefInv == MastersRebootedInv /\ WorkerInv

(* Every subset of the hosts is finite, and its size a natural number.    *)
LEMMA HostSubsetFinite ==
    ASSUME NEW S, S \subseteq Hosts
    PROVE  IsFiniteSet(S) /\ Cardinality(S) \in Nat
BY FS_Subset, FS_CardinalityType

(* If S has at least n elements and S is a subset of T, so has T.         *)
LEMMA CardinalityGrows ==
    ASSUME NEW S, NEW T, NEW n \in Nat, S \subseteq T, T \subseteq Hosts,
           Cardinality(S) >= n
    PROVE  Cardinality(T) >= n
BY HostSubsetFinite, FS_Subset

(* A step of one installer that moves host h to point v, reports done for *)
(* no host and pulls no ignition keeps the worker strengthening, provided *)
(* a worker enters finalize only from finalize or rebooted.               *)
LEMMA WorkerStepKeepsInv ==
    ASSUME WorkerInv, pc \in [Hosts -> PCs],
           NEW h \in Hosts, NEW v,
           pc' = [pc EXCEPT ![h] = v],
           UNCHANGED pulled,
           \A x \in Hosts : stage'[x] = "done" => stage[x] = "done",
           h \in Workers /\ v \in {"finalize", "rebooted"} => pc[h] \in {"finalize", "rebooted"}
    PROVE  WorkerInv'
<1>1. PulledMasters' = PulledMasters
  BY DEF PulledMasters
<1>2. \A x \in Hosts : stage'[x] = "done" => pulled'[x]
  BY DEF WorkerInv
<1>3. ~AddHostsCluster =>
        \A w \in Workers : pc'[w] \in {"finalize", "rebooted"} =>
           Cardinality(PulledMasters') >= minMasterNodes
  BY <1>1 DEF WorkerInv, PulledMasters, Workers
<1>4. QED
  BY <1>2, <1>3 DEF WorkerInv, PulledMasters

(* The steps keep the worker strengthening.                                *)
LEMMA WorkerInvStep == RefInv /\ [Next]_vars => WorkerInv'
<1> SUFFICES ASSUME RefInv, [Next]_vars PROVE WorkerInv'
  OBVIOUS
<1> USE DEF RefInv
<1>0. /\ AllMasters \subseteq Hosts /\ PulledMasters \subseteq Hosts
      /\ pc \in [Hosts -> PCs] /\ stage \in [Hosts -> Stages]
  BY DEF AllMasters, PulledMasters, MastersRebootedInv, TypeOK
<1>1. ASSUME NEW h \in Hosts, WorkerWaitFor2ReadyMasters(h) PROVE WorkerInv'
  <2>1. ~AddHostsCluster => numDone >= minMasterNodes
    BY <1>1 DEF WorkerWaitFor2ReadyMasters
  <2>2. {m \in AllMasters : stage[m] = "done"} \subseteq PulledMasters
    BY <1>0 DEF WorkerInv, PulledMasters
  <2>3. ~AddHostsCluster => Cardinality(PulledMasters) >= minMasterNodes
    BY <1>0, <2>1, <2>2, CardinalityGrows DEF numDone, minMasterNodes
  <2>4. PulledMasters' = PulledMasters
    BY <1>1 DEF WorkerWaitFor2ReadyMasters, PulledMasters, clusterVars
  <2>5. \A x \in Hosts : stage'[x] = "done" => pulled'[x]
    BY <1>1 DEF WorkerWaitFor2ReadyMasters, WorkerInv, clusterVars
  <2>6. ~AddHostsCluster =>
          \A w \in Workers : pc'[w] \in {"finalize", "rebooted"} =>
             Cardinality(PulledMasters') >= minMasterNodes
    BY <1>0, <1>1, <2>3, <2>4 DEF WorkerWaitFor2ReadyMasters, WorkerInv, PulledMasters, Workers
  <2>7. QED
    BY <2>5, <2>6 DEF WorkerInv, PulledMasters
<1>2. ASSUME NEW h \in Hosts, PullIgnition(h) PROVE WorkerInv'
  <2>1. PulledMasters \subseteq PulledMasters'
    BY <1>2 DEF PullIgnition, PulledMasters, AllMasters, MastersRebootedInv, TypeOK
  <2>2. PulledMasters' \subseteq Hosts
    BY DEF PulledMasters, AllMasters
  <2>3. ~AddHostsCluster =>
          \A w \in Workers : pc'[w] \in {"finalize", "rebooted"} =>
             Cardinality(PulledMasters') >= minMasterNodes
    BY <1>2, <2>1, <2>2, CardinalityGrows
       DEF PullIgnition, installerVars, WorkerInv, PulledMasters, minMasterNodes
  <2>4. \A x \in Hosts : stage'[x] = "done" => pulled'[x]
    BY <1>0, <1>2 DEF PullIgnition, installerVars, WorkerInv, MastersRebootedInv, TypeOK
  <2>5. QED
    BY <2>3, <2>4 DEF WorkerInv, PulledMasters
<1>3. ASSUME NEW h \in Hosts, WaitAndUpdateNodesStatus(h) PROVE WorkerInv'
  BY <1>0, <1>3 DEF WaitAndUpdateNodesStatus, WorkerInv, PulledMasters, MastersRebootedInv,
     TypeOK, clusterVars
<1>4. ASSUME NEW h \in Hosts, InstallNode(h) PROVE WorkerInv'
  <2>1. PICK v \in {"write", "failed"} : pc' = [pc EXCEPT ![h] = v]
                                       /\ stage' = [stage EXCEPT ![h] = IF v = "write" THEN "installing" ELSE "failed"]
    BY <1>4 DEF InstallNode, Fail
  <2>2. QED
    BY <1>0, <1>4, <2>1, WorkerStepKeepsInv DEF InstallNode, clusterVars
<1>5. ASSUME NEW h \in Hosts, WriteImage(h) PROVE WorkerInv'
  <2>1. PICK v \in {AfterWrite(h).pc, "failed"} : pc' = [pc EXCEPT ![h] = v]
    BY <1>5 DEF WriteImage, Fail
  <2>2. \/ stage' = [stage EXCEPT ![h] = AfterWrite(h).stage]
        \/ stage' = [stage EXCEPT ![h] = "failed"]
    BY <1>5 DEF WriteImage, Fail
  <2>3. AfterWrite(h).stage # "done" /\ (h \in Workers => AfterWrite(h).pc = "worker_wait")
    BY DEF AfterWrite, Workers
  <2>4. \A x \in Hosts : stage'[x] = "done" => stage[x] = "done"
    BY <1>0, <2>2, <2>3
  <2>5. QED
    BY <1>0, <1>5, <2>1, <2>3, <2>4, WorkerStepKeepsInv DEF WriteImage, clusterVars
<1>6. ASSUME NEW h \in Hosts, Finalize(h) PROVE WorkerInv'
  <2>1. PICK v \in {"rebooted", "failed"} :
          /\ pc' = [pc EXCEPT ![h] = v]
          /\ stage' = [stage EXCEPT ![h] = IF v = "failed" THEN "failed" ELSE "rebooting"]
    BY <1>6 DEF Finalize, Fail
  <2>2. QED
    BY <1>0, <1>6, <2>1, WorkerStepKeepsInv DEF Finalize, clusterVars
<1>7. ASSUME NEW h \in Hosts, NodeReadiness(h) PROVE WorkerInv'
  BY <1>7 DEF NodeReadiness, WorkerInv, PulledMasters, installerVars
<1>8. CASE WaitForControlPlane \/ MinMasterNodesDone \/ WaitForBootkube \/ WaitForController
  <2>1. Bootstrap \notin Workers
    BY DEF Workers
  <2>2. PICK v \in PCs : /\ pc' = [pc EXCEPT ![Bootstrap] = v]
                        /\ \A x \in Hosts : stage'[x] = "done" => stage[x] = "done"
    BY <1>0, <1>8 DEF WaitForControlPlane, MinMasterNodesDone, WaitForBootkube,
       WaitForController, Fail, PCs
  <2>3. QED
    BY <1>0, <1>8, <2>1, <2>2, WorkerStepKeepsInv
       DEF WaitForControlPlane, MinMasterNodesDone, WaitForBootkube, WaitForController,
       clusterVars
<1>9. CASE WaitForMasterNodes
  <2>1. PICK r \in updateReadyMasters :
          /\ stage' = [x \in Hosts |-> IF x \in r.joined THEN "joined" ELSE stage[x]]
          /\ pc' = IF r.ok /\ Cardinality(readyMasters') >= minMasterNodes
                     THEN [pc EXCEPT ![Bootstrap] = "masters_ready"]
                     ELSE pc
    BY <1>9 DEF WaitForMasterNodes
  <2>2. Bootstrap \notin Workers
    BY DEF Workers
  <2>3. \E v \in PCs : pc' = [pc EXCEPT ![Bootstrap] = v]
    <3>1. CASE r.ok /\ Cardinality(readyMasters') >= minMasterNodes
      BY <2>1, <3>1 DEF PCs
    <3>2. CASE ~(r.ok /\ Cardinality(readyMasters') >= minMasterNodes)
      <4>1. pc' = [pc EXCEPT ![Bootstrap] = pc[Bootstrap]]
        BY <1>0, <2>1, <3>2
      <4>2. pc[Bootstrap] \in PCs
        BY <1>0
      <4>3. QED
        BY <4>1, <4>2
    <3>3. QED
      BY <3>1, <3>2
  <2>4. QED
    BY <1>0, <1>9, <2>1, <2>2, <2>3, WorkerStepKeepsInv DEF WaitForMasterNodes, clusterVars
<1>10. CASE UpdateConfiguringStatus
  <2>1. PICK logsOk \in BOOLEAN :
          stage' = [x \in Hosts |->
                      IF /\ logsOk
                         /\ x \in verifyHostCanMoveToConfigurationStatus(
                                   IF wfetched THEN wkeys ELSE getInventoryHostsMap,
                                   IF wfetched THEN wstage ELSE stage)
                      THEN "configuring" ELSE stage[x]]
    BY <1>10 DEF UpdateConfiguringStatus
  <2>2. UNCHANGED <<pc, pulled>> /\ \A x \in Hosts : stage'[x] = "done" => stage[x] = "done"
    BY <1>10, <2>1 DEF UpdateConfiguringStatus, clusterVars
  <2>3. QED
    BY <2>2 DEF WorkerInv, PulledMasters
<1>11. CASE StartBootstrap \/ BootkubeComplete \/ SetReadyState \/ Terminated
            \/ UNCHANGED vars
  BY <1>11 DEF StartBootstrap, BootkubeComplete, SetReadyState, Terminated, vars,
     WorkerInv, PulledMasters, installerVars, clusterVars
<1>12. QED
  BY <1>1, <1>2, <1>3, <1>4, <1>5, <1>6, <1>7, <1>8, <1>9, <1>10, <1>11 DEF Next

(* Both strengthenings hold in every reachable state.                      *)
LEMMA RefInvStep == RefInv /\ [Next]_vars => RefInv'
BY MastersRebootedStep, WorkerInvStep DEF RefInv

LEMMA RefInvInit == Init => RefInv
BY DEF Init, RefInv, MastersRebootedInv, WorkerInv, TypeOK, Stages, PCs, PastMasterWait,
   Workers

(* A worker installer reaches finalize and its reboot, outside an         *)
(* add-hosts cluster, only after two control-plane hosts rebooted and     *)
(* pulled their ignition, for every cluster.                              *)
THEOREM WorkerRebootsAfterMastersCorrect == Spec => []WorkerRebootsAfterMasters
<1>1. RefInv => WorkerRebootsAfterMasters
  BY DEF RefInv, WorkerInv, PulledMasters, WorkerRebootsAfterMasters
<1>2. QED
  BY <1>1, RefInvInit, RefInvStep, PTL DEF Spec

-----------------------------------------------------------------------------
(* A step of one installer that moves host h from a point other than a    *)
(* terminal one to point v is a stutter of ClusterBoot when v is not      *)
(* terminal, the failure of h when v is failed, and its reboot when v is  *)
(* rebooted.                                                              *)
LEMMA HostStepMaps ==
    ASSUME pc \in [Hosts -> PCs], NEW h \in Hosts, NEW v,
           pc' = [pc EXCEPT ![h] = v], pc[h] \notin Terminal
    PROVE  /\ v \notin Terminal => HostPhases' = HostPhases
           /\ v = "failed" => CB!FailHost(h)
           /\ v = "rebooted" => CB!Reboot(h)
BY DEF HostPhases, HostPhase, CB!FailHost, CB!Reboot, Terminal

(* A finite set of at least two elements has two distinct elements.      *)
LEMMA TwoElements ==
    ASSUME NEW S, IsFiniteSet(S), Cardinality(S) >= 2
    PROVE  \E a, b \in S : a # b
<1> SUFFICES ASSUME \A a, b \in S : a = b PROVE FALSE
  OBVIOUS
<1>1. CASE S = {}
  BY <1>1, FS_EmptySet
<1>2. CASE S # {}
  <2>1. PICK a \in S : TRUE
    BY <1>2
  <2>2. S = {a}
    BY <2>1
  <2>3. QED
    BY <2>2, FS_Singleton
<1>3. QED
  BY <1>1, <1>2

(* ClusterBoot sees two rebooted hosts in S when at least two hosts of S   *)
(* have their installer past the reboot.                                  *)
LEMMA TwoRebootedInMaps ==
    ASSUME NEW S, S \subseteq Hosts,
           Cardinality({x \in S : pc[x] = "rebooted"}) >= 2
    PROVE  CB!TwoRebootedIn(S)
<1>1. IsFiniteSet({x \in S : pc[x] = "rebooted"})
  BY HostSubsetFinite
<1>2. PICK a, b \in {x \in S : pc[x] = "rebooted"} : a # b
  BY <1>1, TwoElements
<1>3. QED
  BY <1>2 DEF CB!TwoRebootedIn, HostPhases, HostPhase

(* Every step of the installers and the environment is a step or a       *)
(* stutter of ClusterBoot under HostPhases.                                *)
LEMMA RefinementStep == RefInv /\ [Next]_vars => [CB!Next]_HostPhases
<1> SUFFICES ASSUME RefInv, [Next]_vars PROVE [CB!Next]_HostPhases
  OBVIOUS
<1>0. pc \in [Hosts -> PCs]
  BY DEF RefInv, MastersRebootedInv, TypeOK
<1> USE <1>0
<1>1. ASSUME NEW h \in Hosts, NEW v \in PCs \ {"rebooted"},
             pc' = [pc EXCEPT ![h] = v], pc[h] \notin Terminal
      PROVE  [CB!Next]_HostPhases
  BY <1>1, HostStepMaps DEF CB!Next, Terminal
<1>2. ASSUME NEW h \in Hosts, InstallNode(h) PROVE [CB!Next]_HostPhases
  BY <1>2, <1>1 DEF InstallNode, Fail, PCs, Terminal
<1>3. ASSUME NEW h \in Hosts, WriteImage(h) PROVE [CB!Next]_HostPhases
  <2>1. AfterWrite(h).pc \in PCs \ {"rebooted"}
    BY DEF AfterWrite, PCs
  <2>2. QED
    BY <1>3, <1>1, <2>1 DEF WriteImage, Fail, PCs, Terminal
<1>4. ASSUME NEW h \in Hosts, WorkerWaitFor2ReadyMasters(h) PROVE [CB!Next]_HostPhases
  BY <1>4, <1>1 DEF WorkerWaitFor2ReadyMasters, PCs, Terminal
<1>5. ASSUME NEW h \in Hosts, Finalize(h) PROVE [CB!Next]_HostPhases
  <2>1. CASE pc' = [pc EXCEPT ![h] = "failed"]
    BY <1>5, <1>1, <2>1 DEF Finalize, PCs, Terminal
  <2>2. CASE pc' = [pc EXCEPT ![h] = "rebooted"]
    <3>1. CB!Reboot(h)
      BY <1>5, <2>2, HostStepMaps DEF Finalize, Terminal
    <3>2. CASE h = Bootstrap
      <4>1. Cardinality({m \in Masters : pc[m] = "rebooted"}) >= minMasterNodes
        BY <1>5, <3>2, MastersRebootedInvImplies
           DEF Finalize, RefInv, BootstrapRebootsAfterMasters
      <4>2. CB!TwoRebootedIn(Masters)
        BY <4>1, TwoRebootedInMaps DEF minMasterNodes
      <4>3. CB!RebootBootstrap
        BY <3>1, <3>2, <4>2 DEF CB!RebootBootstrap
      <4>4. QED
        BY <4>3 DEF CB!Next
    <3>3. CASE h \in Masters
      BY <3>1, <3>3 DEF CB!Next, CB!RebootMaster
    <3>4. CASE h \in Workers
      <4>1. ~AddHostsCluster => Cardinality(PulledMasters) >= minMasterNodes
        BY <1>5, <3>4 DEF Finalize, RefInv, WorkerInv
      <4>2. PulledMasters \subseteq {x \in AllMasters : pc[x] = "rebooted"}
        BY DEF PulledMasters, AllMasters, RefInv, MastersRebootedInv
      <4>3. ~AddHostsCluster =>
              Cardinality({x \in AllMasters : pc[x] = "rebooted"}) >= minMasterNodes
        BY <4>1, <4>2, CardinalityGrows DEF AllMasters, minMasterNodes
      <4>4. ~AddHostsCluster => CB!TwoRebootedIn(CB!ControlPlane)
        BY <4>3, TwoRebootedInMaps DEF CB!ControlPlane, AllMasters, minMasterNodes
      <4>5. h \in CB!Workers
        BY <3>4 DEF CB!Workers, Workers, CB!ControlPlane, AllMasters
      <4>6. AddHostsCluster \/ CB!TwoRebootedIn(CB!ControlPlane)
        BY <4>4
      <4>7. CB!RebootWorker(h)
        BY <3>1, <4>5, <4>6 DEF CB!RebootWorker
      <4>8. QED
        BY <4>7 DEF CB!Next
    <3>5. QED
      BY <3>2, <3>3, <3>4 DEF Workers
  <2>3. QED
    BY <1>5, <2>1, <2>2 DEF Finalize, Fail
<1>6. CASE WaitForControlPlane \/ MinMasterNodesDone \/ WaitForBootkube \/ WaitForController
  BY <1>6, <1>1 DEF WaitForControlPlane, MinMasterNodesDone, WaitForBootkube,
     WaitForController, Fail, PCs, Terminal
<1>7. CASE WaitForMasterNodes
  <2>1. pc[Bootstrap] = "wait_masters"
    BY <1>7 DEF WaitForMasterNodes
  <2>2. pc = [pc EXCEPT ![Bootstrap] = "wait_masters"]
    BY <2>1
  <2>3. \E v \in {"wait_masters", "masters_ready"} : pc' = [pc EXCEPT ![Bootstrap] = v]
    BY <1>7, <2>2 DEF WaitForMasterNodes
  <2>4. QED
    BY <1>1, <2>1, <2>3 DEF PCs, Terminal
<1>8. CASE \/ \E h \in Hosts : PullIgnition(h) \/ NodeReadiness(h) \/ WaitAndUpdateNodesStatus(h)
           \/ StartBootstrap \/ UpdateConfiguringStatus \/ BootkubeComplete
           \/ SetReadyState \/ Terminated \/ UNCHANGED vars
  <2>1. UNCHANGED pc
    BY <1>8 DEF PullIgnition, NodeReadiness, WaitAndUpdateNodesStatus, StartBootstrap,
       UpdateConfiguringStatus, BootkubeComplete, SetReadyState, Terminated, vars,
       installerVars
  <2>2. QED
    BY <2>1 DEF HostPhases, HostPhase
<1>9. QED
  BY <1>2, <1>3, <1>4, <1>5, <1>6, <1>7, <1>8 DEF Next

(* The installers of a highly-available cluster implement ClusterBoot:    *)
(* under HostPhases every behaviour of Spec is one of CB!Spec.             *)
THEOREM Refinement == Spec => ClusterBootSpec
<1>1. Init => CB!Init
  BY DEF Init, CB!Init, HostPhases, HostPhase
<1>2. QED
  BY <1>1, RefInvInit, RefInvStep, RefinementStep, PTL
     DEF Spec, ClusterBootSpec, CB!Spec
(* What ClusterBoot proves once for every cluster holds of the installers *)
(* through the refinement: the bootstrap installer dispatches its reboot  *)
(* only after two other masters dispatched theirs, and a worker installer *)
(* only after two control-plane hosts did, unless hosts are added to an   *)
(* installed cluster.                                                      *)
THEOREM RebootOrderKept == Spec => []CB!RebootOrder
<1>1. Bootstrap \in Hosts /\ Masters \subseteq Hosts /\ Bootstrap \notin Masters
  BY BootstrapAssumption, MastersAssumption
<1>2. CB!Spec => [](CB!PhaseTypeOK /\ CB!RebootOrder)
  BY <1>1, CB!RebootOrderCorrect
<1>3. QED
  BY <1>2, Refinement, PTL DEF ClusterBootSpec
(* Through the refinement, an installer's exit is final: once it has      *)
(* dispatched its reboot or reported failure, no step of any installer,   *)
(* goroutine or of the environment moves it back or to the other exit.    *)
THEOREM ExitIsFinalKept == Spec => [][CB!ExitIsFinal]_HostPhases
<1>1. Bootstrap \in Hosts /\ Masters \subseteq Hosts /\ Bootstrap \notin Masters
  BY BootstrapAssumption, MastersAssumption
<1>2. CB!Spec => [][CB!ExitIsFinal]_HostPhases
  BY <1>1, CB!ExitIsFinalCorrect
<1>3. QED
  BY <1>2, Refinement, PTL DEF ClusterBootSpec
=============================================================================
