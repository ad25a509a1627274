------------------------- MODULE SingleNodeProofs -------------------------
(***************************************************************************)
(* Proof that the single-node installer writes to disk only the master    *)
(* ignition merged with the host-specific files and without a nested      *)
(* Ignition.Config, for every set of files and every flag.                 *)
(***************************************************************************)
EXTENDS SingleNode, TLAPS

(* The ignition updateSingleNodeIgnition leaves at the master ignition     *)
(* path outside dry-run.                                                   *)
Merged == [files |-> MasterFiles \cup HostFiles, nested |-> FALSE]

(* The inductive strengthening: the installer gets past the bootkube wait *)
(* only once bootkube wrote master.ign, bootkube writes it at most once   *)
(* and only before that, the merge leaves Merged at the path, and the     *)
(* image write copies the file at the path.                               *)
SNInv ==
    /\ pc \in {"merge", "write", "finalize", "rebooted"} => bootkubeDone /\ hasMasterIgn
    /\ pc \in {"init", "bootstrap", "wait_bootkube", "merge"} /\ hasMasterIgn
           => masterIgn = MasterIgnition
    /\ ~DryRun /\ pc \in {"write", "finalize", "rebooted"} => masterIgn = Merged
    /\ ~DryRun /\ imageWritten => image = Merged

(* Merging the host ignition, its nested config emptied, into bootkube's  *)
(* master ignition gives Merged.                                           *)
LEMMA MergeResult ==
    MergeIgnitionConfig(MasterIgnition, [HostIgnition EXCEPT !.nested = FALSE]) = Merged
BY DEF MergeIgnitionConfig, MasterIgnition, HostIgnition, Merged

(* Every step keeps the strengthening.                                     *)
LEMMA SNInvStep == SNInv /\ [Next]_vars => SNInv'
<1> SUFFICES ASSUME SNInv, [Next]_vars PROVE SNInv'
  OBVIOUS
<1>1. CASE FormatDisk
  BY <1>1 DEF FormatDisk, SNInv
<1>2. CASE StartInstall
  BY <1>2 DEF StartInstall, Fail, SNInv
<1>3. CASE StartBootstrap
  BY <1>3 DEF StartBootstrap, Fail, SNInv
<1>4. CASE WaitForBootkube
  BY <1>4 DEF WaitForBootkube, Fail, SNInv
<1>5. CASE UpdateSingleNodeIgnition
  <2>1. pc = "merge" /\ hasMasterIgn /\ bootkubeDone /\ masterIgn = MasterIgnition
    BY <1>5 DEF UpdateSingleNodeIgnition, SNInv
  <2>2. PICK r \in Outcomes :
          IF DryRun \/ r = "ok"
            THEN /\ masterIgn' = IF DryRun THEN masterIgn
                                 ELSE MergeIgnitionConfig(masterIgn,
                                          [HostIgnition EXCEPT !.nested = FALSE])
                 /\ pc' = "write"
                 /\ UNCHANGED stage
            ELSE /\ Fail
                 /\ UNCHANGED masterIgn
    BY <1>5 DEF UpdateSingleNodeIgnition
  <2>3. UNCHANGED <<bootkubeDone, hasMasterIgn, imageWritten, image>>
    BY <1>5 DEF UpdateSingleNodeIgnition
  <2>4. CASE DryRun \/ r = "ok"
    BY <2>1, <2>2, <2>3, <2>4, MergeResult DEF SNInv
  <2>5. CASE ~(DryRun \/ r = "ok")
    BY <2>1, <2>2, <2>3, <2>5 DEF SNInv, Fail
  <2>6. QED
    BY <2>4, <2>5
<1>6. CASE WriteImage
  BY <1>6 DEF WriteImage, Fail, SNInv
<1>7. CASE Finalize
  BY <1>7 DEF Finalize, Fail, SNInv
<1>8. CASE BootkubeComplete
  BY <1>8 DEF BootkubeComplete, SNInv
<1>9. CASE Terminated \/ UNCHANGED vars
  BY <1>9 DEF Terminated, vars, SNInv
<1>10. QED
  BY <1>1, <1>2, <1>3, <1>4, <1>5, <1>6, <1>7, <1>8, <1>9 DEF Next

(* The single-node installer writes to disk only bootkube's master        *)
(* ignition merged with the host files, with no nested config.            *)
THEOREM ImageCarriesHostOverridesCorrect == Spec => []ImageCarriesHostOverrides
<1>1. Init => SNInv
  BY DEF Init, SNInv
<1>2. SNInv => ImageCarriesHostOverrides
  BY DEF SNInv, ImageCarriesHostOverrides, Merged
<1>3. QED
  BY <1>1, <1>2, SNInvStep, PTL DEF Spec
-----------------------------------------------------------------------------
(* The points of InstallNode before writeImageToDisk returned.            *)
BeforeWrite == {"init", "bootstrap", "wait_bootkube", "merge", "write"}

(* The strengthening for the refinement: SNInv, the ignition at the path  *)
(* is the expected one from the merge on (in dry-run too), the image is   *)
(* written exactly on the way from write to finalize, and is the file at  *)
(* the path.                                                              *)
SNRefInv ==
    /\ SNInv
    /\ pc \in {"write", "finalize", "rebooted"} => masterIgn = ExpectedImage
    /\ imageWritten => image = ExpectedImage
    /\ pc \in {"finalize", "rebooted"} => imageWritten
    /\ pc \in BeforeWrite => ~imageWritten /\ image = NoIgnition
(* Every step keeps the strengthening.                                     *)
LEMMA SNRefInvStep == SNRefInv /\ [Next]_vars => SNRefInv'
<1> SUFFICES ASSUME SNRefInv, [Next]_vars PROVE SNRefInv'
  OBVIOUS
<1>0. SNInv'
  BY SNInvStep DEF SNRefInv
<1> USE <1>0
<1>1. CASE FormatDisk \/ Terminated \/ UNCHANGED vars
  BY <1>1 DEF FormatDisk, Terminated, vars, SNRefInv, BeforeWrite
<1>2. CASE StartInstall \/ StartBootstrap \/ WaitForBootkube
  BY <1>2 DEF StartInstall, StartBootstrap, WaitForBootkube, Fail, SNRefInv, BeforeWrite
<1>3. CASE UpdateSingleNodeIgnition
  <2>1. pc = "merge" /\ masterIgn = MasterIgnition
    BY <1>3 DEF UpdateSingleNodeIgnition, SNRefInv, SNInv
  <2>2. PICK r \in Outcomes :
          IF DryRun \/ r = "ok"
            THEN /\ masterIgn' = IF DryRun THEN masterIgn
                                 ELSE MergeIgnitionConfig(masterIgn,
                                          [HostIgnition EXCEPT !.nested = FALSE])
                 /\ pc' = "write"
            ELSE pc' = "failed"
    BY <1>3 DEF UpdateSingleNodeIgnition, Fail
  <2>3. UNCHANGED <<imageWritten, image>>
    BY <1>3 DEF UpdateSingleNodeIgnition
  <2>4. CASE DryRun \/ r = "ok"
    <3>1. masterIgn' = ExpectedImage
      BY <2>1, <2>2, <2>4, MergeResult DEF ExpectedImage, Merged
    <3>2. QED
      BY <2>1, <2>2, <2>3, <2>4, <3>1 DEF SNRefInv, BeforeWrite
  <2>5. CASE ~(DryRun \/ r = "ok")
    BY <2>1, <2>2, <2>3, <2>5 DEF SNRefInv, BeforeWrite
  <2>6. QED
    BY <2>4, <2>5
<1>4. CASE WriteImage
  BY <1>4 DEF WriteImage, Fail, SNRefInv, BeforeWrite
<1>5. CASE Finalize
  BY <1>5 DEF Finalize, Fail, SNRefInv, BeforeWrite
<1>6. CASE BootkubeComplete
  <2>1. pc \notin {"merge", "write", "finalize", "rebooted"}
    BY <1>6 DEF BootkubeComplete, SNRefInv, SNInv
  <2>2. QED
    BY <1>6, <2>1 DEF BootkubeComplete, SNRefInv
<1>7. QED
  BY <1>1, <1>2, <1>3, <1>4, <1>5, <1>6 DEF Next

(* A step that moves the installer between points short of an exit and   *)
(* leaves the image alone maps to a stutter of the abstract spec.          *)
LEMMA SNStutter ==
    ASSUME pc \notin {"rebooted", "failed"}, pc' \notin {"rebooted", "failed"},
           UNCHANGED <<imageWritten, image>>
    PROVE  UNCHANGED <<SNPhase, image>>
BY DEF SNPhase

(* A step into failed that leaves the image alone is the abstract Fail.   *)
LEMMA SNFailMaps ==
    ASSUME pc \notin {"rebooted", "failed"}, pc' = "failed",
           UNCHANGED <<imageWritten, image>>
    PROVE  SNB!Fail
BY DEF SNB!Fail, SNPhase

(* Every step of the installer and of bootkube is a step of the abstract  *)
(* single-node boot, or leaves its phase and image alone.                 *)
LEMMA SNRefinementStep == SNRefInv /\ [Next]_vars => [SNB!Next]_<<SNPhase, image>>
<1> SUFFICES ASSUME SNRefInv, [Next]_vars PROVE [SNB!Next]_<<SNPhase, image>>
  OBVIOUS
<1>1. CASE FormatDisk \/ BootkubeComplete \/ Terminated \/ UNCHANGED vars
  <2>1. UNCHANGED <<pc, imageWritten, image>>
    BY <1>1 DEF FormatDisk, BootkubeComplete, Terminated, vars
  <2>2. QED
    BY <2>1 DEF SNPhase
<1>2. CASE StartInstall \/ StartBootstrap \/ WaitForBootkube \/ UpdateSingleNodeIgnition
  <2>1. pc \in {"init", "bootstrap", "wait_bootkube", "merge"}
        /\ pc' \in {"bootstrap", "wait_bootkube", "merge", "write", "failed"}
        /\ UNCHANGED <<imageWritten, image>>
    BY <1>2 DEF StartInstall, StartBootstrap, WaitForBootkube, UpdateSingleNodeIgnition, Fail
  <2>2. CASE pc' = "failed"
    BY <2>1, <2>2, SNFailMaps DEF SNB!Next
  <2>3. CASE pc' # "failed"
    BY <2>1, <2>3, SNStutter
  <2>4. QED
    BY <2>2, <2>3
<1>3. CASE WriteImage
  <2>1. pc = "write" /\ ~imageWritten
    BY <1>3 DEF WriteImage, SNRefInv, BeforeWrite
  <2>2. CASE imageWritten' = TRUE /\ image' = masterIgn /\ pc' = "finalize"
    <3>1. masterIgn = ExpectedImage
      BY <2>1 DEF SNRefInv
    <3>2. SNB!WriteImage
      BY <2>1, <2>2, <3>1 DEF SNB!WriteImage, SNPhase
    <3>3. QED
      BY <3>2 DEF SNB!Next
  <2>3. CASE ~(imageWritten' = TRUE /\ image' = masterIgn /\ pc' = "finalize")
    <3>1. pc' = "failed" /\ UNCHANGED <<imageWritten, image>>
      BY <1>3, <2>3 DEF WriteImage, Fail
    <3>2. QED
      BY <2>1, <3>1, SNFailMaps DEF SNB!Next
  <2>4. QED
    BY <2>2, <2>3
<1>4. CASE Finalize
  <2>1. pc = "finalize" /\ imageWritten /\ UNCHANGED <<imageWritten, image>>
    BY <1>4 DEF Finalize, SNRefInv
  <2>2. pc' \in {"rebooted", "failed"}
    BY <1>4 DEF Finalize, Fail
  <2>3. CASE pc' = "rebooted"
    <3>1. SNB!Reboot
      BY <2>1, <2>3 DEF SNB!Reboot, SNPhase
    <3>2. QED
      BY <3>1 DEF SNB!Next
  <2>4. CASE pc' = "failed"
    BY <2>1, <2>4, SNFailMaps DEF SNB!Next
  <2>5. QED
    BY <2>2, <2>3, <2>4
<1>5. QED
  BY <1>1, <1>2, <1>3, <1>4 DEF Next

(* The single-node installer implements SingleNodeBoot: it writes one     *)
(* image, carrying the expected ignition, before it reboots, for every    *)
(* set of files and every flag, dry-run included.                         *)
THEOREM SNRefinement == Spec => SingleNodeBootSpec
<1>1. Init => SNRefInv
  BY DEF Init, SNRefInv, SNInv, BeforeWrite
<1>2. Init => SNB!Init
  BY DEF Init, SNB!Init, SNPhase
<1>3. QED
  BY <1>1, <1>2, SNRefInvStep, SNRefinementStep, PTL
     DEF Spec, SingleNodeBootSpec, SNB!Spec
(* Through the refinement, from the image write on and when it dispatches *)
(* the reboot, the single-node installer has the expected ignition (the   *)
(* master ignition with the host's overrides, or the unmerged one on a    *)
(* dry run) on the install device.                                        *)
THEOREM SNRebootsIntoExpected == Spec => []SNB!RebootsIntoExpected
BY SNRefinement, SNB!RebootsIntoExpectedCorrect, PTL DEF SingleNodeBootSpec
=============================================================================
