---------------------------- MODULE SingleNode ----------------------------
(***************************************************************************)
(* The node installer of a single-node cluster (HighAvailabilityMode None) *)
(* in src/src/installer/installer.go: InstallNode runs the bootstrap       *)
(* sub-flow itself (createSingleNodeMasterIgnition), waits for bootkube,  *)
(* merges the host-specific ignition into the master ignition bootkube    *)
(* produced (updateSingleNodeIgnition), writes the image and reboots.     *)
(* There is no watcher, no master wait and no replicas patch.             *)
(*                                                                         *)
(* An ignition config is abstracted to the set of files it carries and    *)
(* whether its nested Ignition.Config (the merge/replace pointer) is set. *)
(* Stage reports are best-effort (UpdateHostInstallProgress only logs its *)
(* error): when MayFail a report may be lost.                             *)
(***************************************************************************)
EXTENDS Naturals, Sequences

CONSTANTS
    DisksToFormat,                \* i.Config.DisksToFormat, a sequence of disks
    DryRun,                       \* i.DryRunEnabled
    SkipInstallationDiskCleanup,  \* i.Config.SkipInstallationDiskCleanup
    MayFail,                      \* remote calls and local commands may fail
    MasterFiles,                  \* the files of bootkube's master.ign
    HostFiles                     \* the host-specific files of the host ignition

ASSUME SingleNodeFlagsAssumption ==
    {DryRun, SkipInstallationDiskCleanup, MayFail} \subseteq BOOLEAN

(* An ignition config: its files and whether Ignition.Config is set.      *)
Ignitions == [files : SUBSET (MasterFiles \cup HostFiles), nested : BOOLEAN]

(* The master.ign bootkube writes to singleNodeMasterIgnitionPath.        *)
MasterIgnition == [files |-> MasterFiles, nested |-> FALSE]

(* The content of a file not written yet.                                *)
NoIgnition == [files |-> {}, nested |-> FALSE]

(* The host ignition DownloadHostIgnition returns: the host's files, and  *)
(* a nested config pointing at the machine-config server.                 *)
HostIgnition == [files |-> HostFiles, nested |-> TRUE]

SNStages == {"none", "starting-installation", "installing",
             "waiting-for-bootkube", "writing-image-to-disk", "rebooting",
             "failed"}

SNPCs == {"init", "bootstrap", "wait_bootkube", "merge", "write",
          "finalize", "rebooted", "failed"}

VARIABLES
    nextDisk,      \* FormatDisks: the index of the next disk to format
    formatted,     \* the disks FormatDisk succeeded on
    pc,            \* where InstallNode is
    stage,         \* the stage the inventory holds for the host
    services,      \* bootkube.service has been started
    bootkubeDone,  \* /opt/openshift/.bootkube.done exists
    hasMasterIgn,  \* a file exists at singleNodeMasterIgnitionPath
    masterIgn,     \* ... and its content
    imageWritten,  \* the image has been written to the install device
    image          \* ... and the ignition embedded in it

vars == <<nextDisk, formatted, pc, stage, services, bootkubeDone, hasMasterIgn, masterIgn, imageWritten, image>>

-----------------------------------------------------------------------------
(* The outcomes of a call whose error makes InstallNode return.            *)
Outcomes == IF MayFail THEN {"ok", "fail"} ELSE {"ok"}

(* UpdateHostInstallProgress: the inventory takes the new stage, or the   *)
(* call fails and the error is only logged.                               *)
Report(s) == stage' \in IF MayFail THEN {s, stage} ELSE {s}

(* cleanupInstallDevice returns nil at once in dry-run or when the        *)
(* cleanup is skipped; otherwise its commands may fail.                   *)
cleanupInstallDevice ==
    IF DryRun \/ SkipInstallationDiskCleanup THEN {"ok"} ELSE Outcomes

(* MergeIgnitionConfig (ignition utility, from the spec): the child's     *)
(* files are added to the parent's; a nested config set in either is set  *)
(* in the result.                                                         *)
MergeIgnitionConfig(parent, child) ==
    [files |-> parent.files \cup child.files,
     nested |-> parent.nested \/ child.nested]

Init ==
    /\ nextDisk = 1
    /\ formatted = {}
    /\ pc = "init"
    /\ stage = "none"
    /\ services = FALSE
    /\ bootkubeDone = FALSE
    /\ hasMasterIgn = FALSE
    /\ masterIgn = NoIgnition
    /\ imageWritten = FALSE
    /\ image = NoIgnition

(* RunInstaller: InstallNode returned an error; failed is reported.        *)
Fail ==
    /\ pc' = "failed"
    /\ Report("failed")

(* FormatDisks, one disk of the loop: a failure is logged and the loop   *)
(* goes on with the next disk.                                            *)
FormatDisk ==
    /\ nextDisk <= Len(DisksToFormat)
    /\ nextDisk' = nextDisk + 1
    /\ \E r \in Outcomes :
         formatted' = IF r = "ok" THEN formatted \cup {DisksToFormat[nextDisk]}
                                  ELSE formatted
    /\ UNCHANGED <<pc, stage, services, bootkubeDone, hasMasterIgn, masterIgn,
                   imageWritten, image>>

(* InstallNode up to the single-node branch: the starting-installation    *)
(* report, cleanupInstallDevice and Mkdir(InstallDir), the installing     *)
(* report (the first report is overwritten within the step).              *)
StartInstall ==
    /\ nextDisk > Len(DisksToFormat)
    /\ pc = "init"
    /\ \E clean \in cleanupInstallDevice, mkdir \in Outcomes :
        IF clean = "ok" /\ mkdir = "ok"
          THEN pc' = "bootstrap" /\ Report("installing")
          ELSE Fail
    /\ UNCHANGED <<nextDisk, formatted, services, bootkubeDone, hasMasterIgn, masterIgn, imageWritten, image>>

(* createSingleNodeMasterIgnition: startBootstrap runs in the installer   *)
(* itself; on success waitForBootkube reports waiting-for-bootkube.  A    *)
(* failure after bootkube.service started leaves it running.              *)
StartBootstrap ==
    /\ pc = "bootstrap"
    /\ \E r \in Outcomes :
        IF r = "ok"
          THEN /\ services' = TRUE
               /\ pc' = "wait_bootkube"
               /\ Report("waiting-for-bootkube")
          ELSE /\ services' \in BOOLEAN
               /\ Fail
    /\ UNCHANGED <<nextDisk, formatted, bootkubeDone, hasMasterIgn, masterIgn, imageWritten, image>>

(* waitForBootkube (context.Background(): it waits forever) sees the done *)
(* marker; then the stat of the master ignition.                          *)
WaitForBootkube ==
    /\ pc = "wait_bootkube"
    /\ bootkubeDone
    /\ IF hasMasterIgn
         THEN pc' = "merge" /\ UNCHANGED stage
         ELSE Fail
    /\ UNCHANGED <<nextDisk, formatted, services, bootkubeDone, hasMasterIgn, masterIgn, imageWritten, image>>

(* Mutant: the nested Ignition.Config of the host ignition is kept.       *)
UpdateSingleNodeIgnitionKeepConfig ==
    /\ pc = "merge"
    /\ \E r \in Outcomes :
        IF DryRun \/ r = "ok"
          THEN /\ masterIgn' = IF DryRun THEN masterIgn
                               ELSE MergeIgnitionConfig(masterIgn, HostIgnition)
               /\ pc' = "write"
               /\ UNCHANGED stage
          ELSE /\ Fail
               /\ UNCHANGED masterIgn
    /\ UNCHANGED <<nextDisk, formatted, services, bootkubeDone, hasMasterIgn, imageWritten, image>>

(* updateSingleNodeIgnition: nothing in dry-run; otherwise download the   *)
(* host ignition, parse both files, empty the host config's nested        *)
(* Ignition.Config, merge it into the master ignition and write the       *)
(* result over the master ignition.  Any error fails the installation.    *)
UpdateSingleNodeIgnition ==
    /\ pc = "merge"
    /\ \E r \in Outcomes :
        IF DryRun \/ r = "ok"
          THEN /\ masterIgn' = IF DryRun THEN masterIgn
                               ELSE MergeIgnitionConfig(masterIgn,
                                        [HostIgnition EXCEPT !.nested = FALSE])
               /\ pc' = "write"
               /\ UNCHANGED stage
          ELSE /\ Fail
               /\ UNCHANGED masterIgn
    /\ UNCHANGED <<nextDisk, formatted, services, bootkubeDone, hasMasterIgn, imageWritten, image>>

(* Mutant: the error of writeImageToDisk is logged and ignored.          *)
WriteImageIgnoreError ==
    /\ pc = "write"
    /\ \E r \in Outcomes :
        IF r = "ok"
          THEN /\ imageWritten' = TRUE
               /\ image' = masterIgn
               /\ pc' = "finalize"
               /\ Report("writing-image-to-disk")
          ELSE /\ UNCHANGED <<imageWritten, image>>
               /\ pc' = "finalize"
               /\ Report("writing-image-to-disk")
    /\ UNCHANGED <<nextDisk, formatted, services, bootkubeDone, hasMasterIgn, masterIgn>>

(* writeImageToDisk with the master ignition path: the report, then       *)
(* Retry(3) of WriteImageToDisk; SetBootOrder's error is ignored.         *)
WriteImage ==
    /\ pc = "write"
    /\ \E r \in Outcomes :
        IF r = "ok"
          THEN /\ imageWritten' = TRUE
               /\ image' = masterIgn
               /\ pc' = "finalize"
               /\ Report("writing-image-to-disk")
          ELSE /\ UNCHANGED <<imageWritten, image>>
               /\ Fail
    /\ UNCHANGED <<nextDisk, formatted, services, bootkubeDone, hasMasterIgn, masterIgn>>

(* finalize: the rebooting report, then (dry-run) the fake reboot marker, *)
(* or stopping agent.service under ironic, or Reboot.                     *)
Finalize ==
    /\ pc = "finalize"
    /\ \E r \in Outcomes :
        IF r = "ok"
          THEN pc' = "rebooted" /\ Report("rebooting")
          ELSE Fail
    /\ UNCHANGED <<nextDisk, formatted, services, bootkubeDone, hasMasterIgn, masterIgn, imageWritten, image>>

(* bootkube completes: it writes master.ign, then its done marker; when   *)
(* it misbehaves the marker appears without the master ignition.          *)
BootkubeComplete ==
    /\ services
    /\ ~bootkubeDone
    /\ bootkubeDone' = TRUE
    /\ hasMasterIgn' \in IF MayFail THEN BOOLEAN ELSE {TRUE}
    /\ masterIgn' = IF hasMasterIgn' THEN MasterIgnition ELSE masterIgn
    /\ UNCHANGED <<nextDisk, formatted, pc, stage, services, imageWritten, image>>

(* The installer process has exited.                                      *)
Terminated ==
    /\ pc \in {"rebooted", "failed"}
    /\ UNCHANGED vars

Next ==
    \/ FormatDisk
    \/ StartInstall
    \/ StartBootstrap
    \/ WaitForBootkube
    \/ UpdateSingleNodeIgnition
    \/ WriteImage
    \/ Finalize
    \/ BootkubeComplete
    \/ Terminated

Spec == Init /\ [][Next]_vars

-----------------------------------------------------------------------------
(* Every variable holds a value of its type.                               *)
TypeOK ==
    /\ nextDisk \in 1..Len(DisksToFormat) + 1
    /\ formatted \subseteq {DisksToFormat[i] : i \in 1..Len(DisksToFormat)}
    /\ pc \in SNPCs
    /\ stage \in SNStages
    /\ services \in BOOLEAN
    /\ bootkubeDone \in BOOLEAN
    /\ hasMasterIgn \in BOOLEAN
    /\ masterIgn \in Ignitions
    /\ imageWritten \in BOOLEAN
    /\ image \in Ignitions

(* The spec (section 8, single-node mode): the ignition written to disk   *)
(* is bootkube's master ignition with the host-specific files merged in   *)
(* and an emptied nested Ignition.Config, so that the host does not go    *)
(* back to the machine-config server (updateSingleNodeIgnition; not in    *)
(* dry-run, where the merge is skipped).                                  *)
ImageCarriesHostOverrides ==
    imageWritten /\ ~DryRun =>
        image = [files |-> MasterFiles \cup HostFiles, nested |-> FALSE]

(* The order of the stages in a host's lifetime (spec, sections 3 and 8). *)
SNStageRank ==
    [s \in SNStages \ {"failed"} |->
        CASE s = "none" -> 0
          [] s = "starting-installation" -> 1
          [] s = "installing" -> 2
          [] s = "writing-image-to-disk" -> 3
          [] s = "waiting-for-bootkube" -> 5
          [] s = "rebooting" -> 7]

(* The spec (section 4.3, ordering): inside one installer run the stages  *)
(* are reported in strict monotonic order of the lifetime; the single-    *)
(* node installer reports waiting-for-bootkube before writing the image.  *)
SNStagesMonotonic ==
    [][stage' # stage /\ stage # "failed" /\ stage' # "failed" =>
          SNStageRank[stage'] > SNStageRank[stage]]_stage
(* The refinement mapping: an installer that dispatched the reboot has    *)
(* rebooted, one that reported failed has failed, one that wrote the      *)
(* image (writeImageToDisk returned nil) has written it, and any other is *)
(* installing.                                                            *)
SNPhase ==
    IF pc \in {"rebooted", "failed"} THEN pc
    ELSE IF imageWritten THEN "written" ELSE "installing"

(* The ignition the image must carry: bootkube's master ignition merged   *)
(* with the host files, nested config emptied; in dry-run, where          *)
(* updateSingleNodeIgnition does nothing, bootkube's master ignition.     *)
ExpectedImage ==
    IF DryRun THEN MasterIgnition
              ELSE [files |-> MasterFiles \cup HostFiles, nested |-> FALSE]

SNB == INSTANCE SingleNodeBoot
         WITH phase <- SNPhase, Blank <- NoIgnition, Expected <- ExpectedImage

(* The single-node installer implements the spec's promise: the image is  *)
(* written once, with the expected ignition (updateSingleNodeIgnition's   *)
(* merge, then writeImageToDisk), before finalize reboots; a failure of   *)
(* any later call (finalize) leaves that image in place.                 *)
SingleNodeBootSpec == SNB!Spec
=============================================================================
