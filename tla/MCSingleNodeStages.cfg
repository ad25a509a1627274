CONSTANTS
    f1 = f1
    f2 = f2
    MasterFiles = {f1}
    HostFiles = {f2}
    DisksToFormat <- MCDisks
    d1 = d1
    d2 = d2
    DryRun = FALSE
    SkipInstallationDiskCleanup = FALSE
    MayFail = FALSE
SPECIFICATION Spec
PROPERTY SNStagesMonotonic
