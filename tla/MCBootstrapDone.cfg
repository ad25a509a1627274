CONSTANTS
    b = b
    m1 = m1
    m2 = m2
    w1 = w1
    Hosts <- MCHosts
    Bootstrap = b
    Masters <- MCMasters
    Unmatched = {}
    ControlPlaneReplicas = 3
    VersionLt47 = TRUE
    NetworkOVN = TRUE
    AddHostsCluster = FALSE
    MayFail = FALSE
SPECIFICATION Spec
INVARIANT BootstrapWaitsForDoneMasters
