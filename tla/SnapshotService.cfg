\* One snapshot; two servers where PostgreSQL allows them.
SPECIFICATION Spec
CONSTANTS
    None = None
    Server = {v1, v2}
    Main = v1
    Thread <- ThreadMC
    Snapshot = {s1}
    Backends = {"docker", "kubernetes", "kubernetesHA", "fsb", "fsbHA"}
    Faults = {"reject", "lostCreate", "timeout", "store", "inspect", "delete", "crash"}
    MaxFaults <- MaxFaultsMC
INVARIANT ReadyRestorable
INVARIANT FailedMeansFailed
INVARIANT ArtifactsOwned
PROPERTY OneTerminalTransition
PROPERTY MadeForLiveRow
PROPERTY CreatingEnds
PROPERTY DeletingEnds
CHECK_DEADLOCK FALSE
