\* Delete strategy under restarts, failed writes, conflicts and a stale list
\* of pods.
SPECIFICATION Spec
CONSTANTS
    Pods = {p1, p2}
    Sandboxes = {a, b}
    NoSandbox = NoSandbox
    MaxReplicas <- TwoForWide
    Wide = a
    Tasked = {a}
    Recycler = "delete"
    Environment = {"restart", "patchError", "conflict", "podLag"}
SYMMETRY PodSymmetry
INVARIANT AllocationInv
INVARIANT ExclusiveAllocation
INVARIANT CleanHandover
INVARIANT UsedPodNotIdle
INVARIANT TaskHoldsPod
INVARIANT FinalizerGuardsPods
INVARIANT GoneSandboxFreed
PROPERTY HeldPodKept
CHECK_DEADLOCK FALSE
