\* Delete strategy while sandboxes detach and pods are evicted.
SPECIFICATION Spec
CONSTANTS
    Pods = {p1, p2}
    Sandboxes = {a, b}
    NoSandbox = NoSandbox
    MaxReplicas <- TwoForWide
    Wide = a
    Tasked = {a}
    Recycler = "delete"
    Environment = {"detach", "evict", "patchError"}
SYMMETRY PodSymmetry
INVARIANT CleanHandover
PROPERTY HeldPodKept
PROPERTY GivenPodAlive
CHECK_DEADLOCK FALSE
