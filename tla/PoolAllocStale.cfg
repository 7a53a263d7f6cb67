\* Delete strategy with stale BatchSandboxes, restarts, lost pods and lost
\* replies.
SPECIFICATION Spec
CONSTANTS
    Pods = {p1, p2}
    Sandboxes = {a}
    NoSandbox = NoSandbox
    MaxReplicas <- OneEach
    Wide = a
    Tasked = {a}
    Recycler = "delete"
    Environment = {"lag", "restart", "podLoss", "lostReply"}
SYMMETRY PodSymmetry
INVARIANT ReleasedPodGone
CHECK_DEADLOCK FALSE
