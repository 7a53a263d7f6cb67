\* Liveness: deletions finish and waiting sandboxes are served.
SPECIFICATION FairSpec
CONSTANTS
    Pods = {p1, p2}
    Sandboxes = {a, b}
    NoSandbox = NoSandbox
    MaxReplicas <- OneEach
    Wide = a
    Tasked = {a}
    Recycler = "delete"
    Environment = {"detach"}
PROPERTY DeletedSandboxLeaves
PROPERTY WaitingSandboxServed
CHECK_DEADLOCK FALSE
