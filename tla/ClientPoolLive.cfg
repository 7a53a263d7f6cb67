\* Takeover after a crash, and destroy().
SPECIFICATION FairSpec
CONSTANTS
    None = None
    First = n1
    Node = {n1, n2}
    Slot = {t1}
    Caller = {}
    Home <- HomeMC
    Manager = {m1}
    Sandbox = {s1, s2}
    MaxIdle = 1
    CreateQps = 1
    Concurrency = 1
    Retries = 1
    Policies = {"FAIL_FAST"}
    MaxRuns = 1
    Environment = {"crash", "destroy"}
PROPERTY BufferRefilled
PROPERTY DestroyReachesAll
CHECK_DEADLOCK FALSE
