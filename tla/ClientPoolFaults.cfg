\* One caller and a manager under every failure.
SPECIFICATION Spec
CONSTANTS
    None = None
    First = n1
    Node = {n1}
    Slot = {t1}
    Caller = {c1}
    Home <- HomeMC
    Manager = {m1}
    Sandbox = {s1, s2}
    MaxIdle = 1
    CreateQps = 1
    Concurrency = 1
    Retries = 1
    Policies = {"DIRECT_CREATE"}
    MaxRuns = 1
    Environment = {"crash", "destroy", "tombstone", "outage", "release", "resize", "die", "authError", "renewError", "connectError", "drainTimeout", "killError", "stageError", "createError"}
SYMMETRY Names
INVARIANT ClientInv
INVARIANT ExclusiveCustody
INVARIANT DestroyedEmpty
CHECK_DEADLOCK FALSE
