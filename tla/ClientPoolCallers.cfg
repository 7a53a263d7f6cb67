\* Two callers of one instance: shutdown, ageing entries and stale candidates.
SPECIFICATION Spec
CONSTANTS
    None = None
    First = n1
    Node = {n1}
    Slot = {t1, t2}
    Caller = {c1, c2}
    Home <- HomeMC
    Manager = {}
    Sandbox = {s1, s2}
    MaxIdle = 1
    CreateQps = 1
    Concurrency = 1
    Retries = 2
    Policies = {"RETRY_NEXT_IDLE_THEN_CREATE"}
    MaxRuns = 1
    Environment = {"shutdown", "age", "connectError"}
SYMMETRY Names
INVARIANT DrainedQuiet
INVARIANT AdmissionBound
PROPERTY CustodySpec
CHECK_DEADLOCK FALSE
