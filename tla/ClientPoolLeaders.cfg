\* Two instances that take the lead from each other, and a manager.
SPECIFICATION Spec
CONSTANTS
    None = None
    First = n1
    Node = {n1, n2}
    Slot = {t1}
    Caller = {}
    Home <- HomeMC
    Manager = {m1}
    Sandbox = {s1, s2}
    MaxIdle = 1
    CreateQps = 1
    Concurrency = 1
    Retries = 1
    Policies = {"FAIL_FAST"}
    MaxRuns = 2
    Environment = {"expire", "lostReply", "destroy", "tombstone", "restart"}
SYMMETRY NamesAndNodes
INVARIANT NoOrphan
INVARIANT InFlightExact
CHECK_DEADLOCK FALSE
