\* Two sweepers, one sandbox, every fault.
SPECIFICATION FairSpec
CONSTANTS
    Replicas = {r1, r2}
    X = 2
    TTL = 2
    Interval = 1
    WriteDelay = 1
    Policies = {"plain", "probe"}
    HasProber = TRUE
    Expiries = {4}
    Env = {"outage", "drop", "flush", "crash", "lag"}
    MaxNow = 4
    MaxEvents = 1
    None = none
INVARIANT IdleInv
INVARIANT NeverEarly
PROPERTY ResumeRestartsClock
PROPERTY IdleIsPaused
