SPECIFICATION Spec
CONSTANTS
    Slots = {p1, p2, p3, p4}
    Revisions = {1, 2}
    BufferMin = 1
    BufferMax = 1
    PoolMin = 0
    PoolMax = 3
    MaxRequests = 2
    ScaleUnavailable <- Two
    UpdateUnavailable <- Quarter
    Environment = {"restart", "error", "conflict", "evict"}
SYMMETRY SlotSymmetry
INVARIANT RampInv
INVARIANT PoolMaxKept
INVARIANT RampKept
PROPERTY ScaleInKeepsBuffer
CHECK_DEADLOCK FALSE
