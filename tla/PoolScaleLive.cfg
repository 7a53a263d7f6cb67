SPECIFICATION FairSpec
CONSTANTS
    Slots = {p1, p2, p3}
    Revisions = {1, 2}
    BufferMin = 1
    BufferMax = 1
    PoolMin = 0
    PoolMax = 2
    MaxRequests = 2
    ScaleUnavailable <- Zero
    UpdateUnavailable <- Quarter
    Environment = {"podLoss", "timeout"}
PROPERTY PoolSettles
CHECK_DEADLOCK FALSE
