SPECIFICATION FairSpec
CONSTANTS
    Channel = "max"
    RetryAfters = {1}
    MaxPause = 1
    MaxBackoff = 1
    VkRatePause = 1
    VkFloodPause = 2
    NoRow = NoRow
    Recipients = {r1, r2}
    Workers = {w1}
    MaxAttempts = 1
    Lease = 2
    Backoff <- MCBackoff
    DispatchBatch = 2
    SendsFit = TRUE
    RedisFlaky = FALSE
    Moves = {}
    Leavers = {}
    AttemptCap = 1
    LimitCap = 2
    LossCap = 0
    FaultCap = 1
    JobCap = 1
PROPERTIES
    QueuedIsSettled
CHECK_DEADLOCK FALSE
