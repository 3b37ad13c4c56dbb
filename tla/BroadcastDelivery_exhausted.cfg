SPECIFICATION Spec
CONSTANTS
    Channel = "telegram"
    RetryAfters = {1, 3}
    MaxPause = 2
    MaxBackoff = 1
    VkRatePause = 1
    VkFloodPause = 2
    NoRow = NoRow
    Recipients = {r1}
    Workers = {w1}
    MaxAttempts = 2
    Lease = 3
    Backoff <- MCBackoff
    DispatchBatch = 1
    SendsFit = TRUE
    RedisFlaky = FALSE
    Moves = {}
    Leavers = {}
    AttemptCap = 3
    LimitCap = 0
    LossCap = 0
    FaultCap = 0
    JobCap = 1
INVARIANTS
    ExhaustedIsNotRetried
CHECK_DEADLOCK FALSE
