SPECIFICATION Spec
CONSTANTS
    Channel = "vk"
    RetryAfters = {1, 3}
    MaxPause = 2
    MaxBackoff = 1
    VkRatePause = 1
    VkFloodPause = 2
    NoRow = NoRow
    Recipients = {r1}
    Workers = {w1, w2}
    MaxAttempts = 2
    Lease = 2
    Backoff <- MCBackoff
    DispatchBatch = 1
    SendsFit = TRUE
    RedisFlaky = FALSE
    Moves = {"active", "paused"}
    Leavers = {r1}
    AttemptCap = 2
    LimitCap = 1
    LossCap = 1
    FaultCap = 1
    JobCap = 1
SYMMETRY Symmetry
INVARIANTS
    SuppressedForCause
    CopiesAreExplained
PROPERTIES
    ImplementsOutbox
CHECK_DEADLOCK FALSE
