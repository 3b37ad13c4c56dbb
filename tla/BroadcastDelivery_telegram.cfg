SPECIFICATION Spec
CONSTANTS
    Channel = "telegram"
    RetryAfters = {1, 3}
    MaxPause = 2
    MaxBackoff = 1
    VkRatePause = 1
    VkFloodPause = 2
    NoRow = NoRow
    Recipients = {r1}
    Workers = {w1, w2}
    MaxAttempts = 3
    Lease = 3
    Backoff <- MCBackoff
    DispatchBatch = 1
    SendsFit = TRUE
    RedisFlaky = TRUE
    Moves = {"active", "paused", "completed", "cancelled"}
    Leavers = {r1}
    AttemptCap = 4
    LimitCap = 1
    LossCap = 1
    FaultCap = 2
    JobCap = 2
SYMMETRY Symmetry
INVARIANTS
    OneHolder
    IInv
PROPERTIES
    ForwardOnly
    ImplementsOutbox
CHECK_DEADLOCK FALSE
