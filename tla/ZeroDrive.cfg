SPECIFICATION ZeroSpec
CONSTANTS
    DiskSize = 7
    buf_size = 2
    THROTTLE = 2
    WRITE_RETRIES = 2
INVARIANT ClearedOnSuccess
PROPERTY ZeroingEnds
