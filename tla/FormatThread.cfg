SPECIFICATION Spec
CONSTANTS
    MaxRetry = 1
    WRITE_RETRIES = 2
INVARIANTS TypeOK EverythingReleased HandlesFitTheStep CleanAfterCheck ReadyMeansDone CancelIsReported
PROPERTY FormatEnds
