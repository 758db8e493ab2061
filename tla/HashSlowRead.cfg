SPECIFICATION FairSpec
CONSTANTS
    FileSize = 2
    BUFFER_SIZE = 2
    Bufs = {0, 1, 2}
    num_hashes = 2
    Faults = {"timeout"}
INVARIANT SuccessMeansAllDigests
