SPECIFICATION FairSpec
CONSTANTS
    FileSize = 7
    BUFFER_SIZE = 2
    Bufs = {0, 1, 2}
    num_hashes = 3
    Faults = {"timeout", "resource"}
INVARIANTS TypeOK NoOverwriteWhileHashing PublishedDigestIsWhole
PROPERTIES ProcBufferStable HashThreadEnds DigestsComputed
